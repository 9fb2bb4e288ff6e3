SPECIFICATION Spec
CONSTANTS
  p1 = p1
  p2 = p2
  t = t
  note = note
  other = other
  x = x
  y = y
  quote = quote
  Pages = {p1, p2}
  Objects = {t, other}
  PageOf <- MCPageOf
  Editable = {t}
  TextValues = {x, y}
  AnnotationValues = {}
  Targets <- MCTargets
  Quoted <- MCQuoted
  CommandIds = {c1, c2, c3}
  TypingGroups = {}
  NoTyping = NoTyping
  NoObject = NoObject
  MaxRevision = 2
  Imports <- MCImports
  FirstPages = {p1}
  MaxPrepared = 1
  MaxPreviews = 1
INVARIANTS
  TypeOK
  PreparedLosesOnlyHydration
  PreviewMatchesDocument
SYMMETRY Ids
CHECK_DEADLOCK FALSE
