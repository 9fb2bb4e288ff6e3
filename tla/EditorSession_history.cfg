SPECIFICATION Spec
CONSTANTS
  p1 = p1
  p2 = p2
  t = t
  note = note
  other = other
  x = x
  y = y
  quote = quote
  Pages = {p1}
  Objects = {t, note}
  PageOf <- MCPageOf
  Editable = {t, note}
  TextValues = {x, y}
  AnnotationValues = {quote}
  Targets <- MCTargets
  Quoted <- MCQuoted
  CommandIds = {c1, c2, c3, c4, c5}
  TypingGroups <- Keystrokes
  NoTyping = NoTyping
  NoObject = NoObject
  MaxRevision = 4
  Imports <- MCImports
  FirstPages = {p1}
  MaxPrepared = 0
  MaxPreviews = 0
INVARIANTS
  HistoryAgreesWithDocument
  UndoRedoAlwaysApply
  OneCommandPerRevision
PROPERTIES
  KeepsTimeline
SYMMETRY Ids
CHECK_DEADLOCK FALSE
