SPECIFICATION MCSpec
CONSTANTS
  p1 = p1
  t = t
  note = note
  x = x
  y = y
  quote = quote
  Pages = {p1}
  Objects = {t, note}
  PageOf <- MCPageOf
  Editable = {t, note}
  TextValues = {x, y}
  AnnotationValues = {quote}
  Targets <- MCTargets
  Quoted <- MCQuoted
  CommandIds = {c1, c2, c3}
  TypingGroups <- Keystrokes
  NoTyping = NoTyping
  NoObject = NoObject
  NoCommit = NoCommit
  MaxRevision = 3
  Imports <- MCImports
  FirstPages = {}
  MaxPrepared = 1
  LastPrepared = 1
  MaxPreviews = 0
INVARIANTS
  RecoveryIsFaithful
  AcknowledgedIsDurable
  AppendedCanPublish
PROPERTIES
  JournalOnlyGrows
SYMMETRY Ids
CHECK_DEADLOCK FALSE
