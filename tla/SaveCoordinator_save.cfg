SPECIFICATION Spec
CONSTANTS
  Saver = {s1, s2}
  Path = {document, copy}
  Document = document
  MaxRevision = 1
  MaxDepth = 1
  Writers = TRUE
  Faults = {"verify", "materialize", "validate", "flush", "replace", "check", "record", "archive"}
INVARIANTS
  FilesAreSound
  ReportsTellTheTruth
  PreviousIsKept
CHECK_DEADLOCK FALSE
SYMMETRY Symmetry
