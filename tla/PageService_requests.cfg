SPECIFICATION Spec
CONSTANTS
  Callers = {a, b}
  Workers = {w}
  PageCount = 2
  Fragile = {1}
  MaxConcurrency = 2
  ResidentLimit = 1
  Asked = {1, 2}
  MaxRequests = 1
  MaxRevision = 1
  NoScene = NoScene
INVARIANTS
  WaitersWillBeServed
  KeptScenesAreCurrent
PROPERTIES
  EveryRequestReturns
CHECK_DEADLOCK FALSE
