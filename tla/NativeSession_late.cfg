SPECIFICATION NativeSpec
CONSTANTS
  Callers = {a, b}
  Workers = {w}
  PageCount = 1
  Fragile = {}
  MaxConcurrency = 1
  ResidentLimit = 1
  Asked = {2}
  MaxRequests = 1
  MaxRevision = 1
  NoScene = NoScene
  MaxTokens = 0
  MaxSilent = 0
  MaxRuns = 1
INVARIANTS
  CloseJoinsWorkers
CHECK_DEADLOCK FALSE
