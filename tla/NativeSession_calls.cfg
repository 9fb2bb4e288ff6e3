SPECIFICATION MCSpec
CONSTANTS
  Callers = {a, b}
  Workers = {w}
  PageCount = 1
  Fragile = {}
  MaxConcurrency = 1
  ResidentLimit = 1
  Asked = {2}
  MaxRequests = 1
  MaxRevision = 2
  NoScene = NoScene
  MaxTokens = 1
  MaxSilent = 1
  MaxRuns = 1
INVARIANTS
  PartsAgree
  ProposalsFitTheirText
  ClosedMeansJoined
PROPERTIES
  EveryNativeCallReturns
CHECK_DEADLOCK FALSE
