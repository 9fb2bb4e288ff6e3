SPECIFICATION Spec
CONSTANTS
  Worker = w
  Callers = {a, b}
  MaxRounds = 2
  MaxCalls = 2
  MaxBatch = 2
  MaxApprovals = 2
  MaxRevision = 2
  MaxFaults = 1
  FaultyIn = {"run", "approve", "reject", "cancel", "close"}
INVARIANTS
  RunsHaveOneOwner
  CommitsAreShown
  CommitsAreLinked
PROPERTIES
  RunsEndForGood
  EveryCallReturns
CHECK_DEADLOCK FALSE
