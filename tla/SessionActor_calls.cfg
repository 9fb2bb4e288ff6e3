SPECIFICATION Spec
CONSTANTS
  Clients = {a, b}
  Subscribers = {s}
  RequestCapacity = 1
  EventCapacity = 2
  MaxCalls = 3
INVARIANTS
  NoGapIsForgotten
PROPERTIES
  EveryCallReturns
  EveryCommitIsTold
CHECK_DEADLOCK FALSE
