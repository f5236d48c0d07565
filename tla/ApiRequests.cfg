SPECIFICATION Spec
CONSTANTS
  Scenarios <- MCScenarios
  MaxRequests = 3
  MaxKernels = 2
INVARIANTS
  ClientReachesItsHandler
  AnsweredUpdatesHold
CHECK_DEADLOCK FALSE
