SPECIFICATION FairSpec
CONSTANTS
  MaxKernels = 5
  Environments <- AllEnvironments
INVARIANTS
  OneKernelHoldsClients
  RunningIsReady
  StopReleases
PROPERTIES
  TasksEnd
  ShutdownExits
  KeepsSuccession
CHECK_DEADLOCK FALSE
