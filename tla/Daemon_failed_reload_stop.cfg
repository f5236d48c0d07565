SPECIFICATION Spec
CONSTANTS
  MaxKernels = 3
  Environments <- FailingConfigs
INVARIANT ShutdownContinues
CHECK_DEADLOCK FALSE
