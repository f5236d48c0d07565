SPECIFICATION Spec
CONSTANTS
  MaxKernels = 3
  Environments <- EarlySignals
INVARIANT GracefulShutdown
CHECK_DEADLOCK FALSE
