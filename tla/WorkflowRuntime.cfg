SPECIFICATION FairSpec
CONSTANTS
  Workflow <- MCWorkflow
  Event <- OneEvent
  NoAccount = "no account"
  KnownTriggers <- MCKnownTriggers
  KnownConditions <- MCKnownConditions
  KnownActions <- MCKnownActions
  NoActionId = "none"
  Run = {1, 2}
  NoRun = NoRun
  MaxInstances = 2
  Environments <- AllEnvironments
INVARIANTS
  TypeOK
  HistoryComplete
  StatusTellsSteps
  ActionsAreRecorded
  OnlyInvalidAbort
  RegistryMirrorsTable
PROPERTIES
  RunsEnd
  KeepsPromise
CHECK_DEADLOCK FALSE
