SPECIFICATION Spec
CONSTANTS
  Workflow <- MCWorkflow
  Event <- OneEvent
  NoAccount = "no account"
  KnownTriggers <- MCKnownTriggers
  KnownConditions <- MCKnownConditions
  KnownActions <- MCKnownActions
  NoActionId = "none"
  Run = {1, 2}
  NoRun = NoRun
  MaxInstances = 2
  Environments <- OnlyChanging
INVARIANT LoopSurvives
CHECK_DEADLOCK FALSE
