SPECIFICATION FairSpec
CONSTANTS
  Account = {"default", "ops"}
  AutoInitialize = TRUE
  NoRecord = NoRecord
  MaxInstances = 2
  Environments <- FaultyOrChanging
INVARIANTS
  FieldsAgree
  StartReachesAll
  StopIsFinal
  RowsFollowRegistry
PROPERTIES
  StartsAndStopsEnd
  KeepsSuccession
CHECK_DEADLOCK FALSE
