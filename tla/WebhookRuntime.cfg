SPECIFICATION FairSpec
CONSTANTS
  WebhookId <- MCWebhookId
  Url <- MCUrl
  EventType <- MCEventType
  EventId <- MCEventId
  AccountId <- MCAccountId
  NoAccount = NoAccount
  NoJob = NoJob
  Definition <- MCDefinition
  Event <- OneEvent
  WebhooksEnabled = TRUE
  MaxAttempts = 3
  Chain = {1, 2}
  MaxInstances = 2
  Environments <- AllEnvironments
INVARIANTS
  AttemptsGapless
  DeliveredIsLast
  RetryPromise
  OneChainPerMatch
  RegistryMirrorsTable
PROPERTIES
  ChainsSettle
  KeepsPromise
CHECK_DEADLOCK FALSE
