SPECIFICATION FairSpec
CONSTANTS
  photo = photo
  document = document
  text = text
  api = api
  Message <- MCMessage
  Media <- MCMedia
  Quoting <- MCQuoting
  FileName <- MCFileName
  Event <- MCEvent
  MaxEvents = 3
  Reader <- MCReader
  NoMedia = NoMedia
  Partial = Partial
  Mixed = Mixed
  Faults <- MCFaults
INVARIANTS
  WorkflowsBeforeWebhooks
  PlainEventsInOrder
  ReferencesHoldTheirMedia
PROPERTIES
  KeepsPromise
  EventsArrive
CHECK_DEADLOCK FALSE
