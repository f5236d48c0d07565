SPECIFICATION Spec
CONSTANTS
  default = default
  ops = ops
  outsider = outsider
  hello = hello
  fromDefault = fromDefault
  fromOps = fromOps
  bare = bare
  run1 = run1
  api = api
  Account <- MCAccount
  Outsider = outsider
  Message <- MCMessage
  Author <- MCAuthor
  Unserialized <- MCUnserialized
  Short = Short
  NoMessage = NoMessage
  Caller = {run1, api}
  Run = {run1}
  Operations = {"sendText", "sendMedia", "createPoll", "replyToMessage", "editMessage",
                "deleteMessage", "starMessage"}
  Workflow <- MCWorkflow
  Request <- MCRequest
INVARIANTS
  AnsweredSendsAreRemembered
  OpensWhatIsAsked
  TokensLeadToTheirMessage
CHECK_DEADLOCK FALSE
