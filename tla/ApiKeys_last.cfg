SPECIFICATION Spec
CONSTANTS
  KeyId = {"boot", "ops"}
  Secret = {"s1", "s2"}
  NoRow = NoRow
  Idle = Idle
  Configs <- OneKey
  MaxTime = 1
  Request = {q1}
  MaxStarts = 1
PROPERTY ActiveKeyRemains
CHECK_DEADLOCK FALSE
