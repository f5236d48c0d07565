SPECIFICATION Spec
CONSTANTS
  KeyId = {"boot", "ops"}
  Secret = {"s1", "s2"}
  NoRow = NoRow
  Idle = Idle
  Configs <- TwoKeys
  MaxTime = 1
  Request = {q1, q2}
  MaxStarts = 2
SYMMETRY RequestSymmetry
INVARIANT TypeOK
PROPERTIES
  LastKeyGuarded
  BootstrapKeysServe
CHECK_DEADLOCK FALSE
