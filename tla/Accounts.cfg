SPECIFICATION Spec
CONSTANTS
  r1 = r1
  r2 = r2
  Req = {r1, r2}
  MaxFailed = 3
  MaxPasswords = 5
  MaxResets = 1
  MaxFaults = 1
INVARIANTS
  TypeOK
  LockoutBound
  ResetBound
SYMMETRY Symmetry
CHECK_DEADLOCK FALSE
