SPECIFICATION Spec
CONSTANTS
  r1 = r1
  r2 = r2
  r3 = r3
  k1 = k1
  k2 = k2
  Request = {r1, r2, r3}
  Key = {k1, k2}
  KeyOf <- TwoKeys
  Canceller = {c1}
  Slot = {w1, w2}
  NoRequest = NoRequest
  NoSlot = NoSlot
  Attempts = 2
  MaxStalls = 1
  MaxFaults = 1
SYMMETRY Symmetry
INVARIANTS
  TypeOK
  AnsweredIsRecorded
  SuccessIsRecorded
  DuplicateSuccessNeedsRedelivery
PROPERTIES
  KeepsContract
  SuccessLostOnlyToRaces
CHECK_DEADLOCK FALSE
