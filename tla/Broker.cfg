SPECIFICATION FairSpec
CONSTANTS
  a1 = a1
  a2 = a2
  a3 = a3
  s1 = s1
  s2 = s2
  s3 = s3
  s4 = s4
  Conn = {a1, a2, a3}
  Slot = {s1, s2, s3, s4}
  None = None
  MaxOutages = 3
INVARIANTS
  TypeOK
  OneConnection
  LossIsNoticed
PROPERTIES
  LossIsRepaired
