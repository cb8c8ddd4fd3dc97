SPECIFICATION FairSpec
CONSTANTS
  p1 = p1
  p2 = p2
  p3 = p3
  Payment = {p1, p2, p3}
  Mixes <- MCMixes
  VolumeThreshold = 2
  ErrorThreshold = 50
  MaxOutages = 1
INVARIANTS
  TypeOK
  WrongRateNeedsCause
  RejectableNeedsCause
  ScanCountsNothing
PROPERTIES
  AssessmentEnds
CHECK_DEADLOCK FALSE
