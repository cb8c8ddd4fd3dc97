SPECIFICATION Spec
CONSTANTS
  NumEvents = 2
  Runner = {t1, t2}
  BatchSize = 2
  MaxAttempts = 3
  Connects = TRUE
  MaxFaults = 1
  MaxOutages = 1
SYMMETRY Symmetry
INVARIANTS
  TypeOK
  FailedWasTried
  SentIsCounted
  PublishedReachedBroker
  DuplicateNeedsOverlapOrFault
CHECK_DEADLOCK FALSE
