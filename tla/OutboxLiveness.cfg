SPECIFICATION FairSpec
CONSTANTS
  NumEvents = 2
  Runner = {t1, t2}
  BatchSize = 1
  MaxAttempts = 2
  Connects = TRUE
  MaxFaults = 0
  MaxOutages = 1
PROPERTIES
  PendingIsSettled
  ClaimedIsResolved
CHECK_DEADLOCK FALSE
