SPECIFICATION FairSpec
CONSTANTS
  NumEvents = 2
  Runner = {t1, t2}
  BatchSize = 1
  MaxAttempts = 2
  Connects = FALSE
  MaxFaults = 0
  MaxOutages = 0
PROPERTY EventIsPublished
CHECK_DEADLOCK FALSE
