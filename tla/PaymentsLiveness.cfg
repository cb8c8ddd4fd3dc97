SPECIFICATION FairSpec
CONSTANTS
  r1 = r1
  r2 = r2
  r3 = r3
  k1 = k1
  k2 = k2
  Request = {r1}
  Key = {k1}
  KeyOf <- OneKey
  Canceller = {c1}
  Slot = {w1, w2}
  NoRequest = NoRequest
  NoSlot = NoSlot
  Attempts = 2
  MaxStalls = 1
  MaxFaults = 3
PROPERTIES
  ProcessingEnds
  QueuedIsSettled
CHECK_DEADLOCK FALSE
