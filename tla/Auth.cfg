SPECIFICATION Spec
CONSTANTS
  c1 = c1
  c2 = c2
  c3 = c3
  t1 = t1
  t2 = t2
  NoReq = NoReq
  Req = {c1, c2, c3}
  Tab = {t1, t2}
  TabOf <- MCTabOf
  MaxTokens = 3
  MaxClicks = 4
  MaxFaults = 1
INVARIANTS
  TypeOK
  OneLiveToken
  NoReuseByAccident
  LogoutSticks
  SharedRefreshIsRunning
SYMMETRY Symmetry
CHECK_DEADLOCK FALSE
