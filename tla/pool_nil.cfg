SPECIFICATION Spec
CONSTANTS
  g1 = g1
  c1 = c1
  NoConn = NoConn
  Callers = {g1}
  Conns = {c1}
  Size = 1
  Retries = 1
  MaxPools = 1
  DialMayFail = TRUE
  ConnMayDie = TRUE
  MayStall = TRUE
INVARIANT CallNeverPanics
CHECK_DEADLOCK FALSE
