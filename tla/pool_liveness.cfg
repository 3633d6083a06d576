SPECIFICATION FairSpec
CONSTANTS
  g1 = g1
  g2 = g2
  g3 = g3
  c1 = c1
  c2 = c2
  NoConn = NoConn
  Callers = {g1, g2, g3}
  Conns = {c1, c2}
  Size = 2
  Retries = 1
  MaxPools = 1
  DialMayFail = FALSE
  ConnMayDie = FALSE
  MayStall = FALSE
PROPERTY CallReturns
PROPERTY CloseEnds
CHECK_DEADLOCK FALSE
