SPECIFICATION Spec
CONSTANTS
  g1 = g1
  g2 = g2
  c1 = c1
  c2 = c2
  c3 = c3
  c4 = c4
  NoConn = NoConn
  Callers = {g1, g2}
  Conns = {c1, c2, c3, c4}
  Size = 2
  Retries = 1
  MaxPools = 2
  DialMayFail = TRUE
  ConnMayDie = TRUE
  MayStall = TRUE
SYMMETRY Symmetry
INVARIANT OnePlace
INVARIANT NoneDropped
INVARIANT SizeKept
PROPERTY LeaseSpec
CHECK_DEADLOCK FALSE
