SPECIFICATION FairSpec
CONSTANTS
  r1 = r1
  r2 = r2
  r3 = r3
  NoReq = NoReq
  Reqs = {r1, r2}
  SyncReqs = {}
  Unencodable = {}
  Txns = {r1, r2}
  TxnOf <- UniqueIds
  Closers = {c1}
  MaxInFlight = 2
  ChanCap = 1
  MaxResp = 2
PROPERTY PeerLossEndsConnection
PROPERTY EveryResponseDelivered
CHECK_DEADLOCK FALSE
