SPECIFICATION FairSpec
CONSTANTS
  r1 = r1
  r2 = r2
  r3 = r3
  NoReq = NoReq
  Reqs = {r1, r2}
  SyncReqs = {r1, r2}
  Unencodable = {}
  Txns = {r1, r2}
  TxnOf <- UniqueIds
  Closers = {}
  MaxInFlight = 1
  ChanCap = 1
  MaxResp = 1
PROPERTY SyncCallReturns
CHECK_DEADLOCK FALSE
