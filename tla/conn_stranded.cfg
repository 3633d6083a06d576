SPECIFICATION FairSpec
CONSTANTS
  r1 = r1
  r2 = r2
  r3 = r3
  NoReq = NoReq
  Reqs = {r1}
  SyncReqs = {}
  Unencodable = {}
  Txns = {r1}
  TxnOf <- UniqueIds
  Closers = {c1}
  MaxInFlight = 1
  ChanCap = 1
  MaxResp = 1
INVARIANT AcceptedIsAnswered
CHECK_DEADLOCK FALSE
