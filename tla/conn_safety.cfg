SPECIFICATION Spec
CONSTANTS
  r1 = r1
  r2 = r2
  r3 = r3
  NoReq = NoReq
  Reqs = {r1, r2, r3}
  SyncReqs = {r1}
  Unencodable = {r2}
  Txns = {r1, r2, r3}
  TxnOf <- UniqueIds
  Closers = {c1}
  MaxInFlight = 2
  ChanCap = 1
  MaxResp = 2
INVARIANT TokenInv
INVARIANT WindowRespected
INVARIANT NoTokenLeak
INVARIANT GotOwnInOrder
INVARIANT CleanupMissesNone
PROPERTY ContractSpec
CHECK_DEADLOCK FALSE
