SPECIFICATION FairSpec
CONSTANTS
  r1 = r1
  r2 = r2
  r3 = r3
  Reqs = {r1, r2, r3}
  Routed = {r1, r2}
  Malformed = {r2}
  Parts = 2
  MaxResp = 1
  Window = 1
  NoReq = NoReq
INVARIANT FramesWhole
PROPERTY ContractSpec
PROPERTY WritesEnd
PROPERTY NotFoundAnswered
CHECK_DEADLOCK FALSE
