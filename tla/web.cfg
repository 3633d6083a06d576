SPECIFICATION TwoViewsSpec
CONSTANTS
  a1 = a1
  a2 = a2
  b1 = b1
  alice = alice
  bob = bob
  Reqs = {a1, a2, b1}
  Browsers = {alice, bob}
  BrowserOf <- SentBy
  Dirs = {"/", "/a"}
  DirOf <- Directories
  Around <- Enclosing
  Longer <- IsLonger
  NoId = NoId
  Overlap = TRUE
  MaxWrites = 2
  Objects = {"get", "post", "page"}
  Calls = {"1", "2"}
  Uri <- Paths
  Query <- AskedQuery
  Verb <- Methods
  Params <- AskedParams
  Shards <- TwoShards
  KindAt <- Kinds
  Says <- Says3
  MaxSays = 2
INVARIANT SessionsPrivate
INVARIANT LoadsLatest
INVARIANT FlashShownOnce
INVARIANT SessionsReachable
PROPERTY RequestArrives
INVARIANT AnswerArrives
INVARIANT CallEnds
CHECK_DEADLOCK FALSE
