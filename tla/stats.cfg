SPECIFICATION FairSpec
CONSTANTS
  g1 = g1
  Ticks <- ShortFrames
  Slack <- LastTicks
  Timeamounts <- TwoAmounts
  Items <- ThreeKeys
  Getters = {g1}
  ItemCap = 2
  GetCap = 1
  MaxItems = 3
  MaxNow = 2
  MayGoBack = TRUE
INVARIANT EpochsRight
INVARIANT PersistedOnceInOrder
INVARIANT SnapshotsWhole
INVARIANT CountedInItsTime
PROPERTY GetReturns
PROPERTY AcceptedIsCounted
CHECK_DEADLOCK FALSE
