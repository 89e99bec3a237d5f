SPECIFICATION FairSpec
CONSTANTS
  PageScope = "flight"
  PairKinds = {"loadsheet"}
  TTL = 1
  MaxClock = 1
  MaxRows = 3
  MaxDisturbances = 1
INVARIANTS
  RepliesAnswer
PROPERTY
  PageCatchesUp
CHECK_DEADLOCK FALSE
