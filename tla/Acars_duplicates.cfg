SPECIFICATION Spec
CONSTANTS
  PageScope = "flight"
  PairKinds = {"loadsheet"}
  TTL = 2
  MaxClock = 1
  MaxRows = 3
  MaxDisturbances = 0
INVARIANT
  NoRowTwice
CHECK_DEADLOCK FALSE
