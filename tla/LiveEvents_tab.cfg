SPECIFICATION FairSpec
CONSTANTS
  Streams = {1, 2, 3}
  Halves = {"loose"}
  MaxStreams = 2
  MaxQueue = 3
  MaxVersion = 3
  MaxDisturbances = 2
INVARIANTS
  OneWayBack
  SlotsMatchResponses
PROPERTIES
  ImplementsLiveView
  EventuallyCurrent
CHECK_DEADLOCK FALSE
