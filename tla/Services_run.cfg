\* Time is counted in ticks: a frame is recorded every tick and a gap of two
\* counts; a session and a window of the throttle last two.
SPECIFICATION Spec
CONSTANTS
  NULL = NULL
  Loose = loose
  Requests = {r1, r2}
  RecordInterval = 1
  MaxCountedGap = 2
  ReportInterval = 2
  LastTick = 4
  MaxRestarts = 1
  MaxLeg = 2
  MaxCrashes = 2
  Sids = {"s"}
  Addresses = {"a", "b"}
  MaxAge = 2
  Window = 2
  MaxFailures = 2
  MaxEntries = 1
  LastLogin = 3
  Airports = {"EGLL"}
  Legs = {"leg"}
  Stand <- StandOfLegs
  MaxRows = 2
  MaxFrame = 1
  LongFrame = 2
  Speeds = {1, 2}
  Durations = {0, 3, 5}
  MaxReplayed = 6
  Kinds = {"airports", "airways"}
  MaxMoves = 3
  Trips = {"t"}
  Files <- FilesOfRoute
  Ofps <- OfpsOfRoute
  Uploads <- PickedOfRoute
  MaxLegs = 4
  MaxEdits = 1
INVARIANTS
  FlightTimeIsFlown
  UpMeansComplete
  SignInIsFair
  SessionsAreSound
  PlansStandInOrder
  PagesAreHonest
PROPERTIES
  RowsAreKept
  PagesSettle
CHECK_DEADLOCK FALSE
