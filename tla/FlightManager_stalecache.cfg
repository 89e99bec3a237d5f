CONSTANTS
  FlightIds = {1, 2, 3}
  LegIds = {l1}
  TripIds = {t1}
  NULL = NULL
  KSFO = KSFO
  Field = Field
  g1 = g1
  g2 = g2
  Places = {KSFO, Field}
  Airports = {KSFO}
  SessionIds = {g1, g2}
  AirborneFrames = 2
  ParkedFrames = 1
  LandedFrames = 2
  Scenarios <- OneFlight
SPECIFICATION Spec
INVARIANTS
  GroundCacheMatchesRow
