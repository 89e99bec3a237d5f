\* Two trips, two legs and three flights: every pair of operations can meet on
\* the same row, and a link can be re-targeted across trips.
CONSTANTS
  FlightIds = {f1, f2, f3}
  LegIds = {l1, l2}
  TripIds = {t1, t2}
  NULL = NULL
SYMMETRY Symmetry
SPECIFICATION Spec
INVARIANTS
  LegHeldOnce
  LinkedFlightSitsInLegTrip
  ClosedLegHasLandedFlight
PROPERTIES
  ClosedLegReopens
  ImplementsMembership
