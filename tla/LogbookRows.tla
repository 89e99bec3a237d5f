---------------------------- MODULE LogbookRows ----------------------------
(***************************************************************************)
(* The rows of the logbook database that the trip planner is about -       *)
(* flights, planned_legs and trips (src/src/db/schema.ts) - and the        *)
(* statements of src/src/db/plannedLegs.ts, trips.ts and flights.ts as     *)
(* operators from the rows before a transaction to the rows after it.      *)
(* There are no variables here: Logbook runs each statement as a step of   *)
(* its own, FlightManager composes several of them in one handler.         *)
(*                                                                         *)
(* Ids are AUTOINCREMENT: a deleted id is never issued again, so a row     *)
(* goes from "unused" to stored to "deleted" and stays there.              *)
(***************************************************************************)
CONSTANTS FlightIds, LegIds, TripIds,
          NULL          \* SQL NULL

ASSUME NullIsNoValue ==
  NULL \notin FlightIds \cup LegIds \cup TripIds /\ NULL \notin {"auto", "manual"}

TripRef    == TripIds \cup {NULL}
LegRef     == LegIds \cup {NULL}
FlightRef  == FlightIds \cup {NULL}
LinkSource == {"auto", "manual", NULL}

\* flights: end_time IS NULL is "open"; prev is planned_leg_prev_trip_id and
\* source is planned_leg_link_source.
FlightRow == [row    : {"unused", "open", "ended", "deleted"},
              trip   : TripRef,
              leg    : LegRef,
              source : LinkSource,
              prev   : TripRef]

LegStatus    == {"planned", "flown", "diverted", "skipped"}
ClosedStatus == {"flown", "diverted"}

\* planned_legs: deviation tells whether arrival_deviation_nm holds a value.
LegRow == [row       : {"unused", "stored", "deleted"},
           trip      : TripRef,
           status    : LegStatus,
           deviation : BOOLEAN]

TripRow == [row : {"unused", "stored", "deleted"}, active : BOOLEAN]

EmptyFlight(r) == [row |-> r, trip |-> NULL, leg |-> NULL, source |-> NULL, prev |-> NULL]
EmptyLeg(r)    == [row |-> r, trip |-> NULL, status |-> "planned", deviation |-> FALSE]
EmptyTrip(r)   == [row |-> r, active |-> FALSE]

FlightStored(fl, f) == fl[f].row \in {"open", "ended"}
Linked(fl, f)       == fl[f].leg # NULL
Holders(fl, l)      == {f \in FlightIds : fl[f].leg = l}

----------------------------------------------------------------------------
(* What must hold of the tables between any two transactions.              *)

\* No two flights hold the same leg.
HeldOnce(fl) == \A f, g \in FlightIds : Linked(fl, f) /\ fl[f].leg = fl[g].leg => f = g

\* A linked flight is stored, so is its leg, and the two share a trip_id.
SitsInLegTrip(fl, lg) ==
  \A f \in FlightIds : Linked(fl, f) =>
    /\ FlightStored(fl, f)
    /\ lg[fl[f].leg].row = "stored"
    /\ fl[f].trip = lg[fl[f].leg].trip

\* An unlinked flight keeps no column of a link, a deleted one no trip either.
NoLeftover(fl) ==
  \A f \in FlightIds :
    /\ ~Linked(fl, f) => fl[f].source = NULL /\ fl[f].prev = NULL
    /\ ~FlightStored(fl, f) => fl[f].trip = NULL

\* A closed leg is held by a landed flight; only a closed leg has a deviation.
ClosedByLanded(fl, lg) ==
  \A l \in LegIds :
    /\ lg[l].status \in ClosedStatus => \E f \in FlightIds : fl[f].leg = l /\ fl[f].row = "ended"
    /\ lg[l].deviation => lg[l].status \in ClosedStatus

Coherent(fl, lg) ==
  /\ HeldOnce(fl)
  /\ SitsInLegTrip(fl, lg)
  /\ NoLeftover(fl)
  /\ ClosedByLanded(fl, lg)

----------------------------------------------------------------------------
(* One row, one UPDATE.                                                    *)

WithLink(r, l, t, s) == [r EXCEPT !.prev = r.trip, !.trip = t, !.leg = l, !.source = s]
WithoutLink(r, t)    == [r EXCEPT !.trip = t, !.leg = NULL, !.source = NULL, !.prev = NULL]
Reopened(r)          == [r EXCEPT !.status = "planned", !.deviation = FALSE]

----------------------------------------------------------------------------
\* Mutant: the flight ends up in no trip, the one before the link is forgotten.
FlightsAfterUnlinkHomeless(fl, f) ==
  IF Linked(fl, f) THEN [fl EXCEPT ![f] = WithoutLink(fl[f], NULL)] ELSE fl

\* unlinkFlightFromPlannedLeg(): the leg is reopened and the flight returns to
\* the trip it had before the link.
FlightsAfterUnlink(fl, f) ==
  IF Linked(fl, f) THEN [fl EXCEPT ![f] = WithoutLink(fl[f], fl[f].prev)] ELSE fl

\* Mutant: only the flight's row is written.
LegsLeftClosed(fl, lg, f) == lg

LegsAfterUnlink(fl, lg, f) ==
  IF Linked(fl, f) THEN [lg EXCEPT ![fl[f].leg] = Reopened(lg[fl[f].leg])] ELSE lg

\* clearPlannedLegLink(): the same, but trip_id is left as it is.
FlightsAfterClear(fl, f) ==
  IF Linked(fl, f) THEN [fl EXCEPT ![f] = WithoutLink(fl[f], fl[f].trip)] ELSE fl

\* linkFlightToPlannedLeg(): throws, changing nothing, when another flight
\* holds the leg; returns early when the flight already holds it; otherwise
\* unlinks an older link and captures the trip_id that leaves as prev.
MayLinkHeld(fl, lg, f, l) ==    \* Mutant: does not look for another holder.
  FlightStored(fl, f) /\ lg[l].row = "stored" /\ fl[f].leg # l

MayLink(fl, lg, f, l) ==
  /\ FlightStored(fl, f)
  /\ lg[l].row = "stored"
  /\ fl[f].leg # l
  /\ Holders(fl, l) = {}

FlightsAfterLink(fl, lg, f, l, s) ==
  LET base == FlightsAfterUnlink(fl, f)
  IN  [base EXCEPT ![f] = WithLink(base[f], l, lg[l].trip, s)]

LegsAfterLink(fl, lg, f) == LegsAfterUnlink(fl, lg, f)

\* recordPlannedLegArrival() on the leg the closed flight's row names.
LegsAfterArrival(fl, lg, f, outcome) ==
  IF Linked(fl, f)
  THEN [lg EXCEPT ![fl[f].leg] = [lg[fl[f].leg] EXCEPT !.status = outcome, !.deviation = TRUE]]
  ELSE lg

\* deletePlannedLeg(): the holder gets its prior trip back.
FlightsAfterLegDelete(fl, l) ==
  [f \in FlightIds |-> IF fl[f].leg = l THEN WithoutLink(fl[f], fl[f].prev) ELSE fl[f]]

\* deleteTrip(): every flight a link moved into the trip gets its prior trip
\* back; planned_legs rows of the trip go by ON DELETE CASCADE.  A flight put
\* there by hand keeps its trip_id, which then names no row.
FlightsAfterTripDelete(fl, lg, t) ==
  [f \in FlightIds |-> IF Linked(fl, f) /\ lg[fl[f].leg].trip = t
                       THEN WithoutLink(fl[f], fl[f].prev)
                       ELSE fl[f]]

LegsAfterTripDelete(lg, t) ==
  [l \in LegIds |-> IF lg[l].row = "stored" /\ lg[l].trip = t THEN EmptyLeg("deleted") ELSE lg[l]]

\* assignFlightToTrip(): a link into another trip is cleared first, a link into
\* this very trip is kept.
\* Mutant: the link is kept whatever trip it is in.
FlightsAfterAssignLinked(fl, lg, f, t) == [fl EXCEPT ![f] = [fl[f] EXCEPT !.trip = t]]

FlightsAfterAssign(fl, lg, f, t) ==
  LET contradicted == Linked(fl, f) /\ lg[fl[f].leg].trip # t
      base         == IF contradicted THEN FlightsAfterClear(fl, f) ELSE fl
  IN  [base EXCEPT ![f] = [base[f] EXCEPT !.trip = t]]

LegsAfterAssign(fl, lg, f, t) ==
  IF Linked(fl, f) /\ lg[fl[f].leg].trip # t THEN LegsAfterUnlink(fl, lg, f) ELSE lg

\* removeFlightFromTrip(): any link is cleared.
FlightsAfterRemove(fl, f) ==
  LET base == FlightsAfterClear(fl, f) IN [base EXCEPT ![f] = [base[f] EXCEPT !.trip = NULL]]

\* deleteFlight() and each source of combineFlights(): the link is cleared,
\* which reopens the leg, and the row goes.
FlightsAfterDelete(fl, f) == [fl EXCEPT ![f] = EmptyFlight("deleted")]
============================================================================
