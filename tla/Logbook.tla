------------------------------ MODULE Logbook ------------------------------
(***************************************************************************)
(* The logbook: what every operation of the trip planner does to flights,  *)
(* planned legs and trips.  better-sqlite3 is synchronous and an operation *)
(* runs to its end before the next one starts, so each is one step, and an *)
(* operation that throws changes nothing.  Every step may be the last one  *)
(* before the process dies: the database is all the state there is.  Where *)
(* an operation is more than one transaction, the prefix that a death (or  *)
(* an exception the caller swallows) leaves behind is an action too.       *)
(*                                                                         *)
(* FlightManager's own writes are the first three actions: the takeoff     *)
(* inserts and auto-links, the landing closes and records the arrival.     *)
(* They are separate transactions whose later ones may never run (a crash  *)
(* between them, or an exception, which autoLinkPlannedLeg() and           *)
(* recordArrivalOnPlannedLeg() swallow).                                   *)
(***************************************************************************)
EXTENDS LogbookRows, TLC

VARIABLES flight,  \* [FlightIds -> FlightRow]
          leg,     \* [LegIds -> LegRow]
          trip     \* [TripIds -> TripRow]

vars == <<flight, leg, trip>>

Init ==
  /\ flight = [f \in FlightIds |-> EmptyFlight("unused")]
  /\ leg    = [l \in LegIds |-> EmptyLeg("unused")]
  /\ trip   = [t \in TripIds |-> EmptyTrip("unused")]

----------------------------------------------------------------------------
(* Written by FlightManager.                                               *)

\* A leg the matcher can still answer with: refusalFor() rejects closed,
\* skipped and linked legs, and the pool is the active trip.
Matchable(l) ==
  /\ leg[l].row = "stored"
  /\ leg[l].status = "planned"
  /\ Holders(flight, l) = {}
  /\ leg[l].trip # NULL /\ trip[leg[l].trip].active

\* startFlight(): insertFlight(), then the auto link when a leg matched and
\* the link was written.
StartFlight(f) ==
  /\ flight[f].row = "unused"
  /\ LET inserted == [flight EXCEPT ![f] = EmptyFlight("open")]
     IN  \/ flight' = inserted
         \/ \E l \in LegIds :
              /\ Matchable(l)
              /\ flight' = FlightsAfterLink(inserted, leg, f, l, "auto")
  /\ UNCHANGED <<leg, trip>>

\* endFlight(): closeFlight() and then the arrival on the leg the row names.
EndFlight(f, outcome) ==
  /\ flight[f].row = "open"
  /\ flight' = [flight EXCEPT ![f] = [flight[f] EXCEPT !.row = "ended"]]
  /\ leg' = LegsAfterArrival(flight, leg, f, outcome)
  /\ UNCHANGED trip

\* closeFlight() ran, the arrival did not.
EndFlightUnrecorded(f) ==
  /\ flight[f].row = "open"
  /\ flight' = [flight EXCEPT ![f] = [flight[f] EXCEPT !.row = "ended"]]
  /\ UNCHANGED <<leg, trip>>

----------------------------------------------------------------------------
(* PUT /api/flights/:id/planned-leg                                        *)

LinkByHand(f, l) ==
  /\ MayLink(flight, leg, f, l)
  /\ flight' = FlightsAfterLink(flight, leg, f, l, "manual")
  /\ leg' = LegsAfterLink(flight, leg, f)
  /\ UNCHANGED trip

UnlinkByHand(f) ==
  /\ FlightStored(flight, f)
  /\ Linked(flight, f)
  /\ flight' = FlightsAfterUnlink(flight, f)
  /\ leg' = LegsAfterUnlink(flight, leg, f)
  /\ UNCHANGED trip

(* PUT /api/flights/:id/planned-leg-status: decideHandClose() and the      *)
(* re-asserted invariants of setPlannedLegHandOutcome().                   *)

\* Mutant: an auto-linked flight may be overruled by hand too.
HandCloseAnySource(f, requested) ==
  /\ Linked(flight, f)
  /\ flight[f].row = "ended"
  /\ leg[flight[f].leg].status = IF requested = "flown" THEN "planned" ELSE "flown"

HandCloseAllowed(f, requested) ==
  /\ Linked(flight, f)
  /\ flight[f].source = "manual"
  /\ flight[f].row = "ended"
  /\ leg[flight[f].leg].status = IF requested = "flown" THEN "planned" ELSE "flown"

\* measured is FALSE when the flight has no arrival position.
HandClose(f, requested, measured) ==
  /\ HandCloseAllowed(f, requested)
  /\ leg' = [leg EXCEPT ![flight[f].leg] =
               [leg[flight[f].leg] EXCEPT !.status = requested,
                                          !.deviation = requested = "flown" /\ measured]]
  /\ UNCHANGED <<flight, trip>>

(* DELETE /api/flights/:id *)
DeleteFlight(f) ==
  /\ FlightStored(flight, f)
  /\ flight' = FlightsAfterDelete(flight, f)
  /\ leg' = LegsAfterUnlink(flight, leg, f)
  /\ UNCHANGED trip

\* deleteFlight() is two transactions; the process died between them: the link
\* is cleared, the row is still there.
DeleteFlightCut(f) ==
  /\ Linked(flight, f)
  /\ flight' = FlightsAfterClear(flight, f)
  /\ leg' = LegsAfterUnlink(flight, leg, f)
  /\ UNCHANGED trip

(* POST /api/flights/combine: n is ended whatever a and b were, sits in no *)
(* trip and carries no link.                                               *)
CombineFlights(a, b, n) ==
  /\ a # b
  /\ FlightStored(flight, a) /\ FlightStored(flight, b)
  /\ flight[n].row = "unused"
  /\ flight' = [FlightsAfterDelete(FlightsAfterDelete(flight, a), b)
                  EXCEPT ![n] = EmptyFlight("ended")]
  /\ leg' = LegsAfterUnlink(flight, LegsAfterUnlink(flight, leg, a), b)
  /\ UNCHANGED trip

----------------------------------------------------------------------------
(* Planned legs.                                                           *)

CreateLeg(l, t) ==
  /\ leg[l].row = "unused"
  /\ t = NULL \/ (t \in TripIds /\ trip[t].row = "stored")
  /\ leg' = [leg EXCEPT ![l] = [EmptyLeg("stored") EXCEPT !.trip = t]]
  /\ UNCHANGED <<flight, trip>>

DeleteLeg(l) ==
  /\ leg[l].row = "stored"
  /\ leg' = [leg EXCEPT ![l] = EmptyLeg("deleted")]
  /\ flight' = FlightsAfterLegDelete(flight, l)
  /\ UNCHANGED trip

\* PATCH /api/planned-legs/:legId: refused while a flight holds the leg.
SetStatus(l, s) ==
  /\ leg[l].row = "stored"
  /\ Holders(flight, l) = {}
  /\ leg' = [leg EXCEPT ![l] = [leg[l] EXCEPT !.status = s, !.deviation = FALSE]]
  /\ UNCHANGED <<flight, trip>>

----------------------------------------------------------------------------
(* Trips.                                                                  *)

CreateTrip(t) ==
  /\ trip[t].row = "unused"
  /\ trip' = [trip EXCEPT ![t] = EmptyTrip("stored")]
  /\ UNCHANGED <<flight, leg>>

DeleteTrip(t) ==
  /\ trip[t].row = "stored"
  /\ flight' = FlightsAfterTripDelete(flight, leg, t)
  /\ leg' = LegsAfterTripDelete(leg, t)
  /\ trip' = [trip EXCEPT ![t] = EmptyTrip("deleted")]

\* setActiveTrip(): clear every active row, then set one (or none).
SetActiveTrip(t) ==
  /\ t = NULL \/ (t \in TripIds /\ trip[t].row = "stored")
  /\ trip' = [u \in TripIds |-> [trip[u] EXCEPT !.active = (u = t)]]
  /\ UNCHANGED <<flight, leg>>

AssignFlight(f, t) ==
  /\ FlightStored(flight, f) /\ trip[t].row = "stored"
  /\ flight' = FlightsAfterAssign(flight, leg, f, t)
  /\ leg' = LegsAfterAssign(flight, leg, f, t)
  /\ UNCHANGED trip

RemoveFlight(f) ==
  /\ FlightStored(flight, f)
  /\ flight' = FlightsAfterRemove(flight, f)
  /\ leg' = LegsAfterUnlink(flight, leg, f)
  /\ UNCHANGED trip

----------------------------------------------------------------------------
Next ==
  \/ \E f \in FlightIds :
       \/ StartFlight(f)
       \/ \E outcome \in ClosedStatus : EndFlight(f, outcome)
       \/ EndFlightUnrecorded(f)
       \/ \E l \in LegIds : LinkByHand(f, l)
       \/ UnlinkByHand(f)
       \/ \E requested \in {"planned", "flown"}, measured \in BOOLEAN :
            HandClose(f, requested, measured)
       \/ DeleteFlight(f)
       \/ DeleteFlightCut(f)
       \/ \E b, n \in FlightIds : CombineFlights(f, b, n)
       \/ \E t \in TripIds : AssignFlight(f, t)
       \/ RemoveFlight(f)
  \/ \E l \in LegIds :
       \/ \E t \in TripRef : CreateLeg(l, t)
       \/ DeleteLeg(l)
       \/ \E s \in {"planned", "skipped"} : SetStatus(l, s)
  \/ \E t \in TripIds : CreateTrip(t) \/ DeleteTrip(t)
  \/ \E t \in TripRef : SetActiveTrip(t)

Spec == Init /\ [][Next]_vars

----------------------------------------------------------------------------
(* Properties.                                                             *)

\* Every row has the shape of its table (src/src/db/schema.ts).
TypeOK ==
  /\ flight \in [FlightIds -> FlightRow]
  /\ leg \in [LegIds -> LegRow]
  /\ trip \in [TripIds -> TripRow]

\* A leg is flown by one flight: whatever sequence of links, re-targets and
\* deletions ran, no two flights hold the same leg.  idx_flights_planned_leg
\* would turn a failure into an exception out of the handler.
LegHeldOnce == HeldOnce(flight)

\* A linked flight sits in its leg's trip, so the leg never disappears from
\* its own trip page (the promise assignFlightToTrip() is written for), and
\* the leg it names is stored.
LinkedFlightSitsInLegTrip == SitsInLegTrip(flight, leg)

\* An unlinked flight carries no leftover of a link: no source, and no prior
\* trip that a later unlink would restore it to; a flight that left the
\* logbook is in no trip.
NoLeftoverLink == NoLeftover(flight)

\* 'flown' and 'diverted' always have a landed flight to point at, and a
\* deviation is only shown on such a leg: no leg stays closed by a flight
\* that was deleted, combined away, re-targeted or moved to another trip.
ClosedLegHasLandedFlight == ClosedByLanded(flight, leg)

\* At most one trip is active, and it is a stored one (idx_trips_active).
OneActiveTrip ==
  /\ \A t, u \in TripIds : trip[t].active /\ trip[u].active => t = u
  /\ \A t \in TripIds : trip[t].active => trip[t].row = "stored"

\* A closed leg goes back to 'planned' only because its flight let go of it,
\* or by the hand close of a hand-linked, landed flight - and a diversion
\* never by hand: "the only way back is: unlink".
ReopensByItsFlight(l) ==
  (leg[l].status \in ClosedStatus /\ leg'[l].status \notin ClosedStatus) =>
    \/ \A f \in Holders(flight, l) : flight'[f].leg # l
    \/ /\ leg[l].status = "flown"
       /\ \A f \in Holders(flight, l) : flight[f].source = "manual" /\ flight[f].row = "ended"

ClosedLegReopens == [][\A l \in LegIds : ReopensByItsFlight(l)]_vars

----------------------------------------------------------------------------
(* Refinement: the columns trip_id and planned_leg_prev_trip_id together   *)
(* implement "home"; trip_id alone is what the trip pages show.            *)

Home    == [f \in FlightIds |-> IF Linked(flight, f) THEN flight[f].prev ELSE flight[f].trip]
Held    == [f \in FlightIds |-> flight[f].leg]
LegTrip == [l \in LegIds |-> leg[l].trip]
Shown   == [f \in FlightIds |-> flight[f].trip]

Membership == INSTANCE TripMembership
                WITH home <- Home, held <- Held, legTrip <- LegTrip, shown <- Shown

\* What each operation that writes a flight's row, or drops legs, does to the
\* membership.  A step that is several of them at once (the removal of a flight
\* that was in no trip before its link is also an unlink) keeps the promise of each.
Written == {f \in FlightIds : flight'[f] # flight[f]}

AsPromised ==
  /\ \A f \in Written :
       /\ StartFlight(f) =>
            (\E l \in LegIds : Membership!Take(f, l)) \/ UNCHANGED Membership!vars
       /\ \A l \in LegIds : LinkByHand(f, l) => Membership!Take(f, l)
       /\ UnlinkByHand(f) => Membership!Release(f)
       /\ \A t \in TripIds : AssignFlight(f, t) =>
            Membership!Move(f, t) \/ UNCHANGED Membership!vars
       /\ RemoveFlight(f) => Membership!Move(f, NULL)
       /\ DeleteFlight(f) => Membership!Forget({f})
       /\ DeleteFlightCut(f) => Membership!Strand(f)
       /\ \A b, n \in FlightIds : CombineFlights(f, b, n) => Membership!Forget({f, b})
  /\ \A l \in LegIds : DeleteLeg(l) => Membership!Drop({l})
  /\ \A t \in TripIds : DeleteTrip(t) =>
       Membership!Drop({l \in LegIds : leg[l].row = "stored" /\ leg[l].trip = t})

\* The logbook implements TripMembership, operation by operation: an unlink, a
\* re-target and the deletion of a leg or a trip give the flight back to the
\* trip it was in before its first link (db/plannedLegs.ts:265-273), and only
\* the hand move (db/trips.ts:134-151) and a deleteFlight() that dies between
\* its two transactions leave it anywhere else.
ImplementsMembership == Membership!Spec /\ [][AsPromised]_vars
----------------------------------------------------------------------------
\* Ids are interchangeable for TLC: no action compares two of them by order.
Symmetry == Permutations(FlightIds) \cup Permutations(LegIds) \cup Permutations(TripIds)
============================================================================
