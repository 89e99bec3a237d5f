--------------------------- MODULE TripMembership ---------------------------
(***************************************************************************)
(* What the planner promises about the trip a flight is shown in.  A       *)
(* flight has a home - the trip the operator put it in by hand, or none -  *)
(* and may hold one planned leg.  It is shown in its leg's trip while it   *)
(* holds one and at home otherwise: a link lends the flight to the leg's   *)
(* trip and remembers where it came from.  The leg being taken back        *)
(* (Release), exchanged (Take) or deleted (Drop) sends the flight home;    *)
(* only the operator's own move, and a delete that stops half way, give it *)
(* another home.                                                           *)
(***************************************************************************)
CONSTANTS FlightIds, LegIds, TripIds, NULL

VARIABLES home,     \* [FlightIds -> TripIds \cup {NULL}]
          held,     \* [FlightIds -> LegIds \cup {NULL}]
          legTrip,  \* [LegIds -> TripIds \cup {NULL}]: NULL for a loose leg or none
          shown     \* [FlightIds -> TripIds \cup {NULL}]

vars == <<home, held, legTrip, shown>>

ShownFor(h, d, lt) == [f \in FlightIds |-> IF d[f] = NULL THEN h[f] ELSE lt[d[f]]]

Init ==
  /\ home = [f \in FlightIds |-> NULL]
  /\ held = [f \in FlightIds |-> NULL]
  /\ legTrip = [l \in LegIds |-> NULL]
  /\ shown = home

Free(l) == \A f \in FlightIds : held[f] # l

\* A takeoff or the operator gives f the leg l; an older leg is let go of.
Take(f, l) ==
  /\ Free(l)
  /\ held' = [held EXCEPT ![f] = l]
  /\ UNCHANGED <<home, legTrip>>

\* The leg goes and the flight goes home.
Release(f) ==
  /\ held[f] # NULL
  /\ held' = [held EXCEPT ![f] = NULL]
  /\ UNCHANGED <<home, legTrip>>

\* The operator moves f by hand into the trip t, or out of its trip (NULL): the
\* last word, which ends a link - but a flight lent to t already stays lent.
Move(f, t) ==
  /\ t # NULL /\ held[f] # NULL => legTrip[held[f]] # t
  /\ held' = [held EXCEPT ![f] = NULL]
  /\ home' = [home EXCEPT ![f] = t]
  /\ UNCHANGED legTrip

\* A delete stops half way: the leg is gone, the flight is not, and it stays
\* where the leg had put it.  The one way the home of a lent flight is lost.
Strand(f) ==
  /\ held[f] # NULL
  /\ held' = [held EXCEPT ![f] = NULL]
  /\ home' = [home EXCEPT ![f] = shown[f]]
  /\ UNCHANGED legTrip

\* Flights leave the logbook.
Forget(F) ==
  /\ held' = [f \in FlightIds |-> IF f \in F THEN NULL ELSE held[f]]
  /\ home' = [f \in FlightIds |-> IF f \in F THEN NULL ELSE home[f]]
  /\ UNCHANGED legTrip

\* A leg is planned, in a trip or loose.
Plan(l, t) ==
  /\ Free(l)
  /\ legTrip' = [legTrip EXCEPT ![l] = t]
  /\ UNCHANGED <<home, held>>

\* Legs are deleted, alone or with their trip; their flights go home.
Drop(L) ==
  /\ held' = [f \in FlightIds |-> IF held[f] \in L THEN NULL ELSE held[f]]
  /\ legTrip' = [l \in LegIds |-> IF l \in L THEN NULL ELSE legTrip[l]]
  /\ UNCHANGED home

Next ==
  /\ \/ \E f \in FlightIds :
          \/ \E l \in LegIds : Take(f, l)
          \/ Release(f)
          \/ \E t \in TripIds \cup {NULL} : Move(f, t)
          \/ Strand(f)
     \/ \E F \in SUBSET FlightIds : Forget(F)
     \/ \E l \in LegIds, t \in TripIds \cup {NULL} : Plan(l, t)
     \/ \E L \in SUBSET LegIds : Drop(L)
  /\ shown' = ShownFor(home', held', legTrip')

Spec == Init /\ [][Next]_vars
=============================================================================
