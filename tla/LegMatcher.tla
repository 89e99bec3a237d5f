----------------------------- MODULE LegMatcher -----------------------------
(***************************************************************************)
(* Which planned leg a takeoff belongs to (src/legMatcher.ts).  A          *)
(* candidate is [id, trip, status, held, airport, distance]: held says     *)
(* that a flight is linked to it, airport that it departs from an airport, *)
(* distance is the one from the takeoff.                                   *)
(***************************************************************************)
EXTENDS Naturals, Sequences, FiniteSets, SequencesExt

CONSTANTS Radius, NULL

\* The order of the checks is part of the design.
RefusalFor(c) ==
  CASE c.status \in {"flown", "diverted"} -> "LEG_ALREADY_FLOWN"
    [] c.status = "skipped"               -> "LEG_SKIPPED"
    [] c.held /\ c.status = "planned"     -> "LEG_ALREADY_LINKED"
    [] OTHER -> IF c.airport THEN NULL ELSE "SNIPPET_NO_DEPARTURE_AIRPORT"

Nearest(cs) ==
  cs[CHOOSE i \in DOMAIN cs : \A j \in DOMAIN cs :
       cs[i].distance < cs[j].distance \/ (cs[i].distance = cs[j].distance /\ i <= j)]

IdsOf(cs) == {c.id : c \in ToSet(cs)}

Refusal(reason) ==
  [leg |-> NULL, trip |-> NULL, reason |-> reason, distance |-> NULL, nearby |-> {}]

\* Mutant: the leg nearest to the takeoff wins, whatever stands beside it.
MatchNearestUsable(linked, activeTrip, candidates) ==
  LET usable == SelectSeq(candidates, LAMBDA c : c.trip = activeTrip /\ c.distance <= Radius
                                                  /\ RefusalFor(c) = NULL)
  IN  IF linked \/ activeTrip = NULL \/ usable = <<>> THEN Refusal("NO_LEG_IN_RADIUS")
      ELSE [leg |-> Nearest(usable).id, trip |-> activeTrip, reason |-> "MATCHED",
            distance |-> Nearest(usable).distance, nearby |-> IdsOf(usable)]

MatchPlannedLeg(linked, activeTrip, candidates) ==
  LET pool   == SelectSeq(candidates, LAMBDA c : c.trip = activeTrip)
      near   == SelectSeq(pool, LAMBDA c : c.distance <= Radius)
      usable == SelectSeq(near, LAMBDA c : RefusalFor(c) = NULL)
  IN  CASE linked            -> Refusal("FLIGHT_ALREADY_LINKED")
        [] ~linked /\ activeTrip = NULL -> Refusal("NO_ACTIVE_TRIP")
        [] ~linked /\ activeTrip # NULL /\ pool = <<>> -> Refusal("NO_PLANNED_LEGS")
        [] ~linked /\ pool # <<>> /\ near = <<>> ->
             [Refusal("NO_LEG_IN_RADIUS") EXCEPT !.distance = Nearest(pool).distance]
        [] ~linked /\ near # <<>> /\ usable = <<>> ->
             [Refusal(RefusalFor(Nearest(near))) EXCEPT !.distance = Nearest(near).distance,
                                                        !.nearby = IdsOf(near)]
        [] ~linked /\ Len(usable) >= 2 ->
             [Refusal("AMBIGUOUS") EXCEPT !.distance = Nearest(usable).distance,
                                          !.nearby = IdsOf(usable)]
        [] ~linked /\ Len(usable) = 1 ->
             [leg |-> usable[1].id, trip |-> usable[1].trip, reason |-> "MATCHED",
              distance |-> usable[1].distance, nearby |-> IdsOf(near)]

-----------------------------------------------------------------------------
(* What a match means, said of the set of candidates. *)

UsableHere(c, activeTrip) ==
  c.trip = activeTrip /\ c.status = "planned" /\ ~c.held /\ c.airport /\ c.distance <= Radius

\* A leg is chosen if and only if it is the one leg of the active trip that
\* can be flown from here; two of them are both named; a refusal names an
\* obstacle that a leg within the radius has, and the order of the
\* candidates decides nothing but a tie between equally near ones.
MatchIsTheOnlyUsableLeg(linked, activeTrip, candidates) ==
  LET answer == MatchPlannedLeg(linked, activeTrip, candidates)
      usable == {c \in ToSet(candidates) : UsableHere(c, activeTrip)}
      distances == {c.distance : c \in ToSet(candidates)}
  IN  /\ (answer.reason = "MATCHED") <=> (~linked /\ activeTrip # NULL /\ Cardinality(usable) = 1)
      /\ answer.reason = "MATCHED" => answer.leg \in {c.id : c \in usable} /\ answer.trip = activeTrip
      /\ answer.reason = "AMBIGUOUS" => answer.nearby = {c.id : c \in usable}
      /\ answer.reason # "MATCHED" => answer.leg = NULL
      /\ answer.reason \in {"LEG_ALREADY_FLOWN", "LEG_SKIPPED", "LEG_ALREADY_LINKED",
                            "SNIPPET_NO_DEPARTURE_AIRPORT"}
           => \E c \in ToSet(candidates) :
                /\ c.trip = activeTrip /\ c.distance = answer.distance
                /\ RefusalFor(c) = answer.reason
                /\ \A d \in ToSet(candidates) : d.trip = activeTrip => c.distance <= d.distance
      /\ Cardinality(distances) = Len(candidates)
           => MatchPlannedLeg(linked, activeTrip, Reverse(candidates)) = answer
=============================================================================
