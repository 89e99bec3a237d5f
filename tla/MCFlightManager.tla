------------------------- MODULE MCFlightManager -------------------------
(* TLC instances of FlightManager: each behaviour plays one scenario.      *)
EXTENDS FlightManager

CONSTANTS KSFO, Field, g1, g2

\* Two flights recorded while the operator links, moves and deletes the rows.
Planner == [failing |-> {}, kills |-> 0, flights |-> {1, 2}, legs |-> LegIds,
            trips |-> TripIds, places |-> {KSFO}, sessions |-> {g1}, events |-> {}]

\* Three flights, two stands and two sessions over two deaths.
Restart == [failing |-> {}, kills |-> 2, flights |-> {1, 2, 3}, legs |-> {},
            trips |-> {}, places |-> {KSFO, Field}, sessions |-> {g1, g2}, events |-> {"silence"}]

\* The errors about the leg of a flight, and a death.
LegFaults == [Planner EXCEPT !.failing = {"legCache", "legRefresh", "arrival"},
                             !.kills = 1, !.flights = {1}]

\* The errors about flights, sessions and reports, and a death.
RowFaults == [Restart EXCEPT !.failing = {"bootCheck", "sessionClose", "groundEntry", "report"},
                             !.kills = 1, !.flights = {1}, !.places = {KSFO}, !.sessions = {g1}, !.events = {"pause", "silence"}]

Played   == {Planner, Restart, LegFaults, RowFaults}
\* The planner beside one flight, for the run about the cached session.
OneFlight == {[Planner EXCEPT !.flights = {1}, !.trips = {}]}
============================================================================
