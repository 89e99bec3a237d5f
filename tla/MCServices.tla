----------------------------- MODULE MCServices -----------------------------
(***************************************************************************)
(* The state machines beside the recorder, each on its own small instance: *)
(* flight time, the upgrade of the database, sign-in, ground sessions, the *)
(* import of planned legs, the clock of a replay and the features of a     *)
(* map.  They share nothing, so a behaviour runs one of them and leaves    *)
(* the others where they start.                                            *)
(***************************************************************************)
EXTENDS Integers, Sequences, FiniteSets, FiniteSetsExt

CONSTANTS
  NULL, Loose, Requests,
  RecordInterval, MaxCountedGap, ReportInterval, LastTick, MaxRestarts,     \* FlightClock
  MaxLeg, MaxCrashes,                                                      \* SchemaUpgrade
  Sids, Addresses, MaxAge, Window, MaxFailures, MaxEntries, LastLogin,      \* Sessions
  Airports, Legs, Stand, MaxRows,                                          \* GroundSessions
  MaxFrame, LongFrame, Speeds, Durations, MaxReplayed,                     \* ReplayClock
  Kinds, MaxMoves,                                                         \* MapFeatures
  Trips, Files, Ofps, Uploads, MaxLegs, MaxEdits                           \* PlanImport

VARIABLES
  machine,
  now, frozen, flight, memory, isPaused, restarts, stopped, unwatched, banked,
  file, work, enforced, at, columns, crashes, issued,
  clock, stored, held, entries, failures,
  rows, known, tracking,
  trips, legs, lastId, releases, asked, forced, batch, edits,
  duration, speed, virtual, playing, finished, handle, last, outstanding, shown, mounted, actions,
  status, poll, visible, view, debounce, retry, lost, stray, request, aborted, data, loading, error, stuck, acted

clockVars   == <<now, frozen, flight, memory, isPaused, restarts, stopped, unwatched, banked>>
schemaVars  == <<file, work, enforced, at, columns, crashes, issued>>
signInVars  == <<clock, stored, held, entries, failures>>
groundVars  == <<rows, known, tracking>>
planVars    == <<trips, legs, lastId, releases, asked, forced, batch, edits>>
replayVars  == <<duration, speed, virtual, playing, finished, handle, last, outstanding, shown, mounted, actions>>
mapVars     == <<status, poll, visible, view, debounce, retry, lost, stray, request, aborted, data, loading, error,
                 stuck, acted>>
vars        == <<machine, clockVars, schemaVars, signInVars, groundVars, planVars, replayVars, mapVars>>

-----------------------------------------------------------------------------
(* The instances. *)

Clock    == INSTANCE FlightClock WITH MaxTime <- LastTick
Schema   == INSTANCE SchemaUpgrade
SignIn   == INSTANCE Sessions WITH now <- clock, rows <- stored, MaxTime <- LastLogin
Ground   == INSTANCE GroundSessions WITH legs <- known
Replay   == INSTANCE ReplayClock WITH MaxActions <- MaxReplayed
Features == INSTANCE MapFeatures WITH MaxActions <- MaxMoves
Plan     == INSTANCE PlanImport

(* NULL is none of the values it stands beside; lengths are counted.        *)
ASSUME ClockAssumption ==
  /\ RecordInterval \in Nat /\ MaxCountedGap \in Nat /\ ReportInterval \in Nat
  /\ NULL \notin Nat \cup [last : Nat, active : Nat, interrupted : BOOLEAN, count : Nat, window : Nat]
  /\ NULL \notin [start : Nat, points : Seq(Nat), reports : Seq(Nat), duration : Nat \cup {NULL},
                  linked : BOOLEAN, paused : BOOLEAN]
ASSUME GroundAssumption ==
  NULL \notin Legs \cup Ground!Sources \cup Ground!Reasons \cup [value : Ground!Stands \cup Legs, author : Ground!Sources]
ASSUME SchemaAssumption == NULL \notin 0..Len(Schema!Script) /\ MaxLeg \in Nat
ASSUME PlanAssumption == MaxLegs \in Nat /\ Uploads \subseteq Seq(Files) /\ \A S \in SUBSET Files : NULL # S
ASSUME SignInAssumption ==
  /\ LastLogin \in Nat /\ MaxAge \in Nat /\ Window \in Nat \ {0} /\ MaxFailures \in Nat \ {0}
  /\ NULL \notin [expires : Nat, whole : BOOLEAN] \cup [count : Nat, start : Nat]
ASSUME ReplayAssumption ==
  /\ NULL \notin 1..3
  /\ Durations \subseteq Nat /\ Speeds \subseteq Nat /\ MaxFrame \in Nat /\ LongFrame \in Nat
ASSUME FeaturesAssumption == NULL \notin [view : Nat, kinds : SUBSET Kinds, again : BOOLEAN]

\* A leg that leaves from a known stand, which an operator may leave out.
StandOfLegs == [l \in Legs |-> "stand"]

\* A route of three legs and a file the parser rejects; SimBrief has a plan
\* of its own for the first leg.  They are picked against the route, or one
\* twice beside the one that is rejected.
File(name, from, to) == [plan |-> name, from |-> from, to |-> to, airports |-> TRUE, parses |-> TRUE]

AB  == File("ab", "a", "b")
BC  == File("bc", "b", "c")
CD  == File("cd", "c", "d")
Bad == [File("bad", "a", "b") EXCEPT !.parses = FALSE]

FilesOfRoute == {AB, BC, CD, Bad}
OfpsOfRoute  == {File("ofp", "a", "b")}
PickedOfRoute == {<<CD, AB, BC>>, <<BC, Bad, BC>>}

-----------------------------------------------------------------------------
Machines == {"clock", "schema", "sign-in", "ground", "plan", "replay", "map"}

Init ==
  /\ machine \in Machines
  /\ Clock!Init /\ Schema!Init /\ SignIn!Init /\ Ground!Init /\ Plan!Init /\ Replay!Init
  /\ Features!Init
  /\ machine # "schema" => file.have = {}
  /\ machine # "replay" => duration = Min(Durations) /\ speed = Min(Speeds)

Only(name) == machine = name /\ UNCHANGED machine

ClockNext ==
  Only("clock") /\ Clock!Next /\ UNCHANGED <<schemaVars, signInVars, groundVars, planVars, replayVars, mapVars>>

SchemaNext ==
  Only("schema") /\ Schema!Next /\ UNCHANGED <<clockVars, signInVars, groundVars, planVars, replayVars, mapVars>>

SignInNext ==
  Only("sign-in") /\ SignIn!Next /\ UNCHANGED <<clockVars, schemaVars, groundVars, planVars, replayVars, mapVars>>

GroundNext ==
  Only("ground") /\ Ground!Next /\ UNCHANGED <<clockVars, schemaVars, signInVars, planVars, replayVars, mapVars>>

PlanNext ==
  Only("plan") /\ Plan!Next /\ UNCHANGED <<clockVars, schemaVars, signInVars, groundVars, replayVars, mapVars>>

ReplayNext ==
  Only("replay") /\ Replay!Next /\ UNCHANGED <<clockVars, schemaVars, signInVars, groundVars, planVars, mapVars>>

FeaturesNext ==
  Only("map") /\ Features!Next /\ UNCHANGED <<clockVars, schemaVars, signInVars, groundVars, planVars, replayVars>>

Next == ClockNext \/ SchemaNext \/ SignInNext \/ GroundNext \/ PlanNext \/ ReplayNext \/ FeaturesNext

\* The browser delivers the frames it was asked for while the page is shown;
\* its timers fire, and requests end.
ReplayFrame ==
  Only("replay") /\ Replay!Frame /\ UNCHANGED <<clockVars, schemaVars, signInVars, groundVars, planVars, mapVars>>

TimerFires ==
  Only("map") /\ (Features!Loads \/ Features!StrayFires) /\ UNCHANGED <<clockVars, schemaVars, signInVars, groundVars, planVars, replayVars>>

RequestEnds ==
  Only("map") /\ Features!Ends /\ UNCHANGED <<clockVars, schemaVars, signInVars, groundVars, planVars, replayVars>>

Spec == Init /\ [][Next]_vars /\ WF_vars(ReplayFrame) /\ WF_vars(TimerFires) /\ WF_vars(RequestEnds)

-----------------------------------------------------------------------------
(* The properties: see the modules. *)

\* No tick of a pause is flight time, a flight is no longer than the wall clock
\* says, and a restart takes nothing of it and files no report twice
\* (FlightManager.writePoint, endFlight, resumeFlight).
FlightTimeIsFlown == Clock!PausesAreNotFlown /\ Clock!RestartKeepsTheFlight

\* A server that is up has every table, column and unique index, whatever file
\* it found and however often a start ended half way (applySchema).
UpMeansComplete == Schema!UpMeansComplete

\* The session store answers as if it kept just what it was told; nobody is
\* turned away who did not fail often enough, and nobody fails more often than
\* the window allows (SqliteSessionStore, LoginThrottle).
SignInIsFair == SignIn!StoreIsItsCalls /\ SignIn!ThrottleIsFair

\* At most one ground session is open, and every value says who put it there,
\* except in a column the operator emptied or whose leg was deleted
\* (src/db/groundSessions.ts).
SessionsAreSound == Ground!SessionsAreSound

\* The order of a trip's legs is total, no plan is there twice unasked, and a
\* batch sent again after it was cut still stands in route order
\* (importBatch, createPlannedLeg).
PlansStandInOrder == Plan!OrderIsTotal /\ Plan!OnePlanOnce /\ Plan!RouteOrderSurvivesRetries

\* A playing replay has one frame outstanding, one that stands still shows
\* where it stands, and a map that says it loads does (useReplayClock,
\* useNavdataFeatures).
PagesAreHonest == Replay!OneFrameLoop /\ Replay!ReadoutIsThePosition /\ Features!SpinnerIsHonest

\* No upgrade, no end of a ground session and no import rewrites a row that
\* was there (applySchema, closeOpenGroundSession, createPlannedLeg).
RowsAreKept == Schema!UpgradesKeepRows /\ Ground!SessionsAreHistory /\ Plan!ImportsAppend

\* A replay left alone comes to its end; a map goes only to newer features and
\* ends with those in view or an error (useReplayClock, useNavdataFeatures).
PagesSettle == Replay!ReplayEnds /\ Features!NewerIsDrawn /\ Features!MapSettles
=============================================================================
