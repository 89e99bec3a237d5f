--------------------------- MODULE FlightManager ---------------------------
(***************************************************************************)
(* FlightManager (src/src/flightManager.ts): the state machine IDLE /      *)
(* GROUND / FLYING that turns telemetry frames into flights and ground     *)
(* sessions, with everything that acts on it from outside: the ingest      *)
(* router (src/src/ingest.ts), the planner and ground-session routes,      *)
(* which write the database beside it and then refresh its caches, and the *)
(* death of the process, which loses the memory and keeps the tables.      *)
(*                                                                         *)
(* A handler runs to its end before the next one starts, so each is one    *)
(* step; a process that dies inside a handler leaves a prefix of its       *)
(* writes, and the Killed... actions are those prefixes.  Timestamps,      *)
(* distances and the text of messages are left out.                        *)
(***************************************************************************)
EXTENDS LogbookRows, Naturals

CONSTANTS
  Places,          \* positions further apart than GROUND_REANCHOR_NM
  Airports,        \* the places findNearestAirport() names, by that name
  SessionIds,      \* ids of ground_sessions rows still referred to
  AirborneFrames,  \* AIRBORNE_DEBOUNCE_FRAMES
  ParkedFrames,    \* GROUND_DEBOUNCE_FRAMES
  LandedFrames,    \* LANDED_DEBOUNCE_FRAMES
  Scenarios        \* what the runs explore together: see scenario

ASSUME FlightIdsIncrease == FlightIds \subseteq Nat
ASSUME DebounceAssumption ==
  /\ AirborneFrames \in Nat \ {0, 1}
  /\ ParkedFrames \in Nat \ {0}
  /\ LandedFrames \in Nat \ {0}
ASSUME PlaceAssumption == Airports \subseteq Places /\ NULL \notin Places \cup SessionIds

\* The database errors the code catches and goes on after.
CaughtErrors == {"bootCheck", "legCache", "legRefresh", "sessionClose", "groundEntry",
                 "arrival", "report"}
\* What a scenario leaves in or out: which caught errors, how many deaths, and
\* which rows, places and rarer events it uses.
Scenario == [failing : SUBSET CaughtErrors, kills : Nat, flights : SUBSET FlightIds,
             legs : SUBSET LegIds, trips : SUBSET TripIds, places : SUBSET Places,
             sessions : SUBSET SessionIds, events : SUBSET {"pause", "silence"}]
ASSUME ScenarioAssumption == Scenarios \subseteq Scenario

VARIABLES
  flight, leg, trip,  \* the tables of Logbook
  session,            \* the ground_sessions row with ended_at IS NULL, or NULL
  oooi,               \* the OOOI reports acars_messages holds of each flight
  lost,               \* history: the reports of each flight whose insert failed
  state,              \* this.state and appState.flightState
  currentFlightId,
  plannedLegCache,    \* its plannedLegId, or NULL
  legRead,            \* history: "ok"; "blank" or "stale" since a failed read of the leg
  groundSessionCache, \* the row it was built from, or NULL
  groundAnchor,
  airborneStreak, groundStreak, landedStreak,
  overdue,            \* lastPointTime is too old and writing the point failed
  onEventFiled,
  isPaused,
  openFlightCheckedAtBoot,
  connected,          \* appState.connected
  silent,             \* more than STALE_TIMEOUT_MS since lastFrameAt
  kills,              \* how often the process died so far
  scenario            \* what may happen in this behaviour: never changed

tables  == <<flight, leg, trip>>
reports == <<oooi, lost>>
cached  == <<plannedLegCache, legRead>>
ground  == <<session, groundSessionCache, groundAnchor, groundStreak>>
flying  == <<currentFlightId, cached, landedStreak, overdue, onEventFiled>>
agent   == <<connected, silent>>
life    == <<kills, scenario>>
vars    == <<tables, reports, ground, flying, agent, state, airborneStreak, isPaused,
             openFlightCheckedAtBoot, life>>

\* A caught error that may happen in this behaviour.
Fails(error) == error \in scenario.failing

Logbook == INSTANCE Logbook

\* What a frame says that onFrame() tells apart: simRunning 0 and 3, then by
\* onGround, speed and brake.  "parked" and "still" are below the 5 knots of
\* the landing test, "hover" is off the ground at 30 knots or less.
FrameKinds == {"exit", "slew", "parked", "still", "taxi", "hover", "airborne"}
OnGround   == {"parked", "still", "taxi"}
Landed     == {"parked", "still"}

SessionRow == [id : SessionIds, source : {"auto", "manual"},
               airport : Airports \cup {NULL}, at : Places \cup {NULL}, leg : LegRef]
ASSUME SessionAssumption == NULL \notin SessionRow
OooiEvents == {"OUT", "OFF", "ON", "IN"}

OpenFlights == {f \in FlightIds : flight[f].row = "open"}
\* AUTOINCREMENT: the next id, if the bound leaves one.
IsNextId(f) ==
  /\ f \in scenario.flights /\ flight[f].row = "unused"
  /\ \A g \in FlightIds : flight[g].row = "unused" => f <= g
NearestAirport(p) == IF p \in Airports THEN p ELSE NULL
InProgress  == state = "FLYING"

Init ==
  /\ Logbook!Init
  /\ session = NULL
  /\ oooi = [f \in FlightIds |-> {}] /\ lost = [f \in FlightIds |-> {}]
  /\ state = "IDLE" /\ currentFlightId = NULL /\ plannedLegCache = NULL /\ legRead = "ok"
  /\ groundSessionCache = NULL /\ groundAnchor = NULL
  /\ airborneStreak = 0 /\ groundStreak = 0 /\ landedStreak = 0
  /\ overdue = FALSE /\ onEventFiled = FALSE /\ isPaused = FALSE
  /\ openFlightCheckedAtBoot = FALSE /\ connected = FALSE /\ silent = FALSE
  /\ kills = 0 /\ scenario \in Scenarios

----------------------------------------------------------------------------
(* Pieces of handlers.                                                     *)

\* Of the events tried, those in kept were written.
Reported(f, events, kept) ==
  /\ oooi' = [oooi EXCEPT ![f] = oooi[f] \cup kept]
  /\ lost' = [lost EXCEPT ![f] = (lost[f] \cup events) \ (oooi[f] \cup kept)]

\* fileAcarsMessageOnce() of each event: deduplicated per flight and event, and
\* any error of an insert is swallowed, that of the foreign key of a deleted
\* flight included.
File(f, events) ==
  \/ FlightStored(flight', f) /\ Reported(f, events, events)
  \/ /\ FlightStored(flight', f) /\ Fails("report")
     /\ \E kept \in SUBSET events : Reported(f, events, kept)
  \/ ~FlightStored(flight', f) /\ UNCHANGED reports

\* buildPlannedLegCache() at takeoff and after a restart, inside a try.
ReadLeg(l) ==
  \/ plannedLegCache' = l /\ legRead' = "ok"
  \/ l # NULL /\ Fails("legCache") /\ plannedLegCache' = NULL /\ legRead' = "blank"

\* Mutant: any leg of the active trip that no flight holds.
CandidateWhateverStatus(l) ==
  leg[l].row = "stored" /\ Holders(flight, l) = {} /\ leg[l].trip # NULL /\ trip[leg[l].trip].active

\* getPlannedLegCandidatesForActiveTrip() and the refusals of matchPlannedLeg():
\* which of the remaining legs is near enough is left open.
Candidate(l) ==
  /\ leg[l].row = "stored"
  /\ leg[l].trip # NULL /\ trip[leg[l].trip].active
  /\ leg[l].status = "planned"
  /\ Holders(flight, l) = {}

\* closeOpenGroundSession() inside its try.
CloseOpenSession ==
  \/ session' = NULL
  \/ Fails("sessionClose") /\ UNCHANGED session

ResetGroundTracking ==
  /\ groundAnchor' = NULL
  /\ groundSessionCache' = NULL
  /\ groundStreak' = 0
  /\ state' = "IDLE"

\* closeGroundSessionAndReturnToIdle()
CloseSessionAndReturnToIdle ==
  /\ CloseOpenSession
  /\ ResetGroundTracking
  /\ UNCHANGED <<tables, reports, flying, airborneStreak, openFlightCheckedAtBoot>>

\* Mutant: closes whatever is open.
CloseAnySessionOnSilence == CloseOpenSession

\* The gate of closeAutoGroundSessionAndReturnToIdle(), on the row.
CloseAutoSession ==
  IF session # NULL /\ session.source = "auto" THEN CloseOpenSession ELSE UNCHANGED session

CloseAutoSessionAndReturnToIdle ==
  /\ CloseAutoSession
  /\ ResetGroundTracking
  /\ UNCHANGED <<tables, reports, flying, airborneStreak, openFlightCheckedAtBoot>>

\* Mutant: the fallback for a flight that never touched down is gone.
LandingReportsInOnly == {"IN"}

LandingReports == IF onEventFiled THEN {"IN"} ELSE {"ON", "IN"}

\* recordArrivalOnPlannedLeg(), which never throws.
RecordArrival(f) ==
  \/ \E outcome \in ClosedStatus : leg' = LegsAfterArrival(flight, leg, f, outcome)
  \/ Fails("arrival") /\ UNCHANGED leg

\* endFlight(): the row is closed, the arrival is recorded on the leg the row
\* names by now, the missing reports are filed, the memory is cleared.
EndFlight ==
  LET f == currentFlightId IN
  /\ IF flight[f].row = "open"
     THEN /\ flight' = [flight EXCEPT ![f] = [flight[f] EXCEPT !.row = "ended"]]
          /\ RecordArrival(f)
          /\ UNCHANGED trip
     ELSE UNCHANGED tables
  /\ File(f, LandingReports)
  /\ currentFlightId' = NULL /\ plannedLegCache' = NULL /\ legRead' = "ok" /\ state' = "IDLE"
  /\ airborneStreak' = 0 /\ landedStreak' = 0 /\ overdue' = FALSE /\ onEventFiled' = TRUE
  /\ UNCHANGED <<ground, openFlightCheckedAtBoot>>

\* insertFlight() and autoLinkPlannedLeg(), which never throws.
InsertFlight(f) ==
  LET inserted == [flight EXCEPT ![f] = EmptyFlight("open")] IN
  /\ IsNextId(f)
  /\ \/ flight' = inserted
     \/ \E l \in LegIds :
          Candidate(l) /\ flight' = FlightsAfterLink(inserted, leg, f, l, "auto")
  /\ UNCHANGED <<leg, trip>>

\* Mutant: the takeoff leaves the ground session to the ground states.
KeepSessionAtTakeoff == IF state = "GROUND" THEN UNCHANGED session ELSE CloseOpenSession

CloseSessionAtTakeoff == CloseOpenSession

\* startFlight()
StartFlight ==
  \E f \in FlightIds :
    /\ InsertFlight(f)
    /\ CloseSessionAtTakeoff
    /\ groundAnchor' = NULL /\ groundSessionCache' = NULL /\ groundStreak' = 0
    /\ currentFlightId' = f /\ ReadLeg(flight'[f].leg) /\ state' = "FLYING"
    /\ airborneStreak' = 0 /\ landedStreak' = 0 /\ overdue' = FALSE /\ onEventFiled' = FALSE
    /\ File(f, {"OUT", "OFF"})

\* resumeFlight(): adopts the newest open row; nothing is written but a point.
ResumeFlight ==
  /\ ~openFlightCheckedAtBoot
  /\ openFlightCheckedAtBoot' = TRUE
  /\ \E f \in OpenFlights :
       /\ \A g \in OpenFlights : g <= f
       /\ currentFlightId' = f
       /\ ReadLeg(flight[f].leg)
  /\ state' = "FLYING"
  /\ airborneStreak' = 0 /\ landedStreak' = 0 /\ groundStreak' = 0
  /\ overdue' = FALSE /\ onEventFiled' = FALSE
  /\ UNCHANGED <<tables, reports, session, groundSessionCache, groundAnchor>>

\* Mutant: a takeoff is not held back by the boot check.
NothingToResumeEver == TRUE

\* The one check per process found no open row, or threw, or ran before.
NothingToResume ==
  openFlightCheckedAtBoot \/ OpenFlights = {} \/ Fails("bootCheck")

\* Mutant: one frame too late.
DebouncedLate(kind) == kind = "airborne" /\ airborneStreak >= AirborneFrames + 1

\* The rest of checkAirborneDebounce().
Debounced(kind)   == kind = "airborne" /\ airborneStreak + 1 >= AirborneFrames
CountAirborne(kind) == airborneStreak' = IF kind = "airborne" THEN airborneStreak + 1 ELSE 0

\* What enterGround() writes: the gaps of the open row, or a row of its own.
\* A recorded airport that disagrees with the detected one is kept.
WriteGroundSession(p) ==
  \E l \in {k \in LegIds : Candidate(k)} \cup {NULL} :
    \/ /\ session # NULL
       /\ session' = [session EXCEPT
            !.airport = IF session.airport = NULL THEN NearestAirport(p) ELSE session.airport,
            !.at      = IF session.at = NULL THEN p ELSE session.at,
            !.leg     = IF session.leg = NULL THEN l ELSE session.leg]
    \/ /\ session = NULL
       /\ \E id \in SessionIds \cap scenario.sessions :
            session' = [id |-> id, source |-> "auto", airport |-> NearestAirport(p),
                        at |-> p, leg |-> l]

\* enterGround()
EnterGround(p) ==
  /\ groundStreak' = 0
  /\ \/ /\ WriteGroundSession(p)
        /\ groundAnchor' = p
        /\ groundSessionCache' = session'
        /\ state' = "GROUND"
     \/ /\ Fails("groundEntry")
        /\ WriteGroundSession(p) \/ UNCHANGED session
        /\ UNCHANGED <<groundAnchor, groundSessionCache, state>>

----------------------------------------------------------------------------
(* POST /api/ingest/frame                                                  *)

MarkConnected == connected' = TRUE /\ silent' = FALSE

\* simRunning = 0; from IDLE nothing happens, the streaks included.
ExitFrame ==
  \/ InProgress /\ EndFlight
  \/ state = "GROUND" /\ CloseSessionAndReturnToIdle
  \/ state = "IDLE" /\ UNCHANGED <<tables, reports, ground, flying, state, airborneStreak,
                                   openFlightCheckedAtBoot>>

IdleFrame(kind, p) ==
  /\ state = "IDLE"
  /\ \/ ResumeFlight
     \/ /\ NothingToResume
        /\ openFlightCheckedAtBoot' = TRUE
        /\ \/ Debounced(kind) /\ StartFlight
           \/ /\ ~Debounced(kind)
              /\ CountAirborne(kind)
              /\ IF kind = "parked" /\ groundStreak + 1 >= ParkedFrames
                 THEN EnterGround(p)
                 ELSE /\ groundStreak' = IF kind = "parked" THEN groundStreak + 1 ELSE 0
                      /\ UNCHANGED <<session, groundSessionCache, groundAnchor, state>>
              /\ UNCHANGED <<tables, reports, flying>>

\* Slew, or hasLeftAnchor().
LeavesStand(kind, p) == kind = "slew" \/ p # groundAnchor

GroundFrame(kind, p) ==
  /\ state = "GROUND"
  /\ \/ LeavesStand(kind, p) /\ CloseSessionAndReturnToIdle
     \/ /\ ~LeavesStand(kind, p)
        /\ UNCHANGED openFlightCheckedAtBoot
        /\ \/ Debounced(kind) /\ StartFlight
           \/ /\ ~Debounced(kind)
              /\ CountAirborne(kind)
              /\ UNCHANGED <<tables, reports, ground, flying, state>>

\* recordPoint() of a flight that was deleted throws out of onFrame(): the
\* rest of the frame is lost, lastPointTime stays and every later frame is due.
PointFails ==
  /\ ~FlightStored(flight, currentFlightId)
  /\ overdue' = TRUE
  /\ UNCHANGED <<tables, reports, ground, currentFlightId, cached, landedStreak,
                 onEventFiled, state, airborneStreak, openFlightCheckedAtBoot>>

Recording(kind) == kind # "slew" /\ ~isPaused

LandingDebounced(kind) == kind \in Landed /\ landedStreak + 1 >= LandedFrames

\* The point was written or was not due yet; the touchdown files ON.
FlyingFrame(kind) ==
  /\ InProgress
  /\ \/ /\ ~Recording(kind)
        /\ UNCHANGED <<tables, reports, ground, flying, state, airborneStreak,
                       openFlightCheckedAtBoot>>
     \/ Recording(kind) /\ PointFails
     \/ Recording(kind) /\ ~overdue /\ LandingDebounced(kind) /\ EndFlight
     \/ /\ Recording(kind) /\ ~overdue /\ ~LandingDebounced(kind)
        /\ landedStreak' = IF kind \in Landed THEN landedStreak + 1 ELSE 0
        /\ onEventFiled' = (onEventFiled \/ kind \in OnGround)
        /\ UNCHANGED <<tables, ground, currentFlightId, cached, overdue, state,
                       airborneStreak, openFlightCheckedAtBoot>>
        /\ File(currentFlightId, IF kind \in OnGround /\ ~onEventFiled THEN {"ON"} ELSE {})

Frame(kind, p) ==
  /\ MarkConnected
  /\ \/ kind = "exit" /\ ExitFrame
     \/ /\ kind # "exit"
        /\ IdleFrame(kind, p) \/ GroundFrame(kind, p) \/ FlyingFrame(kind)
  /\ UNCHANGED <<isPaused, life>>

----------------------------------------------------------------------------
(* POST /api/ingest/event and the stale timer.                             *)

Unmoved == UNCHANGED <<tables, reports, ground, flying, state, airborneStreak,
                       openFlightCheckedAtBoot, life>>

\* onSimDisconnect() and onCrash() do the same.
OnSimDisconnect ==
  \/ InProgress /\ EndFlight
  \/ state = "GROUND" /\ CloseAutoSessionAndReturnToIdle
  \/ state = "IDLE" /\ UNCHANGED <<tables, reports, ground, flying, state, airborneStreak,
                                   openFlightCheckedAtBoot>>

\* 'crashed': says nothing of the connection.
Crashed ==
  /\ state # "IDLE"
  /\ OnSimDisconnect
  /\ UNCHANGED <<agent, isPaused, life>>

\* Mutant: only the flag is cleared.
MarkDisconnectedQuietly ==
  /\ connected
  /\ connected' = FALSE /\ silent' = FALSE
  /\ UNCHANGED isPaused /\ Unmoved

MarkDisconnected ==
  /\ connected
  /\ connected' = FALSE /\ silent' = FALSE
  /\ OnSimDisconnect
  /\ UNCHANGED <<isPaused, life>>

Disconnected == MarkDisconnected

\* setInterval(): the agent died without a word.
StaleTimer == silent /\ MarkDisconnected

GoSilent ==
  /\ "silence" \in scenario.events
  /\ connected /\ ~silent
  /\ silent' = TRUE
  /\ UNCHANGED <<connected, isPaused>> /\ Unmoved

\* 'connected', and 'pause' with its flags.
ConnectedEvent == MarkConnected /\ UNCHANGED isPaused /\ Unmoved
PauseEvent ==
  /\ "pause" \in scenario.events
  /\ MarkConnected /\ isPaused' \in BOOLEAN /\ Unmoved
\* The legacy 'paused' and 'unpaused'.
LegacyPauseEvent ==
  /\ "pause" \in scenario.events
  /\ isPaused' = ~isPaused /\ UNCHANGED agent /\ Unmoved

----------------------------------------------------------------------------
(* POST and DELETE /api/ground-sessions, each with refreshGroundSession(). *)

\* Mutant: the cache is dropped, the state machine is not told.
RefreshCacheOnly == groundSessionCache' = session' /\ UNCHANGED <<groundAnchor, groundStreak, state>>

RefreshGroundSession ==
  IF session' = NULL /\ state = "GROUND"
  THEN ResetGroundTracking
  ELSE groundSessionCache' = session' /\ UNCHANGED <<groundAnchor, groundStreak, state>>

OperatorStep ==
  UNCHANGED <<tables, reports, flying, agent, airborneStreak, isPaused, openFlightCheckedAtBoot, life>>

\* insertManualGroundSession(): an automatic session at the same airport is
\* refined; any other open one is closed and replaced, in one transaction.
PostGroundSession(icao, l) ==
  /\ l = NULL \/ (l \in LegIds /\ leg[l].row = "stored")
  /\ IF session # NULL /\ session.source = "auto" /\ session.airport = icao
     THEN session' = [session EXCEPT !.leg = IF l = NULL THEN session.leg ELSE l]
     ELSE \E id \in SessionIds \cap scenario.sessions :
            /\ session # NULL => id # session.id
            /\ session' = [id |-> id, source |-> "manual", airport |-> icao, at |-> NULL, leg |-> l]
  /\ RefreshGroundSession
  /\ OperatorStep

DeleteGroundSession ==
  /\ session # NULL
  /\ session' = NULL
  /\ RefreshGroundSession
  /\ OperatorStep

----------------------------------------------------------------------------
(* The planner's routes: a transaction of Logbook, the foreign keys of the *)
(* tables beside it, and refreshPlannedLegForFlight().                     *)

\* ON DELETE SET NULL and ON DELETE CASCADE.
ForeignKeys ==
  /\ session' = IF session # NULL /\ session.leg # NULL /\ leg'[session.leg].row # "stored"
                THEN [session EXCEPT !.leg = NULL] ELSE session
  /\ oooi' = [f \in FlightIds |-> IF FlightStored(flight', f) THEN oooi[f] ELSE {}]
  /\ lost' = [f \in FlightIds |-> IF FlightStored(flight', f) THEN lost[f] ELSE {}]

RouteStep ==
  /\ ForeignKeys
  /\ UNCHANGED <<groundSessionCache, groundAnchor, groundStreak, currentFlightId, landedStreak,
                 overdue, onEventFiled, agent, state, airborneStreak, isPaused,
                 openFlightCheckedAtBoot, life>>

\* refreshPlannedLegForFlight() of the flight in progress: a query that throws
\* leaves the cache as it was, and the routes swallow it or answer an error.
RefreshLeg ==
  \/ plannedLegCache' = flight'[currentFlightId].leg /\ legRead' = "ok"
  \/ Fails("legRefresh") /\ UNCHANGED plannedLegCache /\ legRead' = "stale"

Refreshed(f) == IF f = currentFlightId THEN RefreshLeg ELSE UNCHANGED cached

\* Mutant: refreshed for the deleted flight only.
RefreshedForDeletedOnly ==
  IF currentFlightId # NULL /\ ~FlightStored(flight', currentFlightId)
  THEN RefreshLeg ELSE UNCHANGED cached

\* The three deletes refresh whatever flight is in progress.
RefreshedAfterDelete == IF currentFlightId # NULL THEN RefreshLeg ELSE UNCHANGED cached

LinkRoute(f) ==
  /\ \/ \E l \in LegIds : Logbook!LinkByHand(f, l)
     \/ Logbook!UnlinkByHand(f)
     \/ \E t \in TripIds : Logbook!AssignFlight(f, t)
     \/ Logbook!RemoveFlight(f)
  /\ Refreshed(f)
  /\ RouteStep

DeleteRoute ==
  /\ \/ \E f \in FlightIds : Logbook!DeleteFlight(f)
     \/ \E l \in LegIds : Logbook!DeleteLeg(l)
     \/ \E t \in TripIds : Logbook!DeleteTrip(t)
  /\ RefreshedAfterDelete
  /\ RouteStep

\* Refused for the flight in progress.
CombineRoute ==
  /\ \E a, b, n \in FlightIds :
       /\ currentFlightId \notin {a, b}
       /\ IsNextId(n)
       /\ Logbook!CombineFlights(a, b, n)
  /\ UNCHANGED cached
  /\ RouteStep

PlanRoute ==
  /\ \/ \E f \in FlightIds, requested \in {"planned", "flown"}, measured \in BOOLEAN :
          Logbook!HandClose(f, requested, measured)
     \/ \E l \in LegIds \cap scenario.legs, t \in TripRef : Logbook!CreateLeg(l, t)
     \/ \E l \in LegIds, s \in {"planned", "skipped"} : Logbook!SetStatus(l, s)
     \/ \E t \in TripIds \cap scenario.trips : Logbook!CreateTrip(t)
     \/ \E t \in TripRef : Logbook!SetActiveTrip(t)
  /\ UNCHANGED cached
  /\ RouteStep

----------------------------------------------------------------------------
(* The process dies and is started again.                                  *)

MemoryLost ==
  /\ kills < scenario.kills /\ kills' = kills + 1 /\ UNCHANGED scenario
  /\ state' = "IDLE" /\ currentFlightId' = NULL /\ plannedLegCache' = NULL /\ legRead' = "ok"
  /\ groundSessionCache' = NULL /\ groundAnchor' = NULL
  /\ airborneStreak' = 0 /\ groundStreak' = 0 /\ landedStreak' = 0
  /\ overdue' = FALSE /\ onEventFiled' = FALSE /\ isPaused' = FALSE
  /\ openFlightCheckedAtBoot' = FALSE /\ connected' = FALSE /\ silent' = FALSE

Kill == MemoryLost /\ UNCHANGED <<tables, reports, session>>

\* Inside startFlight(): after the insert, after the close of the session,
\* after the link, or after a report.
KilledTakeoff ==
  /\ state # "FLYING" /\ openFlightCheckedAtBoot /\ Debounced("airborne")
  /\ \E f \in FlightIds :
       /\ InsertFlight(f)
       /\ \/ flight'[f].leg = NULL /\ UNCHANGED <<session, reports>>
          \/ /\ CloseOpenSession
             /\ \E tried \in {{}, {"OUT"}, {"OUT", "OFF"}} : File(f, tried)
  /\ MemoryLost

\* Inside endFlight(): after the close, after the arrival, or after ON.
KilledLanding ==
  /\ InProgress /\ flight[currentFlightId].row = "open"
  /\ flight' = [flight EXCEPT ![currentFlightId] = [flight[currentFlightId] EXCEPT !.row = "ended"]]
  /\ \/ UNCHANGED <<leg, reports>>
     \/ /\ \E outcome \in ClosedStatus : leg' = LegsAfterArrival(flight, leg, currentFlightId, outcome)
        /\ UNCHANGED reports \/ File(currentFlightId, LandingReports \ {"IN"})
  /\ UNCHANGED <<trip, session>>
  /\ MemoryLost

\* Inside deleteFlight(): the link is cleared, the row is still there.
KilledDelete ==
  /\ \E f \in FlightIds : Logbook!DeleteFlightCut(f)
  /\ UNCHANGED <<session, reports>>
  /\ MemoryLost

----------------------------------------------------------------------------
Telemetry ==
  \/ \E kind \in FrameKinds, p \in Places \cap scenario.places : Frame(kind, p)
  \/ Crashed
  \/ Disconnected
  \/ ConnectedEvent \/ PauseEvent \/ LegacyPauseEvent

Operator ==
  \/ \E icao \in Airports, l \in LegRef : PostGroundSession(icao, l)
  \/ DeleteGroundSession
  \/ \E f \in FlightIds : LinkRoute(f)
  \/ DeleteRoute
  \/ CombineRoute
  \/ PlanRoute

Death == Kill \/ KilledTakeoff \/ KilledLanding \/ KilledDelete

Next == Telemetry \/ GoSilent \/ StaleTimer \/ Operator \/ Death

Spec == Init /\ [][Next]_vars

\* setInterval() keeps firing; nothing else is promised to happen.
LiveSpec == Spec /\ WF_vars(StaleTimer)

----------------------------------------------------------------------------
(* Properties.                                                             *)

\* The variables have their types.
TypeOK ==
  /\ Logbook!TypeOK
  /\ session \in SessionRow \cup {NULL}
  /\ {oooi, lost} \subseteq [FlightIds -> SUBSET OooiEvents]
  /\ state \in {"IDLE", "GROUND", "FLYING"}
  /\ currentFlightId \in FlightRef
  /\ plannedLegCache \in LegRef /\ legRead \in {"ok", "blank", "stale"}
  /\ groundSessionCache \in SessionRow \cup {NULL}
  /\ groundAnchor \in Places \cup {NULL}
  /\ airborneStreak \in 0 .. AirborneFrames
  /\ groundStreak \in 0 .. ParkedFrames
  /\ landedStreak \in 0 .. LandedFrames
  /\ {overdue, onEventFiled, isPaused, openFlightCheckedAtBoot, connected, silent} \subseteq BOOLEAN
  /\ scenario \in Scenarios /\ kills \in 0 .. scenario.kills

\* Once the boot check ran without failing, the only flight whose end_time is
\* NULL is the one being recorded: no restart, crash or planner call leaves
\* another one open for the next boot to adopt (getOpenFlight()'s orphans).
OnlyTheCurrentFlightIsOpen ==
  ~Fails("bootCheck") /\ openFlightCheckedAtBoot => OpenFlights \subseteq {currentFlightId}

\* While a flight is recorded, the leg /api/status reports is the leg its row
\* names, whoever linked, unlinked, moved or deleted what; none, if the leg
\* could not be read at takeoff or after a restart; and only a failed refresh
\* after a route's write leaves an older leg there, until the next one.
LegCacheMatchesRow ==
  InProgress /\ legRead # "stale" =>
    plannedLegCache = IF legRead = "blank" THEN NULL ELSE flight[currentFlightId].leg

\* The ground state tracks the session that is open, and the cache is never
\* that of a closed one, whatever the operator did to it meanwhile, as long as
\* entering the ground state does not fail half-way.
GroundTracksOpenSession ==
  ~Fails("groundEntry") =>
    /\ state = "GROUND" => groundSessionCache # NULL /\ groundAnchor # NULL
    /\ groundSessionCache # NULL =>
         /\ session # NULL
         /\ [groundSessionCache EXCEPT !.leg = NULL] = [session EXCEPT !.leg = NULL]

\* An aircraft in flight is not parked: in a process that did not die, and
\* whose closing statement did not fail, no automatic session stays open.
NoAutoSessionInFlight ==
  kills = 0 /\ ~Fails("sessionClose") /\ InProgress => session = NULL \/ session.source = "manual"

\* IN is the last word on a flight: the row is closed, and ON was filed before
\* it unless the insert of ON failed; OFF follows OUT unless that of OUT
\* failed; a deleted flight has no reports left.
ReportsInOrder ==
  \A f \in FlightIds :
    /\ "IN" \in oooi[f] => "ON" \in oooi[f] \cup lost[f] /\ flight[f].row = "ended"
    /\ "OFF" \in oooi[f] => "OUT" \in oooi[f] \cup lost[f]
    /\ ~FlightStored(flight, f) => oooi[f] = {}

\* An automatically linked leg still shown as planned is being flown now; the
\* landing, the deletion or the move of its flight has closed or freed it,
\* unless the process died or the arrival could not be written.
PlannedAutoLinkIsInFlight ==
  kills = 0 /\ ~Fails("arrival") =>
    \A f \in FlightIds :
      Linked(flight, f) /\ flight[f].source = "auto" /\ leg[flight[f].leg].status = "planned" =>
        InProgress /\ f = currentFlightId

\* What the recorder remembers of its flight's leg is what the tables hold, and
\* an automatic link of a leg that is not closed is the recorder's own.
LinksAreTracked == LegCacheMatchesRow /\ PlannedAutoLinkIsInFlight

\* The stale timer acts on a connected agent only: a state that only it can
\* end must never be reached, or kept, without one.
TrackedMeansConnected == state # "IDLE" => connected

\* A crash or a vanished agent is no evidence against what the operator typed.
SilenceSparesManualSession ==
  [][Crashed \/ MarkDisconnected =>
       (session # NULL /\ session.source = "manual" => session' = session)]_vars

\* An agent that falls silent for good leaves no flight and no session
\* tracked, although it never said goodbye.
SilenceEndsTracking == silent ~> (state = "IDLE" \/ (connected /\ ~silent))

\* Every database effect of the state machine is a transaction of Logbook.
ImplementsLogbook == Logbook!Spec

----------------------------------------------------------------------------
(* What comments of the source say and the code does not do.               *)

\* The live-status cache of a ground session does not drift from its row.
GroundCacheMatchesRow == groundSessionCache # NULL => groundSessionCache = session
============================================================================
