------------------------ MODULE FlightManagerProofs ------------------------
(***************************************************************************)
(* Proofs about FlightManager, for any tables, places and debounces, any   *)
(* number of deaths and any of the caught errors.  What it does to the     *)
(* database are steps of Logbook, so that what LogbookProofs proves of the *)
(* tables holds here (TablesAreSound); with that, each invariant of the    *)
(* recorder is inductive once the memory it relies on is added to it.      *)
(* Where a property needs a write not to fail, or the process not to die,  *)
(* the property says so.                                                   *)
(***************************************************************************)
EXTENDS FlightManager, TLAPS

----------------------------------------------------------------------------
\* The flight in progress is one of the ids.
CurrentIsAFlight == InProgress => currentFlightId \in FlightIds

\* A step keeps it: the memory opens only on a row just inserted or just found.
LEMMA CurrentStaysAFlight == CurrentIsAFlight /\ [Next]_vars => CurrentIsAFlight'
<1> SUFFICES ASSUME CurrentIsAFlight, [Next]_vars PROVE CurrentIsAFlight'
  OBVIOUS
<1> USE DEF CurrentIsAFlight, InProgress
<1>1. ASSUME NEW kind \in FrameKinds, NEW p \in Places, Frame(kind, p) PROVE CurrentIsAFlight'
  <2>1. CASE ExitFrame
    BY <2>1 DEF ExitFrame, EndFlight, CloseSessionAndReturnToIdle, ResetGroundTracking, flying
  <2>2. CASE IdleFrame(kind, p)
    <3>1. CASE ResumeFlight
      BY <3>1 DEF ResumeFlight, OpenFlights
    <3>2. CASE StartFlight
      BY <3>2 DEF StartFlight
    <3>3. CASE UNCHANGED flying /\ (EnterGround(p) \/ UNCHANGED state)
      BY <2>2, <3>3 DEF flying, EnterGround, IdleFrame
    <3>4. QED BY <2>2, <3>1, <3>2, <3>3 DEF IdleFrame
  <2>3. CASE GroundFrame(kind, p)
    BY <2>3 DEF GroundFrame, CloseSessionAndReturnToIdle, ResetGroundTracking, StartFlight, flying
  <2>4. CASE FlyingFrame(kind)
    BY <2>4 DEF FlyingFrame, EndFlight, PointFails, flying
  <2>5. QED BY <1>1, <2>1, <2>2, <2>3, <2>4 DEF Frame
<1>2. CASE Crashed \/ Disconnected \/ StaleTimer
  BY <1>2 DEF Crashed, Disconnected, StaleTimer, MarkDisconnected, OnSimDisconnect, EndFlight,
              CloseAutoSessionAndReturnToIdle, ResetGroundTracking, flying
<1>3. CASE ConnectedEvent \/ PauseEvent \/ LegacyPauseEvent \/ GoSilent
  BY <1>3 DEF ConnectedEvent, PauseEvent, LegacyPauseEvent, GoSilent, Unmoved, flying
<1>4. CASE Operator
  BY <1>4 DEF Operator, PostGroundSession, DeleteGroundSession, RefreshGroundSession,
              ResetGroundTracking, OperatorStep, LinkRoute, DeleteRoute, CombineRoute,
              PlanRoute, RouteStep, flying
<1>5. CASE Death
  BY <1>5 DEF Death, Kill, KilledTakeoff, KilledLanding, KilledDelete, MemoryLost
<1>6. CASE UNCHANGED vars
  BY <1>6 DEF vars, flying
<1>7. QED BY <1>1, <1>2, <1>3, <1>4, <1>5, <1>6 DEF Next, Telemetry

----------------------------------------------------------------------------
\* The scenario of a behaviour is one of those offered, and the deaths keep
\* within it.
LifeTyped == scenario \in Scenarios /\ kills \in 0 .. scenario.kills

\* A step keeps the scenario; only a death counts as one.
LEMMA LifeGoesOn ==
  LifeTyped /\ [Next]_vars => /\ LifeTyped' /\ scenario' = scenario
                              /\ kills' = kills \/ (Death /\ kills' # 0)
<1> SUFFICES ASSUME LifeTyped, [Next]_vars
             PROVE  LifeTyped' /\ scenario' = scenario /\ (kills' = kills \/ (Death /\ kills' # 0))
  OBVIOUS
<1>0. scenario.kills \in Nat
  BY ScenarioAssumption DEF LifeTyped, Scenario
<1>1. CASE UNCHANGED life
  BY <1>1 DEF LifeTyped, life
<1>2. CASE Death
  <2>1. MemoryLost
    BY <1>2 DEF Death, Kill, KilledTakeoff, KilledLanding, KilledDelete
  <2>2. /\ kills \in Nat /\ kills < scenario.kills /\ kills' = kills + 1 /\ scenario' = scenario
        /\ scenario \in Scenarios
    BY <1>0, <2>1 DEF MemoryLost, LifeTyped
  <2>3. kills' \in 0 .. scenario.kills /\ kills' # 0
    BY <1>0, <2>2
  <2>4. QED BY <1>2, <2>2, <2>3 DEF LifeTyped
<1>3. ASSUME Telemetry PROVE UNCHANGED life
  BY <1>3 DEF Telemetry, Frame, Crashed, Disconnected, MarkDisconnected, ConnectedEvent, PauseEvent,
              LegacyPauseEvent, Unmoved
<1>4. ASSUME Operator PROVE UNCHANGED life
  BY <1>4 DEF Operator, PostGroundSession, DeleteGroundSession, OperatorStep, LinkRoute, DeleteRoute,
              CombineRoute, PlanRoute, RouteStep
<1>5. QED BY <1>1, <1>2, <1>3, <1>4 DEF Next, GoSilent, StaleTimer, MarkDisconnected, Unmoved, vars

\* It holds in every state.
LEMMA LifeInvariant == Spec => []LifeTyped
<1>1. Init => LifeTyped
  <2> SUFFICES ASSUME Init PROVE LifeTyped
    OBVIOUS
  <2>1. scenario \in Scenarios /\ kills = 0
    BY DEF Init
  <2>2. scenario.kills \in Nat
    BY <2>1, ScenarioAssumption DEF Scenario
  <2>3. QED BY <2>1, <2>2 DEF LifeTyped
<1>2. QED BY <1>1, LifeGoesOn, PTL DEF Spec

----------------------------------------------------------------------------
(* The refinement.  INSTANCE Logbook has its own copies of the statements  *)
(* of LogbookRows; expanded, they are the same.                            *)

LEMMA SameStatements ==
  /\ \A fl, lg, f, l, s : Logbook!FlightsAfterLink(fl, lg, f, l, s) = FlightsAfterLink(fl, lg, f, l, s)
  /\ \A fl, lg, f, o : Logbook!LegsAfterArrival(fl, lg, f, o) = LegsAfterArrival(fl, lg, f, o)
  /\ \A r : Logbook!EmptyFlight(r) = EmptyFlight(r)
  /\ \A fl, l : Logbook!Holders(fl, l) = Holders(fl, l)
  /\ Logbook!ClosedStatus = ClosedStatus
BY DEF Logbook!FlightsAfterLink, FlightsAfterLink, Logbook!FlightsAfterUnlink, FlightsAfterUnlink,
       Logbook!Linked, Linked, Logbook!WithLink, WithLink, Logbook!WithoutLink, WithoutLink,
       Logbook!LegsAfterArrival, LegsAfterArrival, Logbook!EmptyFlight, EmptyFlight,
       Logbook!Holders, Holders, Logbook!ClosedStatus, ClosedStatus

\* What startFlight() writes of the tables.
LEMMA InsertMaps ==
  ASSUME NEW f \in FlightIds, InsertFlight(f)
  PROVE  Logbook!StartFlight(f)
<1>1. \A l \in LegIds : Candidate(l) => Logbook!Matchable(l)
  BY SameStatements DEF Candidate, Logbook!Matchable
<1>2. QED BY <1>1, SameStatements DEF InsertFlight, IsNextId, Logbook!StartFlight

\* What endFlight() writes of the tables.
LEMMA EndMaps ==
  ASSUME EndFlight, currentFlightId \in FlightIds
  PROVE  Logbook!Next \/ UNCHANGED tables
<1>1. CASE flight[currentFlightId].row = "open"
  <2>1. \/ \E outcome \in ClosedStatus : Logbook!EndFlight(currentFlightId, outcome)
        \/ Logbook!EndFlightUnrecorded(currentFlightId)
    BY <1>1, SameStatements DEF EndFlight, RecordArrival, Logbook!EndFlight, Logbook!EndFlightUnrecorded
  <2>2. QED BY <2>1, SameStatements DEF Logbook!Next
<1>2. CASE flight[currentFlightId].row # "open"
  BY <1>2 DEF EndFlight
<1>3. QED BY <1>1, <1>2

\* A step of the manager is a step of the logbook, or leaves its tables alone.
LEMMA NextMaps ==
  ASSUME CurrentIsAFlight, Next
  PROVE  Logbook!Next \/ UNCHANGED tables
<1>1. InProgress /\ EndFlight => Logbook!Next \/ UNCHANGED tables
  BY EndMaps DEF CurrentIsAFlight
<1>2. StartFlight => Logbook!Next
  BY InsertMaps DEF StartFlight, Logbook!Next
<1>3. ASSUME NEW kind \in FrameKinds, NEW p \in Places, Frame(kind, p)
      PROVE  Logbook!Next \/ UNCHANGED tables
  <2>1. CASE ExitFrame
    BY <1>1, <2>1 DEF ExitFrame, CloseSessionAndReturnToIdle
  <2>2. CASE IdleFrame(kind, p)
    BY <1>2, <2>2 DEF IdleFrame, ResumeFlight
  <2>3. CASE GroundFrame(kind, p)
    BY <1>2, <2>3 DEF GroundFrame, CloseSessionAndReturnToIdle
  <2>4. CASE FlyingFrame(kind)
    BY <1>1, <2>4 DEF FlyingFrame, PointFails
  <2>5. QED BY <1>3, <2>1, <2>2, <2>3, <2>4 DEF Frame
<1>4. CASE Crashed \/ Disconnected \/ StaleTimer
  BY <1>1, <1>4 DEF Crashed, Disconnected, StaleTimer, MarkDisconnected, OnSimDisconnect,
                    CloseAutoSessionAndReturnToIdle
<1>5. CASE ConnectedEvent \/ PauseEvent \/ LegacyPauseEvent \/ GoSilent
  BY <1>5 DEF ConnectedEvent, PauseEvent, LegacyPauseEvent, GoSilent, Unmoved
<1>6. ASSUME NEW icao \in Airports, NEW l \in LegRef, PostGroundSession(icao, l)
      PROVE  UNCHANGED tables
  BY <1>6 DEF PostGroundSession, OperatorStep
<1>7. CASE DeleteGroundSession
  BY <1>7 DEF DeleteGroundSession, OperatorStep
<1>8. ASSUME NEW f \in FlightIds, LinkRoute(f) PROVE Logbook!Next
  BY <1>8 DEF LinkRoute, Logbook!Next
<1>9. CASE DeleteRoute
  BY <1>9 DEF DeleteRoute, Logbook!Next
<1>10. CASE CombineRoute
  BY <1>10 DEF CombineRoute, Logbook!Next
<1>11. CASE PlanRoute
  BY <1>11 DEF PlanRoute, Logbook!Next, TripRef, Logbook!TripRef
<1>12. CASE Kill
  BY <1>12 DEF Kill
<1>13. CASE KilledTakeoff
  BY <1>13, InsertMaps DEF KilledTakeoff, Logbook!Next
<1>14. CASE KilledLanding
  <2>1. currentFlightId \in FlightIds
    BY <1>14 DEF KilledLanding, CurrentIsAFlight
  <2>2. \/ \E outcome \in ClosedStatus : Logbook!EndFlight(currentFlightId, outcome)
        \/ Logbook!EndFlightUnrecorded(currentFlightId)
    BY <1>14, SameStatements DEF KilledLanding, Logbook!EndFlight, Logbook!EndFlightUnrecorded
  <2>3. QED BY <2>1, <2>2, SameStatements DEF Logbook!Next
<1>15. CASE KilledDelete
  BY <1>15 DEF KilledDelete, Logbook!Next
<1>16. QED
  BY <1>3, <1>4, <1>5, <1>6, <1>7, <1>8, <1>9, <1>10, <1>11, <1>12, <1>13, <1>14, <1>15
     DEF Next, Telemetry, Operator, Death

\* Whatever the telemetry, the operator and the deaths of the process do, the
\* database goes through steps of Logbook only: what is proved of the logbook
\* holds of the running program.
THEOREM FlightManagerImplementsLogbook == Spec => ImplementsLogbook
<1>1. Init => Logbook!Init /\ CurrentIsAFlight
  BY DEF Init, CurrentIsAFlight, InProgress
<1>2. CurrentIsAFlight /\ [Next]_vars => [Logbook!Next]_(Logbook!vars)
  BY NextMaps DEF vars, tables, Logbook!vars
<1>3. QED BY <1>1, <1>2, CurrentStaysAFlight, PTL DEF Spec, ImplementsLogbook, Logbook!Spec

----------------------------------------------------------------------------
\* Nothing is tracked without a connected agent, so that the stale timer, which
\* looks at connected agents only, can always end what is tracked.
THEOREM TrackedIsConnected == Spec => []TrackedMeansConnected
<1>1. Init => TrackedMeansConnected
  BY DEF Init, TrackedMeansConnected
<1>2. TrackedMeansConnected /\ [Next]_vars => TrackedMeansConnected'
  <2> SUFFICES ASSUME TrackedMeansConnected, [Next]_vars PROVE TrackedMeansConnected'
    OBVIOUS
  <2> USE DEF TrackedMeansConnected
  <2>1. ASSUME NEW kind \in FrameKinds, NEW p \in Places, Frame(kind, p) PROVE connected' = TRUE
    BY <2>1 DEF Frame, MarkConnected
  <2>2. ASSUME OnSimDisconnect PROVE state' = "IDLE"
    BY <2>2 DEF OnSimDisconnect, EndFlight, CloseAutoSessionAndReturnToIdle, ResetGroundTracking
  <2>3. CASE Crashed \/ Disconnected \/ StaleTimer
    BY <2>2, <2>3 DEF Crashed, Disconnected, StaleTimer, MarkDisconnected
  <2>4. CASE ConnectedEvent \/ PauseEvent \/ LegacyPauseEvent \/ GoSilent
    BY <2>4 DEF ConnectedEvent, PauseEvent, LegacyPauseEvent, GoSilent, MarkConnected, Unmoved, agent
  <2>5. CASE Operator
    BY <2>5 DEF Operator, PostGroundSession, DeleteGroundSession, RefreshGroundSession,
                ResetGroundTracking, OperatorStep, LinkRoute, DeleteRoute, CombineRoute,
                PlanRoute, RouteStep, agent
  <2>6. CASE Death
    BY <2>6 DEF Death, Kill, KilledTakeoff, KilledLanding, KilledDelete, MemoryLost
  <2>7. CASE UNCHANGED vars
    BY <2>7 DEF vars, agent
  <2>8. QED BY <2>1, <2>3, <2>4, <2>5, <2>6, <2>7 DEF Next, Telemetry
<1>3. QED BY <1>1, <1>2, PTL DEF Spec

----------------------------------------------------------------------------
\* What is proved of the logbook alone.
Book == INSTANCE LogbookProofs

\* The logbook the manager refines is the one LogbookProofs is about.
LEMMA SameLogbook == Logbook!Spec => Book!Spec
<1>1. Logbook!Init <=> Book!Init
  BY DEF Logbook!Init, Book!Init, Logbook!EmptyFlight, Book!EmptyFlight, Logbook!EmptyLeg, Book!EmptyLeg,
         Logbook!EmptyTrip, Book!EmptyTrip
<1>2. Logbook!Next <=> Book!Next
  BY DEF Logbook!Next, Book!Next, Logbook!StartFlight, Book!StartFlight, Logbook!EndFlight,
         Book!EndFlight, Logbook!EndFlightUnrecorded, Book!EndFlightUnrecorded, Logbook!LinkByHand,
         Book!LinkByHand, Logbook!UnlinkByHand, Book!UnlinkByHand, Logbook!HandClose, Book!HandClose,
         Logbook!HandCloseAllowed, Book!HandCloseAllowed, Logbook!DeleteFlight, Book!DeleteFlight,
         Logbook!DeleteFlightCut, Book!DeleteFlightCut, Logbook!CombineFlights, Book!CombineFlights,
         Logbook!CreateLeg, Book!CreateLeg, Logbook!DeleteLeg, Book!DeleteLeg, Logbook!SetStatus,
         Book!SetStatus, Logbook!CreateTrip, Book!CreateTrip, Logbook!DeleteTrip, Book!DeleteTrip,
         Logbook!SetActiveTrip, Book!SetActiveTrip, Logbook!AssignFlight, Book!AssignFlight,
         Logbook!RemoveFlight, Book!RemoveFlight, Logbook!Matchable, Book!Matchable, Logbook!TripRef,
         Book!TripRef, Logbook!ClosedStatus, Book!ClosedStatus, Logbook!MayLink, Book!MayLink,
         Logbook!Holders, Book!Holders, Logbook!Linked, Book!Linked, Logbook!FlightStored,
         Book!FlightStored, Logbook!EmptyFlight, Book!EmptyFlight, Logbook!EmptyLeg, Book!EmptyLeg,
         Logbook!EmptyTrip, Book!EmptyTrip, Logbook!WithLink, Book!WithLink, Logbook!WithoutLink,
         Book!WithoutLink, Logbook!Reopened, Book!Reopened, Logbook!FlightsAfterUnlink,
         Book!FlightsAfterUnlink, Logbook!LegsAfterUnlink, Book!LegsAfterUnlink, Logbook!FlightsAfterClear,
         Book!FlightsAfterClear, Logbook!FlightsAfterLink, Book!FlightsAfterLink, Logbook!LegsAfterLink,
         Book!LegsAfterLink, Logbook!LegsAfterArrival, Book!LegsAfterArrival,
         Logbook!FlightsAfterLegDelete, Book!FlightsAfterLegDelete, Logbook!FlightsAfterTripDelete,
         Book!FlightsAfterTripDelete, Logbook!LegsAfterTripDelete, Book!LegsAfterTripDelete,
         Logbook!FlightsAfterAssign, Book!FlightsAfterAssign, Logbook!LegsAfterAssign,
         Book!LegsAfterAssign, Logbook!FlightsAfterRemove, Book!FlightsAfterRemove,
         Logbook!FlightsAfterDelete, Book!FlightsAfterDelete
<1>3. Logbook!vars = Book!vars
  BY DEF Logbook!vars, Book!vars
<1>4. [Logbook!Next]_(Logbook!vars) => [Book!Next]_(Book!vars)
  BY <1>2 DEF Logbook!vars, Book!vars
<1>5. QED BY <1>1, <1>4, PTL DEF Logbook!Spec, Book!Spec

\* The tables have the shape and the coherence that LogbookProofs proves of them.
TablesTyped ==
  /\ flight \in [FlightIds -> FlightRow]
  /\ leg \in [LegIds -> LegRow]
  /\ trip \in [TripIds -> TripRow]

\* What LogbookProofs proves therefore holds of the manager's tables.
LEMMA TablesAreSound == Spec => [](TablesTyped /\ Coherent(flight, leg))
<1>1. Book!LogbookInv => TablesTyped
  BY DEF Book!LogbookInv, Book!TypeOK, TablesTyped, Book!FlightRow, FlightRow, Book!TripRef, TripRef,
         Book!LegRef, LegRef, Book!LinkSource, LinkSource, Book!LegRow, LegRow, Book!LegStatus, LegStatus,
         Book!TripRow, TripRow
<1>2. Book!LogbookInv => Coherent(flight, leg)
  BY DEF Book!LogbookInv, Book!Coherent, Coherent, Book!HeldOnce, HeldOnce, Book!SitsInLegTrip, SitsInLegTrip,
         Book!NoLeftover, NoLeftover, Book!ClosedByLanded, ClosedByLanded, Book!Linked, Linked,
         Book!FlightStored, FlightStored, Book!ClosedStatus, ClosedStatus
<1>3. Spec => []Book!LogbookInv
  BY FlightManagerImplementsLogbook, SameLogbook, Book!LogbookInvariant, NullIsNoValue, PTL
     DEF ImplementsLogbook
<1>4. QED BY <1>1, <1>2, <1>3, PTL

----------------------------------------------------------------------------
(* What the steps do to a flight, whatever else they do.                   *)

\* insertFlight() and its link write one row, which was free and is now open.
LEMMA InsertedFlight ==
  ASSUME TablesTyped, NEW f \in FlightIds, InsertFlight(f)
  PROVE  /\ flight[f].row = "unused" /\ flight'[f].row = "open"
         /\ flight'[f].leg # NULL => flight'[f].source = "auto"
         /\ \A g \in FlightIds \ {f} : flight'[g] = flight[g]
         /\ leg' = leg
<1> USE DEF TablesTyped
<1> DEFINE inserted == [flight EXCEPT ![f] = EmptyFlight("open")]
<1>1. CASE flight' = inserted
  BY <1>1 DEF InsertFlight, IsNextId, EmptyFlight
<1>2. ASSUME NEW l \in LegIds, flight' = FlightsAfterLink(inserted, leg, f, l, "auto")
      PROVE  /\ flight'[f].row = "open" /\ flight'[f].source = "auto"
             /\ \A g \in FlightIds \ {f} : flight'[g] = flight[g]
  <2>1. inserted[f] = EmptyFlight("open") /\ ~Linked(inserted, f)
    BY DEF EmptyFlight, Linked
  <2>2. flight' = [inserted EXCEPT ![f] = WithLink(EmptyFlight("open"), l, leg[l].trip, "auto")]
    BY <1>2, <2>1 DEF FlightsAfterLink, FlightsAfterUnlink
  <2>3. QED BY <2>2 DEF WithLink, EmptyFlight
<1>3. QED BY <1>1, <1>2 DEF InsertFlight, IsNextId

\* A row is never opened, reopened or ended by the planner's routes: it stays as
\* it is, a stored one is deleted, or an unused one becomes a combined flight.
RowsKept ==
  \A g \in FlightIds :
    \/ flight'[g].row = flight[g].row
    \/ FlightStored(flight, g) /\ flight'[g].row = "deleted"
    \/ flight[g].row = "unused" /\ flight'[g].row = "ended"

\* A route leaves a row as it is, deletes it, or stores one already ended.
LEMMA RoutesKeepRows ==
  ASSUME TablesTyped,
         (\E f \in FlightIds : LinkRoute(f)) \/ DeleteRoute \/ CombineRoute \/ PlanRoute
  PROVE  RowsKept
<1> USE DEF RowsKept, TablesTyped
<1>1. ASSUME NEW f \in FlightIds, LinkRoute(f) PROVE RowsKept
  <2>2. CASE \E l \in LegIds : Logbook!LinkByHand(f, l)
    BY <2>2 DEF Logbook!LinkByHand, Logbook!FlightsAfterLink, Logbook!FlightsAfterUnlink, Logbook!WithLink,
                Logbook!WithoutLink, FlightRow
  <2>3. CASE Logbook!UnlinkByHand(f)
    BY <2>3 DEF Logbook!UnlinkByHand, Logbook!FlightsAfterUnlink, Logbook!WithoutLink, FlightRow
  <2>4. CASE \E t \in TripIds : Logbook!AssignFlight(f, t)
    BY <2>4 DEF Logbook!AssignFlight, Logbook!FlightsAfterAssign, Logbook!FlightsAfterClear,
                Logbook!WithoutLink, FlightRow
  <2>5. CASE Logbook!RemoveFlight(f)
    BY <2>5 DEF Logbook!RemoveFlight, Logbook!FlightsAfterRemove, Logbook!FlightsAfterClear,
                Logbook!WithoutLink, FlightRow
  <2>6. QED BY <1>1, <2>2, <2>3, <2>4, <2>5 DEF LinkRoute
<1>2. CASE DeleteRoute
  <2>1. CASE \E f \in FlightIds : Logbook!DeleteFlight(f)
    BY <2>1 DEF Logbook!DeleteFlight, Logbook!FlightsAfterDelete, Logbook!EmptyFlight, Logbook!FlightStored,
                FlightStored
  <2>2. \A g \in FlightIds : Logbook!WithoutLink(flight[g], flight[g].prev).row = flight[g].row
    BY DEF Logbook!WithoutLink, FlightRow
  <2>3. CASE \E l \in LegIds : Logbook!DeleteLeg(l)
    BY <2>2, <2>3 DEF Logbook!DeleteLeg, Logbook!FlightsAfterLegDelete
  <2>4. CASE \E t \in TripIds : Logbook!DeleteTrip(t)
    BY <2>2, <2>4 DEF Logbook!DeleteTrip, Logbook!FlightsAfterTripDelete
  <2>5. QED BY <1>2, <2>1, <2>3, <2>4 DEF DeleteRoute
<1>3. CASE CombineRoute
  BY <1>3 DEF CombineRoute, IsNextId, Logbook!CombineFlights, Logbook!FlightsAfterDelete, Logbook!EmptyFlight,
              Logbook!FlightStored, FlightStored
<1>4. CASE PlanRoute
  BY <1>4 DEF PlanRoute, Logbook!HandClose, Logbook!CreateLeg, Logbook!SetStatus, Logbook!CreateTrip,
              Logbook!SetActiveTrip
<1>5. QED BY <1>1, <1>2, <1>3, <1>4

----------------------------------------------------------------------------
\* What the operator typed survives a crash of the simulator and an agent that
\* vanished: only an automatic session is closed on such evidence.
THEOREM SilenceSparesWhatWasTyped == Spec => SilenceSparesManualSession
<1>1. ASSUME Crashed \/ MarkDisconnected, session # NULL, session.source = "manual"
      PROVE  session' = session
  BY <1>1 DEF Crashed, MarkDisconnected, OnSimDisconnect, EndFlight, ground, CloseAutoSessionAndReturnToIdle,
              CloseAutoSession
<1>2. QED BY <1>1, PTL DEF Spec, SilenceSparesManualSession

----------------------------------------------------------------------------
\* The flight in progress has a row that was inserted, so its id is issued to
\* no combined flight.
CacheInv ==
  /\ InProgress => currentFlightId \in FlightIds /\ flight[currentFlightId].row # "unused"
  /\ LegCacheMatchesRow

\* A route that moves another flight leaves this one's link alone, or the cache
\* is read again, or that failed.
LEMMA RoutesKeepCache ==
  ASSUME TablesTyped, CacheInv, InProgress, InProgress',
         (\E f \in FlightIds : LinkRoute(f)) \/ DeleteRoute \/ CombineRoute \/ PlanRoute
  PROVE  LegCacheMatchesRow'
<1> USE DEF CacheInv, TablesTyped, LegCacheMatchesRow
<1>0. currentFlightId' = currentFlightId
  BY DEF LinkRoute, DeleteRoute, CombineRoute, PlanRoute, RouteStep
<1>1. RefreshLeg => LegCacheMatchesRow'
  BY <1>0 DEF RefreshLeg
<1>2. ASSUME flight'[currentFlightId] = flight[currentFlightId], UNCHANGED cached
      PROVE  LegCacheMatchesRow'
  BY <1>0, <1>2 DEF cached
<1>3. ASSUME NEW f \in FlightIds, LinkRoute(f) PROVE LegCacheMatchesRow'
  <2>1. f # currentFlightId => flight'[currentFlightId] = flight[currentFlightId]
    BY <1>3 DEF LinkRoute, Logbook!LinkByHand, Logbook!UnlinkByHand, Logbook!AssignFlight, Logbook!RemoveFlight,
                Logbook!FlightsAfterLink, Logbook!FlightsAfterUnlink, Logbook!FlightsAfterAssign,
                Logbook!FlightsAfterRemove, Logbook!FlightsAfterClear
  <2>2. IF f = currentFlightId THEN RefreshLeg ELSE UNCHANGED cached
    BY <1>3 DEF LinkRoute, Refreshed
  <2>3. QED BY <1>1, <1>2, <2>1, <2>2
<1>4. CASE DeleteRoute
  BY <1>1, <1>4, NullIsNoValue DEF DeleteRoute, RefreshedAfterDelete
<1>5. CASE CombineRoute
  <2>1. flight'[currentFlightId] = flight[currentFlightId]
    BY <1>5 DEF CombineRoute, IsNextId, Logbook!CombineFlights, Logbook!FlightsAfterDelete
  <2>2. QED BY <1>2, <1>5, <2>1 DEF CombineRoute
<1>6. CASE PlanRoute
  <2>1. flight' = flight /\ UNCHANGED cached
    BY <1>6 DEF PlanRoute, Logbook!HandClose, Logbook!CreateLeg, Logbook!SetStatus, Logbook!CreateTrip,
                Logbook!SetActiveTrip
  <2>2. QED BY <1>2, <2>1
<1>7. QED BY <1>3, <1>4, <1>5, <1>6

\* What the recorder remembers of its flight's leg is that leg, whatever is
\* linked, moved, combined and deleted meanwhile: it names none where the leg
\* could not be read, and an older one only after a refresh that failed.
THEOREM CachedLegMatchesRow == Spec => []LegCacheMatchesRow
<1>1. Init => CacheInv
  BY DEF Init, CacheInv, LegCacheMatchesRow, InProgress
<1>2. TablesTyped /\ CacheInv /\ [Next]_vars => CacheInv'
  <2> SUFFICES ASSUME TablesTyped, CacheInv, [Next]_vars PROVE CacheInv'
    OBVIOUS
  <2> USE DEF CacheInv, InProgress, LegCacheMatchesRow, ReadLeg, cached
  <2>1. StartFlight => CacheInv'
    BY InsertedFlight DEF StartFlight
  <2>2. ASSUME NEW kind \in FrameKinds, NEW p \in Places, Frame(kind, p) PROVE CacheInv'
    <3>1. CASE ExitFrame
      BY <3>1 DEF ExitFrame, EndFlight, CloseSessionAndReturnToIdle, ResetGroundTracking, flying, tables
    <3>2. CASE IdleFrame(kind, p)
      BY <2>1, <3>2 DEF IdleFrame, ResumeFlight, OpenFlights, EnterGround, flying, tables
    <3>3. CASE GroundFrame(kind, p)
      BY <2>1, <3>3 DEF GroundFrame, CloseSessionAndReturnToIdle, ResetGroundTracking, flying, tables
    <3>4. CASE FlyingFrame(kind)
      BY <3>4 DEF FlyingFrame, EndFlight, PointFails, flying, tables
    <3>5. QED BY <2>2, <3>1, <3>2, <3>3, <3>4 DEF Frame
  <2>3. CASE Crashed \/ Disconnected \/ StaleTimer
    BY <2>3 DEF Crashed, Disconnected, StaleTimer, MarkDisconnected, OnSimDisconnect, EndFlight,
                CloseAutoSessionAndReturnToIdle, ResetGroundTracking, flying, tables
  <2>4. CASE ConnectedEvent \/ PauseEvent \/ LegacyPauseEvent \/ GoSilent
    BY <2>4 DEF ConnectedEvent, PauseEvent, LegacyPauseEvent, GoSilent, Unmoved, flying, tables
  <2>5. CASE (\E icao \in Airports, l \in LegRef : PostGroundSession(icao, l)) \/ DeleteGroundSession
    BY <2>5 DEF PostGroundSession, DeleteGroundSession, RefreshGroundSession, ResetGroundTracking,
                OperatorStep, flying, tables
  <2>6. CASE (\E f \in FlightIds : LinkRoute(f)) \/ DeleteRoute \/ CombineRoute \/ PlanRoute
    <3>1. UNCHANGED <<state, currentFlightId>>
      BY <2>6 DEF LinkRoute, DeleteRoute, CombineRoute, PlanRoute, RouteStep
    <3>2. InProgress => flight'[currentFlightId].row # "unused"
      BY <2>6, RoutesKeepRows DEF RowsKept
    <3>3. QED BY <2>6, <3>1, <3>2, RoutesKeepCache
  <2>7. CASE Death
    BY <2>7 DEF Death, Kill, KilledTakeoff, KilledLanding, KilledDelete, MemoryLost
  <2>8. CASE UNCHANGED vars
    BY <2>8 DEF vars, flying, tables
  <2>9. QED BY <2>2, <2>3, <2>4, <2>5, <2>6, <2>7, <2>8 DEF Next, Telemetry, Operator
<1>3. CacheInv => LegCacheMatchesRow
  BY DEF CacheInv
<1>4. QED BY <1>1, <1>2, <1>3, TablesAreSound, PTL DEF Spec

----------------------------------------------------------------------------
\* At most one row is open at any time, also between the death of the process
\* and the boot check; only a checked process leaves IDLE, and IDLE has no
\* flight.
OpenInv ==
  /\ \A f, g \in OpenFlights : f = g
  /\ openFlightCheckedAtBoot => OpenFlights \subseteq {currentFlightId}
  /\ state # "IDLE" => openFlightCheckedAtBoot
  /\ InProgress => currentFlightId \in FlightIds
  /\ ~InProgress => currentFlightId = NULL

\* After endFlight() no row is open, after startFlight() only the new one.
LEMMA LandingLeavesNoneOpen ==
  ASSUME TablesTyped, OpenInv, InProgress, EndFlight
  PROVE  \A f \in FlightIds : flight'[f].row # "open"
BY DEF TablesTyped, FlightRow, OpenInv, OpenFlights, EndFlight, tables, InProgress

\* A takeoff onto no open row leaves its own the one open.
LEMMA TakeoffOpensOne ==
  ASSUME TablesTyped, NEW f \in FlightIds, InsertFlight(f), OpenFlights = {}
  PROVE  \A g \in FlightIds : flight'[g].row = "open" <=> g = f
BY InsertedFlight DEF OpenFlights

\* When the boot check itself does not fail, no restart, crash or operator leaves
\* a second flight open: the flight that is recorded is the only one.
THEOREM NoOrphanedFlights == Spec => []OnlyTheCurrentFlightIsOpen
<1> DEFINE Inv == ~Fails("bootCheck") => OpenInv
<1>1. Init => Inv
  BY DEF Init, Logbook!Init, Logbook!EmptyFlight, OpenInv, OpenFlights, InProgress
<1>2. TablesTyped /\ LifeTyped /\ Inv /\ [Next]_vars => Inv'
  <2> SUFFICES ASSUME TablesTyped, ~Fails("bootCheck"), OpenInv, [Next]_vars PROVE OpenInv'
    BY LifeGoesOn DEF Fails
  <2>1. ASSUME InProgress, EndFlight PROVE OpenInv'
    BY <2>1, LandingLeavesNoneOpen DEF OpenInv, OpenFlights, InProgress, EndFlight
  <2>2. ASSUME StartFlight, OpenFlights = {}, openFlightCheckedAtBoot' = TRUE PROVE OpenInv'
    BY <2>2, TakeoffOpensOne DEF StartFlight, OpenInv, OpenFlights, InProgress
  <2>3. ASSUME ResumeFlight PROVE OpenInv'
    BY <2>3 DEF ResumeFlight, OpenInv, OpenFlights, InProgress, tables
  <2>4. ASSUME UNCHANGED <<tables, flying>>, openFlightCheckedAtBoot' = openFlightCheckedAtBoot,
               state' = state \/ (state # "FLYING" /\ state' = "IDLE")
        PROVE  OpenInv'
    BY <2>4 DEF OpenInv, OpenFlights, InProgress, tables, flying
  <2>5. ASSUME NEW kind \in FrameKinds, NEW p \in Places, Frame(kind, p) PROVE OpenInv'
    <3>1. CASE ExitFrame
      BY <2>1, <2>4, <3>1 DEF ExitFrame, CloseSessionAndReturnToIdle, ResetGroundTracking
    <3>2. CASE IdleFrame(kind, p)
      <4>1. CASE ResumeFlight
        BY <2>3, <4>1
      <4>2. CASE NothingToResume /\ openFlightCheckedAtBoot' = TRUE
        <5>1. OpenFlights = {}
          BY <3>2, <4>2, NullIsNoValue DEF NothingToResume, OpenInv, IdleFrame, InProgress, OpenFlights
        <5>2. CASE StartFlight
          BY <2>2, <4>2, <5>1, <5>2
        <5>3. CASE UNCHANGED <<tables, flying>> /\ (state' = state \/ state' = "GROUND")
          BY <3>2, <4>2, <5>1, <5>3 DEF IdleFrame, OpenInv, OpenFlights, InProgress, tables, flying
        <5>4. QED BY <3>2, <4>1, <4>2, <5>2, <5>3 DEF IdleFrame, EnterGround
      <4>3. QED BY <3>2, <4>1, <4>2 DEF IdleFrame
    <3>3. CASE GroundFrame(kind, p)
      <4>1. CASE StartFlight
        <5>1. OpenFlights = {} /\ openFlightCheckedAtBoot
          BY <3>3, NullIsNoValue DEF GroundFrame, OpenInv, InProgress, OpenFlights
        <5>2. openFlightCheckedAtBoot' = TRUE
          BY <3>3, <4>1, <5>1 DEF GroundFrame, CloseSessionAndReturnToIdle
        <5>3. QED BY <2>2, <4>1, <5>1, <5>2
      <4>2. CASE CloseSessionAndReturnToIdle \/ UNCHANGED <<tables, flying, state, openFlightCheckedAtBoot>>
        BY <2>4, <3>3, <4>2 DEF GroundFrame, CloseSessionAndReturnToIdle, ResetGroundTracking
      <4>3. QED BY <3>3, <4>1, <4>2 DEF GroundFrame
    <3>4. CASE FlyingFrame(kind)
      <4>1. CASE EndFlight
        BY <2>1, <3>4, <4>1 DEF FlyingFrame
      <4>2. CASE UNCHANGED <<tables, currentFlightId, state, openFlightCheckedAtBoot>>
        BY <4>2 DEF OpenInv, OpenFlights, InProgress, tables
      <4>3. QED BY <3>4, <4>1, <4>2 DEF FlyingFrame, PointFails, flying
    <3>5. QED BY <2>5, <3>1, <3>2, <3>3, <3>4 DEF Frame
  <2>6. CASE Crashed \/ Disconnected \/ StaleTimer
    BY <2>1, <2>4, <2>6 DEF Crashed, Disconnected, StaleTimer, MarkDisconnected, OnSimDisconnect,
                            CloseAutoSessionAndReturnToIdle, ResetGroundTracking
  <2>7. CASE ConnectedEvent \/ PauseEvent \/ LegacyPauseEvent \/ GoSilent
    BY <2>4, <2>7 DEF ConnectedEvent, PauseEvent, LegacyPauseEvent, GoSilent, Unmoved
  <2>8. CASE (\E icao \in Airports, l \in LegRef : PostGroundSession(icao, l)) \/ DeleteGroundSession
    BY <2>4, <2>8 DEF PostGroundSession, DeleteGroundSession, RefreshGroundSession, ResetGroundTracking,
                      OperatorStep
  <2>9. CASE (\E f \in FlightIds : LinkRoute(f)) \/ DeleteRoute \/ CombineRoute \/ PlanRoute
    <3>1. UNCHANGED <<state, currentFlightId, openFlightCheckedAtBoot>>
      BY <2>9 DEF LinkRoute, DeleteRoute, CombineRoute, PlanRoute, RouteStep
    <3>2. \A f \in FlightIds : flight'[f].row = "open" => flight[f].row = "open"
      BY <2>9, RoutesKeepRows DEF RowsKept
    <3>3. QED BY <3>1, <3>2 DEF OpenInv, OpenFlights, InProgress
  <2>10. CASE Death
    <3>1. /\ state' = "IDLE" /\ currentFlightId' = NULL
          /\ openFlightCheckedAtBoot' = FALSE
      BY <2>10 DEF Death, Kill, KilledTakeoff, KilledLanding, KilledDelete, MemoryLost
    <3>2. \A f, g \in FlightIds : flight'[f].row = "open" /\ flight'[g].row = "open" => f = g
      <4>1. CASE Kill
        BY <4>1 DEF Kill, OpenInv, OpenFlights, tables
      <4>2. CASE KilledTakeoff
        <5>1. OpenFlights = {}
          BY <4>2, NullIsNoValue DEF KilledTakeoff, OpenInv, InProgress, OpenFlights
        <5>2. QED BY <4>2, <5>1, TakeoffOpensOne DEF KilledTakeoff
      <4>3. CASE KilledLanding
        BY <4>3 DEF KilledLanding, OpenInv, OpenFlights, TablesTyped, FlightRow
      <4>4. CASE KilledDelete
        BY <4>4 DEF KilledDelete, Logbook!DeleteFlightCut, Logbook!FlightsAfterClear, Logbook!WithoutLink,
                    OpenInv, OpenFlights, TablesTyped, FlightRow
      <4>5. QED BY <2>10, <4>1, <4>2, <4>3, <4>4 DEF Death
    <3>3. QED BY <3>1, <3>2 DEF OpenInv, OpenFlights, InProgress
  <2>11. CASE UNCHANGED vars
    BY <2>4, <2>11 DEF vars
  <2>12. QED BY <2>5, <2>6, <2>7, <2>8, <2>9, <2>10, <2>11 DEF Next, Telemetry, Operator
<1>3. Inv => OnlyTheCurrentFlightIsOpen
  BY DEF OpenInv, OnlyTheCurrentFlightIsOpen
<1>4. QED BY <1>1, <1>2, <1>3, TablesAreSound, LifeInvariant, PTL DEF Spec

----------------------------------------------------------------------------
SessionTyped == session \in SessionRow \cup {NULL}

\* enterGround() leaves an open session of the right shape; what it changed of
\* an open one was missing.
LEMMA GroundEntryWritesSession ==
  ASSUME SessionTyped, NEW p \in Places, WriteGroundSession(p)
  PROVE  session' \in SessionRow
<1>1. NearestAirport(p) \in Airports \cup {NULL}
  BY DEF NearestAirport
<1>2. PICK l \in LegRef : \/ /\ session # NULL
                            /\ session' = [session EXCEPT
                                 !.airport = IF session.airport = NULL THEN NearestAirport(p)
                                             ELSE session.airport,
                                 !.at      = IF session.at = NULL THEN p ELSE session.at,
                                 !.leg     = IF session.leg = NULL THEN l ELSE session.leg]
                          \/ \E id \in SessionIds \cap scenario.sessions :
                               session' = [id |-> id, source |-> "auto", airport |-> NearestAirport(p),
                                           at |-> p, leg |-> l]
  BY DEF WriteGroundSession, LegRef
<1>3. CASE session # NULL
  <2>1. /\ session \in SessionRow
        /\ \A a \in Airports \cup {NULL}, q \in Places \cup {NULL}, k \in LegRef :
             [session EXCEPT !.airport = a, !.at = q, !.leg = k] \in SessionRow
    BY <1>3 DEF SessionTyped, SessionRow
  <2>2. CASE \E id \in SessionIds \cap scenario.sessions :
               session' = [id |-> id, source |-> "auto", airport |-> NearestAirport(p), at |-> p, leg |-> l]
    BY <1>1, <2>2 DEF SessionRow
  <2>3. CASE ~\E id \in SessionIds \cap scenario.sessions :
               session' = [id |-> id, source |-> "auto", airport |-> NearestAirport(p), at |-> p, leg |-> l]
    <3>1. session.airport \in Airports \cup {NULL} /\ session.at \in Places \cup {NULL}
          /\ session.leg \in LegRef
      BY <2>1 DEF SessionRow
    <3> DEFINE a == IF session.airport = NULL THEN NearestAirport(p) ELSE session.airport
               q == IF session.at = NULL THEN p ELSE session.at
               k == IF session.leg = NULL THEN l ELSE session.leg
    <3>2. a \in Airports \cup {NULL} /\ q \in Places \cup {NULL} /\ k \in LegRef
      BY <1>1, <3>1
    <3>3. session' = [session EXCEPT !.airport = a, !.at = q, !.leg = k]
      BY <1>2, <2>3
    <3> HIDE DEF a, q, k
    <3>4. QED BY <2>1, <3>2, <3>3
  <2>4. QED BY <2>2, <2>3
<1>4. CASE session = NULL
  BY <1>1, <1>2, <1>4 DEF SessionRow
<1>5. QED BY <1>3, <1>4

\* A leg that is deleted clears only the leg of the session.
LEMMA ForeignKeysKeepSession ==
  ASSUME SessionTyped, ForeignKeys
  PROVE  \/ session' = session
         \/ session # NULL /\ session' = [session EXCEPT !.leg = NULL]
BY DEF ForeignKeys

\* A step keeps the stored session a row of its table.
LEMMA SessionStaysTyped == SessionTyped /\ [Next]_vars => SessionTyped'
<1> SUFFICES ASSUME SessionTyped, [Next]_vars PROVE SessionTyped'
  OBVIOUS
<1>1. session' = session \/ session' = NULL => SessionTyped'
  BY DEF SessionTyped
<1>2. ASSUME NEW p \in Places, EnterGround(p) PROVE SessionTyped'
  BY <1>1, <1>2, GroundEntryWritesSession DEF EnterGround, SessionTyped
<1>3. ASSUME NEW icao \in Airports, NEW l \in LegRef, PostGroundSession(icao, l) PROVE SessionTyped'
  BY <1>3 DEF PostGroundSession, SessionTyped, SessionRow
<1>4. ASSUME ForeignKeys PROVE SessionTyped'
  BY <1>4, ForeignKeysKeepSession DEF SessionTyped, SessionRow, LegRef
<1>5. ASSUME NEW kind \in FrameKinds, NEW p \in Places, Frame(kind, p) PROVE SessionTyped'
  BY <1>1, <1>2, <1>5
     DEF Frame, ExitFrame, IdleFrame, GroundFrame, FlyingFrame, EndFlight, CloseSessionAndReturnToIdle,
         CloseOpenSession, ResumeFlight, StartFlight, CloseSessionAtTakeoff, PointFails, ground
<1>6. CASE Crashed \/ Disconnected \/ StaleTimer
  BY <1>1, <1>6 DEF Crashed, Disconnected, StaleTimer, MarkDisconnected, OnSimDisconnect, EndFlight,
                    CloseAutoSessionAndReturnToIdle, CloseAutoSession, CloseOpenSession, ground
<1>7. CASE ConnectedEvent \/ PauseEvent \/ LegacyPauseEvent \/ GoSilent
  BY <1>1, <1>7 DEF ConnectedEvent, PauseEvent, LegacyPauseEvent, GoSilent, Unmoved, ground
<1>8. CASE DeleteGroundSession
  BY <1>1, <1>8 DEF DeleteGroundSession
<1>9. CASE (\E f \in FlightIds : LinkRoute(f)) \/ DeleteRoute \/ CombineRoute \/ PlanRoute
  BY <1>4, <1>9 DEF LinkRoute, DeleteRoute, CombineRoute, PlanRoute, RouteStep
<1>10. CASE Death
  BY <1>1, <1>10 DEF Death, Kill, KilledTakeoff, KilledLanding, KilledDelete, CloseOpenSession
<1>11. CASE UNCHANGED vars
  BY <1>1, <1>11 DEF vars, ground
<1>12. QED BY <1>3, <1>5, <1>6, <1>7, <1>8, <1>9, <1>10, <1>11 DEF Next, Telemetry, Operator

\* When entering the ground state does not fail half-way, that state tracks the
\* session that is open, and the cache is never that of a closed one.
THEOREM GroundTracksTheOpenSession == Spec => []GroundTracksOpenSession
<1>1. Init => GroundTracksOpenSession /\ SessionTyped
  BY DEF Init, GroundTracksOpenSession, SessionTyped
<1>2. SessionTyped /\ LifeTyped /\ GroundTracksOpenSession /\ [Next]_vars => GroundTracksOpenSession'
  <2> SUFFICES ASSUME SessionTyped, LifeTyped, GroundTracksOpenSession, [Next]_vars, ~Fails("groundEntry")
               PROVE  GroundTracksOpenSession'
    BY LifeGoesOn DEF Fails, GroundTracksOpenSession
  <2> USE DEF GroundTracksOpenSession
  <2>1. ASSUME groundSessionCache' = NULL, state' # "GROUND" PROVE GroundTracksOpenSession'
    BY <2>1
  <2>2. ASSUME UNCHANGED ground, state' = state \/ state' # "GROUND" PROVE GroundTracksOpenSession'
    BY <2>2 DEF ground
  <2>3. ASSUME NEW p \in Places, EnterGround(p) PROVE GroundTracksOpenSession'
    BY <2>3, GroundEntryWritesSession, SessionAssumption, PlaceAssumption DEF EnterGround
  <2>4. ASSUME RefreshGroundSession PROVE GroundTracksOpenSession'
    BY <2>1, <2>4 DEF RefreshGroundSession, ResetGroundTracking
  <2>5. ASSUME ForeignKeys, UNCHANGED <<groundSessionCache, groundAnchor, state>>
        PROVE  GroundTracksOpenSession'
    <3>1. CASE session' = session
      BY <2>5, <3>1
    <3>2. CASE session # NULL /\ session' = [session EXCEPT !.leg = NULL]
      <4>1. session \in SessionRow /\ session' \in SessionRow
        BY <3>2 DEF SessionTyped, SessionRow, LegRef
      <4>2. session' # NULL /\ [session' EXCEPT !.leg = NULL] = [session EXCEPT !.leg = NULL]
        BY <3>2, <4>1, SessionAssumption DEF SessionRow
      <4>3. QED BY <2>5, <3>2, <4>2
    <3>3. QED BY <2>5, <3>1, <3>2, ForeignKeysKeepSession
  <2>6. ASSUME StartFlight PROVE GroundTracksOpenSession'
    BY <2>1, <2>6 DEF StartFlight
  <2>7. ASSUME EndFlight PROVE GroundTracksOpenSession'
    BY <2>2, <2>7 DEF EndFlight
  <2>8. ASSUME NEW kind \in FrameKinds, NEW p \in Places, Frame(kind, p) PROVE GroundTracksOpenSession'
    <3>1. CASE ExitFrame
      BY <2>1, <2>2, <2>7, <3>1 DEF ExitFrame, CloseSessionAndReturnToIdle, ResetGroundTracking
    <3>2. CASE IdleFrame(kind, p)
      BY <2>3, <2>6, <3>2 DEF IdleFrame, ResumeFlight
    <3>3. CASE GroundFrame(kind, p)
      BY <2>1, <2>2, <2>6, <3>3 DEF GroundFrame, CloseSessionAndReturnToIdle, ResetGroundTracking
    <3>4. CASE FlyingFrame(kind)
      BY <2>2, <2>7, <3>4 DEF FlyingFrame, PointFails
    <3>5. QED BY <2>8, <3>1, <3>2, <3>3, <3>4 DEF Frame
  <2>9. CASE Crashed \/ Disconnected \/ StaleTimer
    BY <2>1, <2>2, <2>7, <2>9 DEF Crashed, Disconnected, StaleTimer, MarkDisconnected, OnSimDisconnect,
                                  CloseAutoSessionAndReturnToIdle, ResetGroundTracking
  <2>10. CASE ConnectedEvent \/ PauseEvent \/ LegacyPauseEvent \/ GoSilent
    BY <2>2, <2>10 DEF ConnectedEvent, PauseEvent, LegacyPauseEvent, GoSilent, Unmoved
  <2>11. CASE (\E icao \in Airports, l \in LegRef : PostGroundSession(icao, l)) \/ DeleteGroundSession
    BY <2>4, <2>11 DEF PostGroundSession, DeleteGroundSession
  <2>12. CASE (\E f \in FlightIds : LinkRoute(f)) \/ DeleteRoute \/ CombineRoute \/ PlanRoute
    BY <2>5, <2>12 DEF LinkRoute, DeleteRoute, CombineRoute, PlanRoute, RouteStep
  <2>13. CASE Death
    BY <2>1, <2>13 DEF Death, Kill, KilledTakeoff, KilledLanding, KilledDelete, MemoryLost
  <2>14. CASE UNCHANGED vars
    BY <2>2, <2>14 DEF vars
  <2>15. QED BY <2>8, <2>9, <2>10, <2>11, <2>12, <2>13, <2>14 DEF Next, Telemetry, Operator
<1>3. QED BY <1>1, <1>2, SessionStaysTyped, LifeInvariant, PTL DEF Spec

----------------------------------------------------------------------------
\* onEventFiled is only ever true when ON was tried, so that the landing, which
\* trusts it, tries IN last.
ReportsInv ==
  /\ ReportsInOrder
  /\ InProgress => /\ currentFlightId \in FlightIds
                   /\ onEventFiled /\ FlightStored(flight, currentFlightId) =>
                        "ON" \in oooi[currentFlightId] \cup lost[currentFlightId]
                   /\ flight[currentFlightId].row # "unused"
  /\ oooi \in [FlightIds -> SUBSET OooiEvents]
  /\ lost \in [FlightIds -> SUBSET OooiEvents]

\* What filing does: the reports of a stored flight are tried, of which some are
\* written and the rest is lost; nothing else is touched.
LEMMA FiledOrLost ==
  ASSUME oooi \in [FlightIds -> SUBSET OooiEvents], lost \in [FlightIds -> SUBSET OooiEvents],
         NEW f \in FlightIds, NEW events \in SUBSET OooiEvents, File(f, events)
  PROVE  /\ oooi' \in [FlightIds -> SUBSET OooiEvents] /\ lost' \in [FlightIds -> SUBSET OooiEvents]
         /\ \A g \in FlightIds \ {f} : oooi'[g] = oooi[g] /\ lost'[g] = lost[g]
         /\ oooi'[f] \subseteq oooi[f] \cup events
         /\ oooi[f] \cup lost[f] \subseteq oooi'[f] \cup lost'[f]
         /\ FlightStored(flight', f) => events \subseteq oooi'[f] \cup lost'[f]
         /\ ~FlightStored(flight', f) => oooi' = oooi /\ lost' = lost
<1>1. CASE UNCHANGED reports /\ ~FlightStored(flight', f)
  BY <1>1 DEF reports
<1>2. ASSUME NEW kept \in SUBSET events, Reported(f, events, kept), FlightStored(flight', f)
      PROVE  /\ oooi' \in [FlightIds -> SUBSET OooiEvents] /\ lost' \in [FlightIds -> SUBSET OooiEvents]
             /\ \A g \in FlightIds \ {f} : oooi'[g] = oooi[g] /\ lost'[g] = lost[g]
             /\ oooi'[f] \subseteq oooi[f] \cup events
             /\ oooi[f] \cup lost[f] \subseteq oooi'[f] \cup lost'[f]
             /\ events \subseteq oooi'[f] \cup lost'[f]
  <2>1. /\ oooi'[f] = oooi[f] \cup kept
        /\ lost'[f] = (lost[f] \cup events) \ (oooi[f] \cup kept)
        /\ \A g \in FlightIds \ {f} : oooi'[g] = oooi[g] /\ lost'[g] = lost[g]
    BY <1>2 DEF Reported
  <2>2. oooi' \in [FlightIds -> SUBSET OooiEvents] /\ lost' \in [FlightIds -> SUBSET OooiEvents]
    BY <1>2 DEF Reported
  <2>3. QED BY <2>1, <2>2
<1>3. FlightStored(flight', f) => \E kept \in SUBSET events : Reported(f, events, kept)
  BY DEF File
<1>4. QED BY <1>1, <1>2, <1>3 DEF File

\* Reports tried in order keep the order, as long as the rows move on.
LEMMA FilingKeepsOrder ==
  ASSUME ReportsInv, NEW f \in FlightIds, NEW events \in SUBSET OooiEvents, File(f, events),
         "IN" \in events => /\ "ON" \in events \cup oooi[f] \cup lost[f] \/ ~FlightStored(flight', f)
                            /\ flight'[f].row = "ended" \/ ~FlightStored(flight', f),
         "OFF" \in events => "OUT" \in events,
         \A g \in FlightIds : /\ flight[g].row = "ended" => flight'[g].row = "ended"
                              /\ FlightStored(flight, g) => FlightStored(flight', g)
  PROVE  ReportsInOrder' /\ oooi' \in [FlightIds -> SUBSET OooiEvents] /\ lost' \in [FlightIds -> SUBSET OooiEvents]
<1> USE DEF ReportsInv, ReportsInOrder
<1>1. /\ oooi' \in [FlightIds -> SUBSET OooiEvents] /\ lost' \in [FlightIds -> SUBSET OooiEvents]
      /\ \A g \in FlightIds \ {f} : oooi'[g] = oooi[g] /\ lost'[g] = lost[g]
      /\ oooi'[f] \subseteq oooi[f] \cup events
      /\ oooi[f] \cup lost[f] \subseteq oooi'[f] \cup lost'[f]
      /\ FlightStored(flight', f) => events \subseteq oooi'[f] \cup lost'[f]
      /\ ~FlightStored(flight', f) => oooi' = oooi /\ lost' = lost
  BY FiledOrLost
<1>2. ASSUME NEW g \in FlightIds \ {f}
      PROVE  /\ "IN" \in oooi'[g] => "ON" \in oooi'[g] \cup lost'[g] /\ flight'[g].row = "ended"
             /\ "OFF" \in oooi'[g] => "OUT" \in oooi'[g] \cup lost'[g]
             /\ ~FlightStored(flight', g) => oooi'[g] = {}
  BY <1>1, <1>2
<1>3. CASE FlightStored(flight', f)
  <2>1. "IN" \in oooi'[f] => "ON" \in oooi'[f] \cup lost'[f] /\ flight'[f].row = "ended"
    BY <1>1, <1>3
  <2>2. "OFF" \in oooi'[f] => "OUT" \in oooi'[f] \cup lost'[f]
    BY <1>1, <1>3
  <2>3. QED BY <1>1, <1>2, <1>3, <2>1, <2>2
<1>4. CASE ~FlightStored(flight', f)
  <2>1. oooi'[f] = {}
    BY <1>1, <1>4
  <2>2. QED BY <1>1, <1>2, <2>1
<1>5. QED BY <1>3, <1>4

\* It holds in every state.
LEMMA ReportsInvariant == Spec => []ReportsInv
<1>1. Init => ReportsInv
  BY DEF Init, ReportsInv, ReportsInOrder, InProgress
<1>2. TablesTyped /\ ReportsInv /\ [Next]_vars => ReportsInv'
  <2> SUFFICES ASSUME TablesTyped, ReportsInv, [Next]_vars PROVE ReportsInv'
    OBVIOUS
  <2> USE DEF InProgress
  <2>1. ASSUME InProgress, EndFlight PROVE ReportsInv'
    <3> DEFINE f == currentFlightId
    <3>0. f \in FlightIds /\ state' = "IDLE" /\ File(f, LandingReports)
      BY <2>1 DEF ReportsInv, EndFlight
    <3>1. \A g \in FlightIds \ {f} : flight'[g] = flight[g]
      BY <2>1 DEF EndFlight, tables, TablesTyped
    <3>2. flight'[f].row = IF flight[f].row = "open" THEN "ended" ELSE flight[f].row
      BY <2>1, <3>0 DEF EndFlight, tables, TablesTyped, FlightRow
    <3>3. /\ LandingReports \in SUBSET OooiEvents /\ "OFF" \notin LandingReports
          /\ FlightStored(flight, f) => "ON" \in LandingReports \cup oooi[f] \cup lost[f]
      BY <2>1, <3>0 DEF LandingReports, ReportsInv, OooiEvents
    <3>4. /\ FlightStored(flight', f) => flight'[f].row = "ended" /\ FlightStored(flight, f)
          /\ \A g \in FlightIds : /\ flight[g].row = "ended" => flight'[g].row = "ended"
                                  /\ FlightStored(flight, g) => FlightStored(flight', g)
      BY <3>0, <3>1, <3>2 DEF FlightStored
    <3> HIDE DEF f
    <3>5. ReportsInOrder' /\ oooi' \in [FlightIds -> SUBSET OooiEvents] /\ lost' \in [FlightIds -> SUBSET OooiEvents]
      BY <3>0, <3>3, <3>4, FilingKeepsOrder
    <3>6. QED BY <3>0, <3>5 DEF ReportsInv
  <2>2. ASSUME NEW f \in FlightIds, InsertFlight(f), NEW tried \in {{}, {"OUT"}, {"OUT", "OFF"}}, File(f, tried)
        PROVE  ReportsInOrder' /\ oooi' \in [FlightIds -> SUBSET OooiEvents] /\ lost' \in [FlightIds -> SUBSET OooiEvents]
    <3>1. \A g \in FlightIds : /\ flight[g].row = "ended" => flight'[g].row = "ended"
                               /\ FlightStored(flight, g) => FlightStored(flight', g)
      BY <2>2, InsertedFlight DEF FlightStored
    <3>2. tried \in SUBSET OooiEvents /\ "IN" \notin tried /\ ("OFF" \in tried => "OUT" \in tried)
      BY DEF OooiEvents
    <3>3. QED BY <2>2, <3>1, <3>2, FilingKeepsOrder
  <2>3. ASSUME StartFlight PROVE ReportsInv'
    <3>1. PICK f \in FlightIds : InsertFlight(f) /\ currentFlightId' = f /\ onEventFiled' = FALSE
                                 /\ File(f, {"OUT", "OFF"})
      BY <2>3 DEF StartFlight
    <3>2. QED BY <2>2, <3>1, InsertedFlight DEF ReportsInv
  <2>4. ASSUME UNCHANGED <<tables, reports>>, state' # "FLYING" \/ UNCHANGED <<state, currentFlightId, onEventFiled>>
        PROVE  ReportsInv'
    BY <2>4 DEF ReportsInv, ReportsInOrder, tables, reports, FlightStored
  <2>5. ASSUME ResumeFlight PROVE ReportsInv'
    BY <2>5 DEF ResumeFlight, ReportsInv, ReportsInOrder, tables, reports, FlightStored, OpenFlights
  <2>6. ASSUME NEW kind \in FrameKinds, NEW p \in Places, Frame(kind, p) PROVE ReportsInv'
    <3>1. CASE ExitFrame
      BY <2>1, <2>4, <3>1 DEF ExitFrame, CloseSessionAndReturnToIdle, ResetGroundTracking, flying
    <3>2. CASE IdleFrame(kind, p)
      BY <2>3, <2>4, <2>5, <3>2 DEF IdleFrame, EnterGround, flying
    <3>3. CASE GroundFrame(kind, p)
      BY <2>3, <2>4, <3>3 DEF GroundFrame, CloseSessionAndReturnToIdle, ResetGroundTracking, flying
    <3>4. CASE FlyingFrame(kind)
      <4>1. CASE EndFlight
        BY <2>1, <3>4, <4>1 DEF FlyingFrame
      <4>2. CASE UNCHANGED <<tables, reports, state, currentFlightId, onEventFiled>>
        BY <2>4, <4>2
      <4>3. ASSUME UNCHANGED <<tables, state, currentFlightId>>, NEW events \in {{}, {"ON"}},
                   File(currentFlightId, events), onEventFiled' => onEventFiled \/ events = {"ON"}
            PROVE  ReportsInv'
        <5>1. InProgress /\ currentFlightId \in FlightIds /\ UNCHANGED flight
          BY <3>4, <4>3 DEF FlyingFrame, ReportsInv, tables
        <5>2. events \in SUBSET OooiEvents /\ "IN" \notin events /\ "OFF" \notin events
          BY DEF OooiEvents
        <5>3. \A g \in FlightIds : /\ flight[g].row = "ended" => flight'[g].row = "ended"
                                   /\ FlightStored(flight, g) => FlightStored(flight', g)
          BY <5>1
        <5>4. ReportsInOrder' /\ oooi' \in [FlightIds -> SUBSET OooiEvents] /\ lost' \in [FlightIds -> SUBSET OooiEvents]
          BY <4>3, <5>1, <5>2, <5>3, FilingKeepsOrder
        <5>5. FlightStored(flight', currentFlightId) =>
                oooi[currentFlightId] \cup lost[currentFlightId] \cup events
                  \subseteq oooi'[currentFlightId] \cup lost'[currentFlightId]
          BY <4>3, <5>1, <5>2, FiledOrLost DEF ReportsInv
        <5>6. onEventFiled' /\ FlightStored(flight', currentFlightId) =>
                "ON" \in oooi'[currentFlightId] \cup lost'[currentFlightId]
          BY <4>3, <5>1, <5>5 DEF ReportsInv
        <5>7. QED BY <4>3, <5>1, <5>4, <5>6 DEF ReportsInv
      <4>4. CASE PointFails
        BY <4>2, <4>4 DEF PointFails
      <4>5. QED BY <3>4, <4>1, <4>2, <4>3, <4>4 DEF FlyingFrame, flying
    <3>5. QED BY <2>6, <3>1, <3>2, <3>3, <3>4 DEF Frame
  <2>7. CASE Crashed \/ Disconnected \/ StaleTimer
    BY <2>1, <2>4, <2>7 DEF Crashed, Disconnected, StaleTimer, MarkDisconnected, OnSimDisconnect,
                            CloseAutoSessionAndReturnToIdle, ResetGroundTracking
  <2>8. CASE ConnectedEvent \/ PauseEvent \/ LegacyPauseEvent \/ GoSilent
    BY <2>4, <2>8 DEF ConnectedEvent, PauseEvent, LegacyPauseEvent, GoSilent, Unmoved, flying
  <2>9. CASE (\E icao \in Airports, l \in LegRef : PostGroundSession(icao, l)) \/ DeleteGroundSession
    BY <2>4, <2>9 DEF PostGroundSession, DeleteGroundSession, RefreshGroundSession, ResetGroundTracking,
                      OperatorStep, flying
  <2>10. CASE (\E f \in FlightIds : LinkRoute(f)) \/ DeleteRoute \/ CombineRoute \/ PlanRoute
    <3>1. ForeignKeys /\ UNCHANGED <<state, currentFlightId, onEventFiled>>
      BY <2>10 DEF LinkRoute, DeleteRoute, CombineRoute, PlanRoute, RouteStep
    <3>2. RowsKept
      BY <2>10, RoutesKeepRows
    <3>3. \A g \in FlightIds : /\ FlightStored(flight', g) => oooi'[g] = oooi[g] /\ lost'[g] = lost[g]
                               /\ ~FlightStored(flight', g) => oooi'[g] = {} /\ lost'[g] = {}
                               /\ flight[g].row = "ended" /\ FlightStored(flight', g) => flight'[g].row = "ended"
      BY <3>1, <3>2 DEF RowsKept, ForeignKeys, FlightStored
    <3>4. oooi' \in [FlightIds -> SUBSET OooiEvents] /\ lost' \in [FlightIds -> SUBSET OooiEvents]
      BY <3>1 DEF ForeignKeys, ReportsInv
    <3>5. InProgress => flight'[currentFlightId].row # "unused" /\ currentFlightId \in FlightIds
                        /\ (FlightStored(flight', currentFlightId) => FlightStored(flight, currentFlightId))
      BY <3>2 DEF RowsKept, ReportsInv, FlightStored
    <3>6. ReportsInOrder'
      BY <3>3 DEF ReportsInv, ReportsInOrder
    <3>7. QED BY <3>1, <3>3, <3>4, <3>5, <3>6 DEF ReportsInv
  <2>11. CASE Death
    <3>1. state' = "IDLE"
      BY <2>11 DEF Death, Kill, KilledTakeoff, KilledLanding, KilledDelete, MemoryLost
    <3>2. CASE Kill
      BY <2>4, <3>1, <3>2 DEF Kill
    <3>3. CASE KilledTakeoff
      <4>1. PICK f \in FlightIds : /\ InsertFlight(f)
                                   /\ \/ UNCHANGED reports
                                      \/ \E tried \in {{}, {"OUT"}, {"OUT", "OFF"}} : File(f, tried)
        BY <3>3 DEF KilledTakeoff
      <4>2. CASE UNCHANGED reports
        BY <3>1, <4>1, <4>2, InsertedFlight DEF ReportsInv, ReportsInOrder, FlightStored, reports
      <4>3. QED BY <2>2, <3>1, <4>1, <4>2 DEF ReportsInv
    <3>4. CASE KilledLanding
      <4>1. currentFlightId \in FlightIds /\ flight[currentFlightId].row = "open"
        BY <3>4 DEF KilledLanding, ReportsInv
      <4>2. /\ \A g \in FlightIds : /\ flight[g].row = "ended" => flight'[g].row = "ended"
                                    /\ FlightStored(flight, g) <=> FlightStored(flight', g)
        BY <3>4, <4>1 DEF KilledLanding, FlightStored, TablesTyped, FlightRow
      <4>3. CASE UNCHANGED reports
        BY <3>1, <4>2, <4>3 DEF ReportsInv, ReportsInOrder, reports
      <4>4. CASE File(currentFlightId, LandingReports \ {"IN"})
        <5>1. /\ LandingReports \ {"IN"} \in SUBSET OooiEvents
              /\ "IN" \notin LandingReports \ {"IN"} /\ "OFF" \notin LandingReports \ {"IN"}
          BY DEF LandingReports, OooiEvents
        <5>2. QED BY <3>1, <4>1, <4>2, <4>4, <5>1, FilingKeepsOrder DEF ReportsInv
      <4>5. QED BY <3>4, <4>3, <4>4 DEF KilledLanding, reports
    <3>5. CASE KilledDelete
      <4>1. \A g \in FlightIds : flight'[g].row = flight[g].row
        BY <3>5 DEF KilledDelete, Logbook!DeleteFlightCut, Logbook!FlightsAfterClear, Logbook!WithoutLink,
                    TablesTyped, FlightRow
      <4>2. QED BY <3>1, <3>5, <4>1 DEF KilledDelete, ReportsInv, ReportsInOrder, FlightStored, reports
    <3>6. QED BY <2>11, <3>2, <3>3, <3>4, <3>5 DEF Death
  <2>12. CASE UNCHANGED vars
    BY <2>4, <2>12 DEF vars, flying
  <2>13. QED BY <2>6, <2>7, <2>8, <2>9, <2>10, <2>11, <2>12 DEF Next, Telemetry, Operator
<1>3. QED BY <1>1, <1>2, TablesAreSound, PTL DEF Spec

\* The reports of a flight keep their order through every crash, restart and
\* deletion: IN comes with the row closed and after ON, OFF after OUT, unless
\* the insert of the earlier one failed, and a deleted flight keeps none.
THEOREM ReportsStayInOrder == Spec => []ReportsInOrder
<1>1. ReportsInv => ReportsInOrder
  BY DEF ReportsInv
<1>2. QED BY <1>1, ReportsInvariant, PTL

----------------------------------------------------------------------------
\* While nothing died there is nothing to resume: rows are opened by a process
\* that has made its boot check.
ParkedInv ==
  /\ InProgress => session = NULL \/ session.source = "manual"
  /\ SessionTyped
  /\ ~openFlightCheckedAtBoot => OpenFlights = {} /\ state = "IDLE"

\* As long as the process lives and its sessions can be closed, an automatic
\* session never outlasts the takeoff: what is open in flight was typed.
THEOREM NoAutoSessionOutlastsTakeoff == Spec => []NoAutoSessionInFlight
<1> DEFINE Inv == kills = 0 /\ ~Fails("sessionClose") => ParkedInv
<1>1. Init => Inv
  BY DEF Init, ParkedInv, SessionTyped, InProgress, OpenFlights, Logbook!Init, Logbook!EmptyFlight
<1>2. TablesTyped /\ LifeTyped /\ Inv /\ [Next]_vars => Inv'
  <2> SUFFICES ASSUME TablesTyped, LifeTyped, Inv, [Next]_vars, kills' = 0, ~Fails("sessionClose")'
               PROVE  ParkedInv'
    OBVIOUS
  <2>a. scenario' = scenario /\ (kills' = kills \/ (Death /\ kills' # 0))
    BY LifeGoesOn
  <2>b. kills = 0 /\ ~Death /\ ~Fails("sessionClose")
    <3>1. ASSUME Death PROVE FALSE
      <4>1. MemoryLost
        BY <3>1 DEF Death, Kill, KilledTakeoff, KilledLanding, KilledDelete
      <4>2. scenario.kills \in Nat
        BY ScenarioAssumption DEF LifeTyped, Scenario
      <4>3. kills \in Nat /\ kills' = kills + 1
        BY <4>1, <4>2 DEF MemoryLost, LifeTyped
      <4>4. QED BY <4>3
    <3>2. QED BY <2>a, <3>1 DEF Fails
  <2>c. ParkedInv /\ kills' = kills
    BY <2>b
  <2> HIDE DEF Inv
  <2> USE <2>b, <2>c
  <2> USE DEF InProgress
  <2>0. SessionTyped'
    BY SessionStaysTyped DEF ParkedInv
  <2>1. ASSUME StartFlight, openFlightCheckedAtBoot', kills' = kills PROVE ParkedInv'
    BY <2>0, <2>1 DEF StartFlight, CloseSessionAtTakeoff, CloseOpenSession, ParkedInv
  <2>2. ASSUME state' # "FLYING" \/ (UNCHANGED session /\ state' = state),
               kills' = kills,
               \/ openFlightCheckedAtBoot'
               \/ /\ openFlightCheckedAtBoot' = openFlightCheckedAtBoot
                  /\ \A f \in FlightIds : flight'[f].row = "open" => flight[f].row = "open"
                  /\ state = "IDLE" => state' = "IDLE"
        PROVE  ParkedInv'
    BY <2>0, <2>2 DEF ParkedInv, OpenFlights
  <2>3. EndFlight => /\ state' = "IDLE" /\ openFlightCheckedAtBoot' = openFlightCheckedAtBoot
                     /\ \A f \in FlightIds : flight'[f].row = "open" => flight[f].row = "open"
    BY DEF EndFlight, TablesTyped, FlightRow, tables
  <2>4. ASSUME NEW kind \in FrameKinds, NEW p \in Places, Frame(kind, p) PROVE ParkedInv'
    <3>1. kills' = kills
      BY <2>4 DEF Frame
    <3>2. CASE ExitFrame
      BY <2>2, <2>3, <3>1, <3>2 DEF ExitFrame, CloseSessionAndReturnToIdle, ResetGroundTracking, tables, ground
    <3>3. CASE IdleFrame(kind, p)
      <4>1. ~ResumeFlight
        BY DEF ResumeFlight, ParkedInv
      <4>2. CASE StartFlight
        BY <2>1, <3>1, <3>3, <4>1, <4>2 DEF IdleFrame
      <4>3. CASE ~StartFlight
        BY <2>2, <3>1, <3>3, <4>1, <4>3 DEF IdleFrame, EnterGround
      <4>4. QED BY <4>2, <4>3
    <3>4. CASE GroundFrame(kind, p)
      <4>1. openFlightCheckedAtBoot
        BY <3>4 DEF GroundFrame, ParkedInv
      <4>2. CASE StartFlight
        BY <2>1, <3>1, <3>4, <4>1, <4>2 DEF GroundFrame, CloseSessionAndReturnToIdle
      <4>3. CASE ~StartFlight
        BY <2>2, <3>1, <3>4, <4>1, <4>3
           DEF GroundFrame, CloseSessionAndReturnToIdle, ResetGroundTracking
      <4>4. QED BY <4>2, <4>3
    <3>5. CASE FlyingFrame(kind)
      BY <2>2, <2>3, <3>1, <3>5 DEF FlyingFrame, PointFails, tables, ground
    <3>6. QED BY <2>4, <3>2, <3>3, <3>4, <3>5 DEF Frame
  <2>5. CASE Crashed \/ Disconnected \/ StaleTimer
    BY <2>2, <2>3, <2>5 DEF Crashed, Disconnected, StaleTimer, MarkDisconnected, OnSimDisconnect,
                            CloseAutoSessionAndReturnToIdle, ResetGroundTracking, tables, ground
  <2>6. CASE ConnectedEvent \/ PauseEvent \/ LegacyPauseEvent \/ GoSilent
    BY <2>2, <2>6 DEF ConnectedEvent, PauseEvent, LegacyPauseEvent, GoSilent, Unmoved, tables, ground
  <2>7. CASE (\E icao \in Airports, l \in LegRef : PostGroundSession(icao, l)) \/ DeleteGroundSession
    <3>1. /\ UNCHANGED <<tables, kills, openFlightCheckedAtBoot>>
          /\ state' = state \/ (state = "GROUND" /\ state' = "IDLE")
      BY <2>7 DEF PostGroundSession, DeleteGroundSession, RefreshGroundSession, ResetGroundTracking, OperatorStep
    <3>2. InProgress => session' = NULL \/ session'.source = "manual"
      BY <2>7 DEF PostGroundSession, DeleteGroundSession, ParkedInv
    <3>3. QED BY <2>0, <3>1, <3>2 DEF ParkedInv, OpenFlights, tables
  <2>8. CASE (\E f \in FlightIds : LinkRoute(f)) \/ DeleteRoute \/ CombineRoute \/ PlanRoute
    <3>1. ForeignKeys /\ UNCHANGED <<state, kills, openFlightCheckedAtBoot>>
      BY <2>8 DEF LinkRoute, DeleteRoute, CombineRoute, PlanRoute, RouteStep
    <3>2. InProgress => session' = NULL \/ session'.source = "manual"
      BY <3>1, ForeignKeysKeepSession DEF ParkedInv, SessionTyped, SessionRow
    <3>3. RowsKept
      BY <2>8, RoutesKeepRows
    <3>4. QED BY <2>0, <3>1, <3>2, <3>3 DEF ParkedInv, OpenFlights, RowsKept
  <2>9. CASE UNCHANGED vars
    BY <2>2, <2>9 DEF vars, tables, ground
  <2>10. QED BY <2>4, <2>5, <2>6, <2>7, <2>8, <2>9 DEF Next, Telemetry, Operator
<1>3. Inv => NoAutoSessionInFlight
  BY DEF ParkedInv, NoAutoSessionInFlight
<1>4. QED BY <1>1, <1>2, <1>3, TablesAreSound, LifeInvariant, PTL DEF Spec

----------------------------------------------------------------------------
\* Flight f holds a leg by the matcher's choice, and the leg is still planned.
AutoPlanned(fl, lg, f) ==
  Linked(fl, f) /\ fl[f].source = "auto" /\ lg[fl[f].leg].status = "planned"

\* No route makes an automatic link, or puts the leg of one back to planned and
\* leaves the link.
LEMMA RoutesPlanNoAutoLink ==
  ASSUME TablesTyped, Coherent(flight, leg),
         (\E f \in FlightIds : LinkRoute(f)) \/ DeleteRoute \/ CombineRoute \/ PlanRoute,
         NEW g \in FlightIds, AutoPlanned(flight', leg', g)
  PROVE  AutoPlanned(flight, leg, g)
<1> USE DEF TablesTyped, AutoPlanned, Linked
<1>0. /\ \A f, h \in FlightIds : flight[f].leg # NULL /\ flight[f].leg = flight[h].leg => f = h
      /\ \A f \in FlightIds : flight[f].leg # NULL => flight[f].leg \in LegIds /\ leg[flight[f].leg].row = "stored"
  BY DEF Coherent, HeldOnce, SitsInLegTrip, FlightRow, LegRef
<1>1. ASSUME flight'[g] = flight[g], leg' = leg PROVE AutoPlanned(flight, leg, g)
  BY <1>1
<1>2. ASSUME NEW f \in FlightIds, f # g, flight'[g] = flight[g], leg' = Logbook!LegsAfterUnlink(flight, leg, f)
      PROVE  AutoPlanned(flight, leg, g)
  BY <1>0, <1>2 DEF Logbook!LegsAfterUnlink, Logbook!Linked
<1>3. ASSUME NEW f \in FlightIds, LinkRoute(f) PROVE AutoPlanned(flight, leg, g)
  <2>1. CASE \E l \in LegIds : Logbook!LinkByHand(f, l)
    <3>1. f = g => flight'[g].source = "manual"
      BY <2>1 DEF Logbook!LinkByHand, Logbook!FlightsAfterLink, Logbook!FlightsAfterUnlink, Logbook!WithLink,
                  Logbook!WithoutLink, FlightRow
    <3>2. f # g => flight'[g] = flight[g]
      BY <2>1 DEF Logbook!LinkByHand, Logbook!FlightsAfterLink, Logbook!FlightsAfterUnlink
    <3>3. QED BY <1>2, <2>1, <3>1, <3>2 DEF Logbook!LinkByHand, Logbook!LegsAfterLink
  <2>2. CASE Logbook!UnlinkByHand(f)
    <3>1. f # g
      BY <2>2 DEF Logbook!UnlinkByHand, Logbook!FlightsAfterUnlink, Logbook!WithoutLink, Logbook!Linked, FlightRow
    <3>2. flight'[g] = flight[g]
      BY <2>2, <3>1 DEF Logbook!UnlinkByHand, Logbook!FlightsAfterUnlink
    <3>3. QED BY <1>2, <2>2, <3>1, <3>2 DEF Logbook!UnlinkByHand
  <2>3. CASE \E t \in TripIds : Logbook!AssignFlight(f, t)
    <3>1. PICK t \in TripIds : Logbook!AssignFlight(f, t)
      BY <2>3
    <3>2. CASE flight[f].leg # NULL /\ leg[flight[f].leg].trip # t
      <4>1. f # g
        BY <3>1, <3>2 DEF Logbook!AssignFlight, Logbook!FlightsAfterAssign, Logbook!FlightsAfterClear,
                          Logbook!WithoutLink, Logbook!Linked, FlightRow
      <4>2. flight'[g] = flight[g]
        BY <3>1, <4>1 DEF Logbook!AssignFlight, Logbook!FlightsAfterAssign, Logbook!FlightsAfterClear
      <4>3. QED BY <1>2, <3>1, <3>2, <4>1, <4>2
                   DEF Logbook!AssignFlight, Logbook!LegsAfterAssign, Logbook!Linked
    <3>3. CASE ~(flight[f].leg # NULL /\ leg[flight[f].leg].trip # t)
      <4>1. leg' = leg /\ flight'[g].leg = flight[g].leg /\ flight'[g].source = flight[g].source
        BY <3>1, <3>3 DEF Logbook!AssignFlight, Logbook!FlightsAfterAssign, Logbook!LegsAfterAssign,
                          Logbook!Linked, FlightRow
      <4>2. QED BY <4>1
    <3>4. QED BY <3>2, <3>3
  <2>4. CASE Logbook!RemoveFlight(f)
    <3>1. f = g => flight'[g].leg = NULL
      BY <2>4 DEF Logbook!RemoveFlight, Logbook!FlightsAfterRemove, Logbook!FlightsAfterClear,
                  Logbook!WithoutLink, Logbook!Linked, FlightRow
    <3>2. f # g => flight'[g] = flight[g]
      BY <2>4 DEF Logbook!RemoveFlight, Logbook!FlightsAfterRemove, Logbook!FlightsAfterClear
    <3>3. QED BY <1>2, <2>4, <3>1, <3>2 DEF Logbook!RemoveFlight
  <2>5. QED BY <1>3, <2>1, <2>2, <2>3, <2>4 DEF LinkRoute
<1>4. CASE DeleteRoute
  <2>1. ASSUME NEW f \in FlightIds, Logbook!DeleteFlight(f) PROVE AutoPlanned(flight, leg, g)
    <3>1. f # g
      BY <2>1 DEF Logbook!DeleteFlight, Logbook!FlightsAfterDelete, Logbook!EmptyFlight
    <3>2. flight'[g] = flight[g]
      BY <2>1, <3>1 DEF Logbook!DeleteFlight, Logbook!FlightsAfterDelete
    <3>3. QED BY <1>2, <2>1, <3>1, <3>2 DEF Logbook!DeleteFlight
  <2>2. ASSUME NEW l \in LegIds, Logbook!DeleteLeg(l) PROVE AutoPlanned(flight, leg, g)
    <3>1. flight[g].leg # l
      BY <2>2 DEF Logbook!DeleteLeg, Logbook!FlightsAfterLegDelete, Logbook!WithoutLink, FlightRow
    <3>2. flight'[g] = flight[g]
      BY <2>2, <3>1 DEF Logbook!DeleteLeg, Logbook!FlightsAfterLegDelete
    <3>3. QED BY <1>0, <2>2, <3>1, <3>2 DEF Logbook!DeleteLeg
  <2>3. ASSUME NEW t \in TripIds, Logbook!DeleteTrip(t) PROVE AutoPlanned(flight, leg, g)
    <3>1. flight[g].leg # NULL => leg[flight[g].leg].trip # t
      BY <2>3 DEF Logbook!DeleteTrip, Logbook!FlightsAfterTripDelete, Logbook!WithoutLink, Logbook!Linked, FlightRow
    <3>2. flight'[g] = flight[g]
      BY <2>3, <3>1 DEF Logbook!DeleteTrip, Logbook!FlightsAfterTripDelete, Logbook!Linked
    <3>3. QED BY <1>0, <2>3, <3>1, <3>2 DEF Logbook!DeleteTrip, Logbook!LegsAfterTripDelete
  <2>4. QED BY <1>4, <2>1, <2>2, <2>3 DEF DeleteRoute
<1>5. CASE CombineRoute
  <2>1. PICK a, b, n \in FlightIds : Logbook!CombineFlights(a, b, n)
    BY <1>5 DEF CombineRoute
  <2>2. g \notin {a, b, n}
    BY <2>1 DEF Logbook!CombineFlights, Logbook!FlightsAfterDelete, Logbook!EmptyFlight
  <2>3. flight'[g] = flight[g]
    BY <2>1, <2>2 DEF Logbook!CombineFlights, Logbook!FlightsAfterDelete
  <2>4. leg'[flight[g].leg] = leg[flight[g].leg]
    BY <1>0, <2>1, <2>2, <2>3 DEF Logbook!CombineFlights, Logbook!LegsAfterUnlink, Logbook!Linked
  <2>5. QED BY <2>3, <2>4
<1>6. CASE PlanRoute
  <2>0. flight' = flight
    BY <1>6 DEF PlanRoute, Logbook!HandClose, Logbook!CreateLeg, Logbook!SetStatus, Logbook!CreateTrip,
                Logbook!SetActiveTrip
  <2>1. ASSUME NEW f \in FlightIds, NEW requested \in {"planned", "flown"}, NEW measured \in BOOLEAN,
               Logbook!HandClose(f, requested, measured)
        PROVE  AutoPlanned(flight, leg, g)
    <3>1. flight[g].leg # flight[f].leg
      BY <1>0, <2>0, <2>1 DEF Logbook!HandClose, Logbook!HandCloseAllowed, Logbook!Linked
    <3>2. QED BY <1>0, <2>0, <2>1, <3>1 DEF Logbook!HandClose
  <2>2. ASSUME NEW l \in LegIds, NEW t \in TripRef, Logbook!CreateLeg(l, t) PROVE AutoPlanned(flight, leg, g)
    <3>1. flight[g].leg # l
      BY <1>0, <2>0, <2>2 DEF Logbook!CreateLeg
    <3>2. QED BY <1>0, <2>0, <2>2, <3>1 DEF Logbook!CreateLeg
  <2>3. ASSUME NEW l \in LegIds, NEW x \in {"planned", "skipped"}, Logbook!SetStatus(l, x)
        PROVE  AutoPlanned(flight, leg, g)
    <3>1. flight[g].leg # l
      BY <2>3 DEF Logbook!SetStatus, Logbook!Holders
    <3>2. QED BY <1>0, <2>0, <2>3, <3>1 DEF Logbook!SetStatus
  <2>4. CASE leg' = leg
    BY <1>1, <2>0, <2>4
  <2>5. QED BY <1>6, <2>1, <2>2, <2>3, <2>4 DEF PlanRoute, Logbook!CreateTrip, Logbook!SetActiveTrip
<1>7. QED BY <1>3, <1>4, <1>5, <1>6

\* While nothing died and every arrival is written, the flight in progress is
\* open or was deleted, and every automatic link to a planned leg is its link.
TrackInv ==
  /\ InProgress => /\ currentFlightId \in FlightIds
                   /\ flight[currentFlightId].row \in {"open", "deleted"}
  /\ \A f \in FlightIds : AutoPlanned(flight, leg, f) => InProgress /\ f = currentFlightId

\* The recorder's leg is the one the tables hold, and, as long as the process
\* lives and its arrivals are written, the automatic link of a leg that is not
\* closed yet is always its own: the operator's routes neither lose nor leave one.
THEOREM RecorderTracksItsLinks == Spec => []LinksAreTracked
<1> DEFINE Inv == kills = 0 /\ ~Fails("arrival") => TrackInv
<1>1. Init => Inv
  BY DEF Init, Logbook!Init, Logbook!EmptyFlight, TrackInv, AutoPlanned, Linked, InProgress
<1>2. TablesTyped /\ Coherent(flight, leg) /\ LifeTyped /\ Inv /\ [Next]_vars => Inv'
  <2> SUFFICES ASSUME TablesTyped, Coherent(flight, leg), LifeTyped, Inv, [Next]_vars, kills' = 0,
                      ~Fails("arrival")'
               PROVE  TrackInv'
    OBVIOUS
  <2>a. scenario' = scenario /\ (kills' = kills \/ (Death /\ kills' # 0))
    BY LifeGoesOn
  <2>b. kills = 0 /\ ~Death /\ ~Fails("arrival")
    <3>1. ASSUME Death PROVE FALSE
      <4>1. MemoryLost
        BY <3>1 DEF Death, Kill, KilledTakeoff, KilledLanding, KilledDelete
      <4>2. scenario.kills \in Nat
        BY ScenarioAssumption DEF LifeTyped, Scenario
      <4>3. kills \in Nat /\ kills' = kills + 1
        BY <4>1, <4>2 DEF MemoryLost, LifeTyped
      <4>4. QED BY <4>3
    <3>2. QED BY <2>a, <3>1 DEF Fails
  <2>c. TrackInv
    BY <2>b
  <2> HIDE DEF Inv
  <2> USE <2>b, <2>c
  <2> USE DEF InProgress
  <2>1. ASSUME InProgress, EndFlight PROVE TrackInv'
    <3> DEFINE f == currentFlightId
    <3>0. f \in FlightIds /\ flight[f].row \in {"open", "deleted"} /\ state' = "IDLE"
      BY <2>1 DEF TrackInv, EndFlight
    <3>1. CASE flight[f].row = "deleted"
      <4>1. ~AutoPlanned(flight, leg, f)
        BY <3>0, <3>1 DEF AutoPlanned, Coherent, SitsInLegTrip, FlightStored
      <4>2. UNCHANGED tables
        BY <2>1, <3>1 DEF EndFlight
      <4>3. QED BY <2>1, <3>0, <4>1, <4>2 DEF TrackInv, tables, AutoPlanned, Linked
    <3>2. CASE flight[f].row = "open"
      <4>1. PICK outcome \in ClosedStatus : leg' = LegsAfterArrival(flight, leg, f, outcome)
        BY <2>1, <3>2 DEF EndFlight, RecordArrival
      <4>2. \A g \in FlightIds : flight'[g].leg = flight[g].leg /\ flight'[g].source = flight[g].source
        BY <2>1, <3>0, <3>2 DEF EndFlight, TablesTyped, FlightRow
      <4>3. ASSUME NEW g \in FlightIds, AutoPlanned(flight', leg', g) PROVE FALSE
        <5>1. flight[g].leg \in LegIds /\ flight[g].source = "auto" /\ leg'[flight[g].leg].status = "planned"
          BY <4>2, <4>3 DEF AutoPlanned, Linked, TablesTyped, FlightRow, LegRef
        <5>2. flight[g].leg # flight[f].leg \/ ~Linked(flight, f)
          BY <3>0, <4>1, <5>1 DEF LegsAfterArrival, ClosedStatus, TablesTyped, LegRow
        <5>3. leg'[flight[g].leg] = leg[flight[g].leg]
          BY <4>1, <5>1, <5>2 DEF LegsAfterArrival
        <5>4. AutoPlanned(flight, leg, g) /\ g # f
          BY <4>2, <4>3, <5>1, <5>2, <5>3 DEF AutoPlanned, Linked
        <5>5. QED BY <5>4 DEF TrackInv
      <4>4. QED BY <2>1, <3>0, <4>3 DEF TrackInv
    <3>3. QED BY <3>0, <3>1, <3>2
  <2>2. ASSUME state # "FLYING", StartFlight PROVE TrackInv'
    <3>1. PICK f \in FlightIds : /\ InsertFlight(f)
                                 /\ currentFlightId' = f /\ state' = "FLYING"
      BY <2>2 DEF StartFlight
    <3>2. \A g \in FlightIds \ {f} : ~AutoPlanned(flight', leg', g)
      BY <2>2, <3>1, InsertedFlight DEF TrackInv, AutoPlanned, Linked
    <3>3. QED BY <2>2, <3>1, <3>2, InsertedFlight DEF TrackInv
  <2>3. ASSUME state = "IDLE", ResumeFlight PROVE TrackInv'
    BY <2>3 DEF ResumeFlight, TrackInv, OpenFlights, tables, AutoPlanned, Linked
  <2>4. ASSUME UNCHANGED <<tables, currentFlightId>>,
               state' = state \/ (state # "FLYING" /\ state' # "FLYING")
        PROVE  TrackInv'
    BY <2>4 DEF TrackInv, tables, AutoPlanned, Linked
  <2>5. ASSUME NEW kind \in FrameKinds, NEW p \in Places, Frame(kind, p) PROVE TrackInv'
    <3>1. CASE ExitFrame
      BY <2>1, <2>4, <3>1 DEF ExitFrame, CloseSessionAndReturnToIdle, ResetGroundTracking, flying
    <3>2. CASE IdleFrame(kind, p)
      BY <2>2, <2>3, <2>4, <3>2 DEF IdleFrame, EnterGround, flying
    <3>3. CASE GroundFrame(kind, p)
      BY <2>2, <2>4, <3>3 DEF GroundFrame, CloseSessionAndReturnToIdle, ResetGroundTracking, flying
    <3>4. CASE FlyingFrame(kind)
      BY <2>1, <2>4, <3>4 DEF FlyingFrame, PointFails, flying
    <3>5. QED BY <2>5, <3>1, <3>2, <3>3, <3>4 DEF Frame
  <2>6. CASE Crashed \/ Disconnected \/ StaleTimer
    BY <2>1, <2>4, <2>6 DEF Crashed, Disconnected, StaleTimer, MarkDisconnected, OnSimDisconnect,
                            CloseAutoSessionAndReturnToIdle, ResetGroundTracking, flying
  <2>7. CASE ConnectedEvent \/ PauseEvent \/ LegacyPauseEvent \/ GoSilent
    BY <2>4, <2>7 DEF ConnectedEvent, PauseEvent, LegacyPauseEvent, GoSilent, Unmoved, flying
  <2>8. CASE (\E icao \in Airports, l \in LegRef : PostGroundSession(icao, l)) \/ DeleteGroundSession
    BY <2>4, <2>8 DEF PostGroundSession, DeleteGroundSession, RefreshGroundSession, ResetGroundTracking,
                      OperatorStep, flying
  <2>9. CASE (\E f \in FlightIds : LinkRoute(f)) \/ DeleteRoute \/ CombineRoute \/ PlanRoute
    <3>1. UNCHANGED <<state, currentFlightId>>
      BY <2>9 DEF LinkRoute, DeleteRoute, CombineRoute, PlanRoute, RouteStep
    <3>2. RowsKept
      BY <2>9, RoutesKeepRows
    <3>3. \A g \in FlightIds : AutoPlanned(flight', leg', g) => AutoPlanned(flight, leg, g)
      BY <2>9, RoutesPlanNoAutoLink
    <3>4. InProgress => flight'[currentFlightId].row \in {"open", "deleted"}
      BY <3>2 DEF RowsKept, TrackInv
    <3>5. QED BY <3>1, <3>3, <3>4 DEF TrackInv
  <2>10. CASE UNCHANGED vars
    BY <2>4, <2>10 DEF vars, flying
  <2>11. QED BY <2>5, <2>6, <2>7, <2>8, <2>9, <2>10 DEF Next, Telemetry, Operator
<1>3. Inv => PlannedAutoLinkIsInFlight
  BY DEF TrackInv, PlannedAutoLinkIsInFlight, AutoPlanned
<1>4. Spec => []PlannedAutoLinkIsInFlight
  BY <1>1, <1>2, <1>3, TablesAreSound, LifeInvariant, PTL DEF Spec
<1>5. QED BY <1>4, CachedLegMatchesRow, PTL DEF LinksAreTracked

----------------------------------------------------------------------------
\* The memory of the state machine: what it points at is of its kind.
MemoryTyped ==
  /\ state \in {"IDLE", "GROUND", "FLYING"}
  /\ InProgress => currentFlightId \in FlightIds
  /\ currentFlightId \in FlightRef
  /\ plannedLegCache \in LegRef /\ legRead \in {"ok", "blank", "stale"}
  /\ groundSessionCache \in SessionRow \cup {NULL}
  /\ groundAnchor \in Places \cup {NULL}

\* A step keeps what the manager remembers within its tables.
LEMMA MemoryStaysTyped ==
  TablesTyped /\ TablesTyped' /\ SessionTyped /\ SessionTyped' /\ MemoryTyped /\ [Next]_vars => MemoryTyped'
<1> SUFFICES ASSUME TablesTyped, TablesTyped', SessionTyped, SessionTyped', MemoryTyped, [Next]_vars
             PROVE  MemoryTyped'
  OBVIOUS
<1> USE DEF MemoryTyped, InProgress, cached
<1>0. /\ \A f \in FlightIds : flight[f].leg \in LegRef
      /\ \A f \in FlightIds : flight'[f].leg \in LegRef
  BY DEF TablesTyped, FlightRow
<1>1. ASSUME UNCHANGED <<state, currentFlightId, cached, groundSessionCache, groundAnchor>>
      PROVE  MemoryTyped'
  BY <1>1
<1>2. EndFlight => MemoryTyped'
  BY DEF EndFlight, ground, FlightRef, LegRef
<1>3. StartFlight => MemoryTyped'
  BY <1>0 DEF StartFlight, ReadLeg, FlightRef, LegRef
<1>4. ResumeFlight => MemoryTyped'
  BY <1>0 DEF ResumeFlight, ReadLeg, OpenFlights, FlightRef, LegRef
<1>5. ASSUME NEW p \in Places, EnterGround(p), UNCHANGED flying PROVE MemoryTyped'
  BY <1>5 DEF EnterGround, SessionTyped, flying
<1>6. ASSUME ResetGroundTracking, UNCHANGED flying PROVE MemoryTyped'
  BY <1>6 DEF ResetGroundTracking, flying
<1>7. ASSUME RefreshGroundSession, UNCHANGED flying PROVE MemoryTyped'
  BY <1>6, <1>7 DEF RefreshGroundSession, SessionTyped, flying
<1>8. ASSUME NEW kind \in FrameKinds, NEW p \in Places, Frame(kind, p) PROVE MemoryTyped'
  <2>1. CASE ExitFrame
    BY <1>1, <1>2, <1>6, <2>1 DEF ExitFrame, CloseSessionAndReturnToIdle, ground, flying
  <2>2. CASE IdleFrame(kind, p)
    BY <1>1, <1>3, <1>4, <1>5, <2>2 DEF IdleFrame, flying
  <2>3. CASE GroundFrame(kind, p)
    BY <1>1, <1>3, <1>6, <2>3 DEF GroundFrame, CloseSessionAndReturnToIdle, ground, flying
  <2>4. CASE FlyingFrame(kind)
    BY <1>1, <1>2, <2>4 DEF FlyingFrame, PointFails, ground, flying
  <2>5. QED BY <1>8, <2>1, <2>2, <2>3, <2>4 DEF Frame
<1>9. CASE Crashed \/ Disconnected \/ StaleTimer
  BY <1>1, <1>2, <1>6, <1>9 DEF Crashed, Disconnected, StaleTimer, MarkDisconnected, OnSimDisconnect,
                                CloseAutoSessionAndReturnToIdle, ground, flying
<1>10. CASE ConnectedEvent \/ PauseEvent \/ LegacyPauseEvent \/ GoSilent
  BY <1>1, <1>10 DEF ConnectedEvent, PauseEvent, LegacyPauseEvent, GoSilent, Unmoved, ground, flying
<1>11. CASE (\E icao \in Airports, l \in LegRef : PostGroundSession(icao, l)) \/ DeleteGroundSession
  BY <1>7, <1>11 DEF PostGroundSession, DeleteGroundSession, OperatorStep
<1>12. CASE (\E f \in FlightIds : LinkRoute(f)) \/ DeleteRoute \/ CombineRoute \/ PlanRoute
  <2>1. UNCHANGED <<state, currentFlightId, groundSessionCache, groundAnchor>>
    BY <1>12 DEF LinkRoute, DeleteRoute, CombineRoute, PlanRoute, RouteStep
  <2>2. /\ \/ plannedLegCache' = plannedLegCache
           \/ \E f \in FlightIds : plannedLegCache' = flight'[f].leg
        /\ legRead' \in {legRead, "ok", "stale"}
    <3>1. ASSUME currentFlightId \in FlightIds, RefreshLeg
          PROVE  /\ \/ plannedLegCache' = plannedLegCache
                    \/ \E f \in FlightIds : plannedLegCache' = flight'[f].leg
                 /\ legRead' \in {legRead, "ok", "stale"}
      BY <3>1 DEF RefreshLeg
    <3>2. CASE \E f \in FlightIds : LinkRoute(f)
      BY <3>1, <3>2 DEF LinkRoute, Refreshed
    <3>3. CASE DeleteRoute
      BY <3>1, <3>3 DEF DeleteRoute, RefreshedAfterDelete, FlightRef
    <3>4. CASE CombineRoute \/ PlanRoute
      BY <3>4 DEF CombineRoute, PlanRoute
    <3>5. QED BY <1>12, <3>2, <3>3, <3>4
  <2>3. QED BY <1>0, <2>1, <2>2
<1>13. CASE Death
  BY <1>13 DEF Death, Kill, KilledTakeoff, KilledLanding, KilledDelete, MemoryLost, FlightRef, LegRef
<1>14. CASE UNCHANGED vars
  BY <1>1, <1>14 DEF vars, ground, flying
<1>15. QED BY <1>8, <1>9, <1>10, <1>11, <1>12, <1>13, <1>14 DEF Next, Telemetry, Operator

\* A streak never passes its debounce: the frame that would take it there acts.
StreaksBounded ==
  /\ airborneStreak \in 0 .. AirborneFrames
  /\ groundStreak \in 0 .. ParkedFrames
  /\ landedStreak \in 0 .. LandedFrames

\* A step keeps them there.
LEMMA StreaksStayBounded == StreaksBounded /\ [Next]_vars => StreaksBounded'
<1> SUFFICES ASSUME StreaksBounded, [Next]_vars PROVE StreaksBounded'
  OBVIOUS
<1> USE DebounceAssumption DEF StreaksBounded
<1>1. ASSUME airborneStreak' \in {0, airborneStreak}, groundStreak' \in {0, groundStreak},
             landedStreak' \in {0, landedStreak}
      PROVE  StreaksBounded'
  BY <1>1
<1>2. EndFlight => StreaksBounded'
  BY <1>1 DEF EndFlight, ground
<1>3. StartFlight => StreaksBounded'
  BY <1>1 DEF StartFlight
<1>4. ResumeFlight => StreaksBounded'
  BY <1>1 DEF ResumeFlight
<1>5. ASSUME NEW kind \in FrameKinds, CountAirborne(kind), ~Debounced(kind)
      PROVE  airborneStreak' \in 0 .. AirborneFrames
  BY <1>5 DEF CountAirborne, Debounced
<1>6. ASSUME NEW kind \in FrameKinds, NEW p \in Places, Frame(kind, p) PROVE StreaksBounded'
  <2>1. CASE ExitFrame
    BY <1>1, <1>2, <2>1 DEF ExitFrame, CloseSessionAndReturnToIdle, ResetGroundTracking, ground, flying
  <2>2. CASE IdleFrame(kind, p)
    <3>1. CASE ResumeFlight \/ StartFlight
      BY <1>3, <1>4, <3>1
    <3>2. CASE ~(ResumeFlight \/ StartFlight)
      <4>1. CountAirborne(kind) /\ ~Debounced(kind) /\ landedStreak' = landedStreak
        BY <2>2, <3>2 DEF IdleFrame, flying
      <4>2. groundStreak' \in 0 .. ParkedFrames
        BY <2>2, <3>2 DEF IdleFrame, EnterGround
      <4>3. QED BY <1>5, <4>1, <4>2
    <3>3. QED BY <3>1, <3>2
  <2>3. CASE GroundFrame(kind, p)
    <3>1. CASE CloseSessionAndReturnToIdle \/ StartFlight
      BY <1>1, <1>3, <3>1 DEF CloseSessionAndReturnToIdle, ResetGroundTracking, flying
    <3>2. CASE ~(CloseSessionAndReturnToIdle \/ StartFlight)
      BY <1>5, <2>3, <3>2 DEF GroundFrame, ground, flying
    <3>3. QED BY <3>1, <3>2
  <2>4. CASE FlyingFrame(kind)
    <3>1. CASE EndFlight
      BY <1>2, <3>1
    <3>2. CASE ~EndFlight
      <4>1. airborneStreak' = airborneStreak /\ groundStreak' = groundStreak
        BY <2>4, <3>2 DEF FlyingFrame, PointFails, ground
      <4>2. landedStreak' \in 0 .. LandedFrames
        BY <2>4, <3>2 DEF FlyingFrame, PointFails, LandingDebounced, flying
      <4>3. QED BY <4>1, <4>2
    <3>3. QED BY <3>1, <3>2
  <2>5. QED BY <1>6, <2>1, <2>2, <2>3, <2>4 DEF Frame
<1>7. CASE Crashed \/ Disconnected \/ StaleTimer
  BY <1>1, <1>2, <1>7 DEF Crashed, Disconnected, StaleTimer, MarkDisconnected, OnSimDisconnect,
                          CloseAutoSessionAndReturnToIdle, ResetGroundTracking, ground, flying
<1>8. CASE ConnectedEvent \/ PauseEvent \/ LegacyPauseEvent \/ GoSilent
  BY <1>1, <1>8 DEF ConnectedEvent, PauseEvent, LegacyPauseEvent, GoSilent, Unmoved, ground, flying
<1>9. CASE Operator
  BY <1>1, <1>9 DEF Operator, PostGroundSession, DeleteGroundSession, RefreshGroundSession,
                    ResetGroundTracking, OperatorStep, LinkRoute, DeleteRoute, CombineRoute, PlanRoute,
                    RouteStep, flying
<1>10. CASE Death
  BY <1>1, <1>10 DEF Death, Kill, KilledTakeoff, KilledLanding, KilledDelete, MemoryLost
<1>11. CASE UNCHANGED vars
  BY <1>1, <1>11 DEF vars, ground, flying
<1>12. QED BY <1>6, <1>7, <1>8, <1>9, <1>10, <1>11 DEF Next, Telemetry

FlagsTyped ==
  /\ overdue \in BOOLEAN /\ onEventFiled \in BOOLEAN /\ isPaused \in BOOLEAN
  /\ openFlightCheckedAtBoot \in BOOLEAN /\ connected \in BOOLEAN /\ silent \in BOOLEAN

\* A step keeps them truth values.
LEMMA FlagsStayTyped == FlagsTyped /\ [Next]_vars => FlagsTyped'
<1> SUFFICES ASSUME FlagsTyped, [Next]_vars PROVE FlagsTyped'
  OBVIOUS
<1> USE DEF FlagsTyped
<1>1. ASSUME overdue' \in BOOLEAN, onEventFiled' \in BOOLEAN, openFlightCheckedAtBoot' \in BOOLEAN,
             connected' \in BOOLEAN, silent' \in BOOLEAN, isPaused' \in BOOLEAN
      PROVE  FlagsTyped'
  BY <1>1
<1>2. ASSUME NEW kind \in FrameKinds, NEW p \in Places, Frame(kind, p) PROVE FlagsTyped'
  <2>1. connected' \in BOOLEAN /\ silent' \in BOOLEAN /\ isPaused' \in BOOLEAN
    BY <1>2 DEF Frame, MarkConnected
  <2>2. overdue' \in BOOLEAN /\ onEventFiled' \in BOOLEAN /\ openFlightCheckedAtBoot' \in BOOLEAN
    <3>1. CASE ExitFrame
      BY <3>1 DEF ExitFrame, EndFlight, CloseSessionAndReturnToIdle, flying
    <3>2. CASE IdleFrame(kind, p)
      BY <3>2 DEF IdleFrame, ResumeFlight, StartFlight, flying
    <3>3. CASE GroundFrame(kind, p)
      BY <3>3 DEF GroundFrame, StartFlight, CloseSessionAndReturnToIdle, flying
    <3>4. CASE FlyingFrame(kind)
      BY <3>4 DEF FlyingFrame, EndFlight, PointFails, flying
    <3>5. QED BY <1>2, <3>1, <3>2, <3>3, <3>4 DEF Frame
  <2>3. QED BY <1>1, <2>1, <2>2
<1>3. CASE Crashed \/ Disconnected \/ StaleTimer
  BY <1>3 DEF Crashed, Disconnected, StaleTimer, MarkDisconnected, OnSimDisconnect, EndFlight,
              CloseAutoSessionAndReturnToIdle, flying, agent
<1>4. CASE ConnectedEvent \/ PauseEvent \/ LegacyPauseEvent \/ GoSilent
  BY <1>4 DEF ConnectedEvent, PauseEvent, LegacyPauseEvent, GoSilent, MarkConnected, Unmoved, flying, agent
<1>5. CASE Operator
  BY <1>5 DEF Operator, PostGroundSession, DeleteGroundSession, OperatorStep, LinkRoute, DeleteRoute,
              CombineRoute, PlanRoute, RouteStep, flying, agent
<1>6. CASE Death
  BY <1>6 DEF Death, Kill, KilledTakeoff, KilledLanding, KilledDelete, MemoryLost
<1>7. CASE UNCHANGED vars
  BY <1>7 DEF vars, flying, agent
<1>8. QED BY <1>2, <1>3, <1>4, <1>5, <1>6, <1>7 DEF Next, Telemetry

\* Every variable of the recorder keeps its type through deaths and caught errors.
THEOREM RecorderTypeOK == Spec => []TypeOK
<1>1. TablesTyped => Logbook!TypeOK
  BY DEF Logbook!TypeOK, TablesTyped, Logbook!FlightRow, FlightRow, Logbook!TripRef, TripRef, Logbook!LegRef,
         LegRef, Logbook!LinkSource, LinkSource, Logbook!LegRow, LegRow, Logbook!LegStatus, LegStatus,
         Logbook!TripRow, TripRow
<1>2. Init => MemoryTyped /\ StreaksBounded /\ FlagsTyped /\ SessionTyped
  <2> SUFFICES ASSUME Init PROVE MemoryTyped /\ StreaksBounded /\ FlagsTyped /\ SessionTyped
    OBVIOUS
  <2>1. MemoryTyped /\ SessionTyped
    BY DEF Init, InProgress, FlightRef, LegRef, MemoryTyped, SessionTyped
  <2>2. StreaksBounded
    BY DebounceAssumption DEF Init, StreaksBounded
  <2>3. FlagsTyped
    BY DEF Init, FlagsTyped
  <2>4. QED BY <2>1, <2>2, <2>3
<1>3. Spec => []SessionTyped
  BY <1>2, SessionStaysTyped, PTL DEF Spec
<1>4. Spec => [](MemoryTyped /\ StreaksBounded /\ FlagsTyped)
  BY <1>2, <1>3, TablesAreSound, MemoryStaysTyped, StreaksStayBounded, FlagsStayTyped, PTL DEF Spec
<1>5. TablesTyped /\ SessionTyped /\ ReportsInv /\ MemoryTyped /\ StreaksBounded /\ FlagsTyped /\ LifeTyped => TypeOK
  BY <1>1 DEF TypeOK, SessionTyped, ReportsInv, MemoryTyped, StreaksBounded, FlagsTyped, LifeTyped
<1>6. QED BY <1>3, <1>4, <1>5, TablesAreSound, ReportsInvariant, LifeInvariant, PTL
============================================================================
