# Sabiá (msfslogger) in TLA+

A verification project for this repository: TLA+ modules translated from its source, the TLC
configurations that check them on small instances, and proofs checked by TLAPS. Paths are
relative to the repository (`src/...` is its server code, called `src/src/...` in the maps of
`PROJECT.json`; `client/src/...` is the browser's).

Contents: [the system](#the-system) · [modules](#modules-and-how-they-correspond-to-the-code) ·
[runs and bounds](#runs) · [properties](#properties) · [fairness](#fairness) · [proofs](#proofs) ·
[where the code and its words part](#where-the-code-and-its-words-part) ·
[not modelled](#not-modelled) · [what could follow](#what-could-follow)

## The system

One Node process with one SQLite file. An agent beside the flight simulator posts frames; the
server records flights from them, and an operator plans trips and legs in a browser while that
goes on. Handlers run to their end unless they `await`, so concurrency is of four kinds:
handlers interleave at their awaits, operator and agent requests interleave between frames,
timers fire in between, and the process can die between any two statements that are not in one
SQL transaction. What is in memory is then lost and what is in the tables stays. The browser
adds its own: timers, probes and fetches whose answers arrive in any order.

| Component | State | Operations | Hard part | What makes it correct |
|---|---|---|---|---|
| **Trip planner** (`db/plannedLegs.ts`, `db/trips.ts`, `db/flights.ts`, `plannedLegClose.ts`, their routes) | `flights`, `planned_legs`, `trips` | link, unlink, re-target, record arrival, close and reopen by hand, delete, combine, assign, activate | long sequences of legal calls over three tables; deaths between transactions | a leg is held once; a linked flight is shown in its leg's trip and goes home when the link ends; a closed leg has a landed flight |
| **Flight recorder** (`flightManager.ts`, `groundState.ts`) | IDLE / GROUND / FLYING, debounce counters, the flight in progress, caches, flight time | a frame, a pause, a crash, a disconnect; refreshes called by the routes | everything in memory doubles something in the tables; restart | one open flight; memory agrees with the tables; reports in order; no pause counts as flight time |
| **Telemetry ingest, traffic** (`ingest.ts`, `trafficStore.ts`) | `connected`, time of the last frame, last batch of aircraft | frame, event, traffic, stale timer | the agent may vanish without a word; staleness is lazy | silence ends tracking; a batch is kept whole or not at all |
| **Ground sessions** (`db/groundSessions.ts`, its routes) | rows of `ground_sessions`: values, who put each there, stand | open, fill gaps, replace by hand, close | typed by the operator against found by the machine; foreign keys | what was typed survives; one open session; history is not rewritten |
| **Import of legs** (`routes/plannedLegs.ts`, `lnmpln.ts`, `simbriefImport.ts`) | legs of a trip with their order | batch of files, SimBrief fetch, move, reorder | a batch is one transaction per leg and may be cut; a fetch waits | order is total; route order survives a retry; nothing is there twice unasked |
| **ACARS thread** (`acars.ts`, `acarsEvents.ts`, `db/acarsMessages.ts`, `routes/acars.ts`, `weatherClient.ts`) | `acars_messages`, weather cache | OOOI and position reports, weather, clearance, dispatch, load sheet | replies after an await; the sender's page merges answers, hints and refetches | a reply answers its request; the page ends with every row; figures add up and fit |
| **SayIntentions** (`routes/sayIntentions.ts`, its tables and client) | one link row per flight with its cursor | link, unlink, import, push a clearance | the row is read before an await and written after it | no entry is skipped or counted twice |
| **Navdata** (`routes/navdataSync.ts`, `navdata/*.ts`) | `navdata.db`, its handle, the hold, requests by hand | snapshot, batch, query, demand, route geometry | an upload of many ticks against batches; column merge; airways with gaps | an acknowledged row is lost on no path but the one below; a batch only adds; what is drawn and what is asked for agree |
| **Live events** (`eventHub.ts`, `routes/events.ts`, the client's provider) | subscriptions, pending publishes, one tab's timers | publish, deferred publish, subscribe, probe, refetch | payloads are built at the flush; slow consumers; a tab that is hidden | one way back; slots come back; the tab ends at the latest state |
| **Sign-in and access** (`auth/*.ts`, `server.ts`) | sessions, login throttle | login, logout, check, purge | two clocks with windows; the order of the gates | the throttle neither locks for ever nor forgets; one gate decides |
| **Start-up** (`db/schema.ts`, `config.ts`, `auth/account.ts`) | the schema, the environment, the account | upgrade of any older file, start | a death between any two statements of an upgrade | up means complete; rows survive |
| **Views of flights** (`db/flights.ts`, `journey.ts`, `kmlExport.ts`, the client's replay and maps) | derived, a replay's clock, a map's requests | combine, statistics, search, journey, export, replay | boundaries, gaps, the dateline; frames and fetches of the browser | nothing is counted twice, nothing is lost; what is shown is what was recorded |
| **MCP tools** (`mcp/*.ts`) | none of their own | the routes' functions, cut to size | limits, and errors that must have changed nothing | what is cut is told; a failed tool changed nothing |
| **PDF of a flight, PDF export, backup** | files | attach, copy, remove | files beside rows; rendering, I/O | |

How they interact: `ingest.ts` calls FlightManager for every frame and event; FlightManager
calls the statements of `db/` and files reports; the routes and MCP tools call the same
statements and then FlightManager's two refreshes (`refreshPlannedLegForFlight`,
`refreshGroundSession`) so that its caches follow; `GET /api/status` reads those caches; every
write publishes through the event hub, whose streams tell tabs to refetch. The SayIntentions
routes share `acars_messages` with the recorder and the flight row with the planner. The
navdata replica is a file of its own and shares nothing with the logbook; route geometry reads it
for the map and the demand reads it for the sidecar.

## Modules and how they correspond to the code

`PROJECT.json` maps each definition to its lines. Names are the code's where TLA+ allows it.

State machines:

| Module | Models |
|---|---|
| `LogbookRows`, `Logbook` | The three tables: the planner's SQL as functions from tables to tables, and one action per route or tool that writes them, with the death between the two transactions of a deletion. |
| `TripMembership` | Abstract: a flight has a home trip and may be lent to the trip of the leg it holds. `Logbook` implements it: `home` is `planned_leg_prev_trip_id` while a link exists, `trip_id` otherwise. Whatever takes the leg back (`Release`), exchanges it (`Take`) or deletes it (`Drop`) sends the flight home; another home comes from a move by hand (`Move`, `db/trips.ts:134-151`) or from a `deleteFlight()` that dies between its two transactions (`Strand`) alone, and `ImplementsMembership` says which operation is which step. |
| `FlightManager` | Composes recorder, ingest, the one open ground session, the OOOI reports and the routes over the tables of `Logbook`. `Frame(kind, p)` is the whole of `onFrame()` for a frame of one of the kinds the code tells apart. A behaviour plays one member of `Scenarios`: which caught errors may occur, how many deaths, and which rows and events it has. |
| `FlightClock` | Flight time, points, pauses and position reports of one flight against the wall clock, over restarts. |
| `GroundSessions` | Every row of `ground_sessions` with each value and its source column, and what foreign keys do to both. |
| `PlanImport` | Batches that may be cut after any leg, SimBrief fetches across an await, moves, reorders, deletions. |
| `SayIntentions` | Link, unlink and import of one flight, each request in the part before its await, the answer, and the part after; a death in the import loop. |
| `NavdataSync` | Snapshots, batches, the flag `importing`, the swap and a restart; the sidecar is external. |
| `LiveEvents` | The hub, the streams with their limits, and one tab with its EventSource, probe, retry timer, visibility and loads; the other tabs are streams that take slots. |
| `LiveView` | Abstract: a tab shows versions the server had, and never goes back. `LiveEvents` implements it. |
| `Acars` | The thread of a flight and its leg, its requests across their awaits, the weather cache, and one page. |
| `Sessions` | The session store and the login throttle. |
| `SchemaUpgrade` | Every statement of `applySchema` over any older file, a death between any two. |
| `ReplayClock`, `MapFeatures` | The two hooks of the client that own timers: a replay's frame loop, a map's requests for navdata. |

Computations (operators only; the state in `MCComputations` is which input is looked at):

| Module | Models |
|---|---|
| `LegMatcher`, `ChainOrder` | Which leg a takeoff belongs to; the order of a batch. |
| `AcarsMessages` | What the messages say and how they are read back. |
| `LnmPlan`, `SimbriefPlan`, `Upstream` | Files and answers to plans; wires to verdicts, and the SimBrief import that rests on them. |
| `Journey`, `FlightHistory`, `Replay` | Trip pages, combining, statistics, search, KML, the timeline of a replay and lines over the dateline. |
| `NavdataRows`, `NavdataQuery` | A batch of rows to the replica; what a map asks of it and what it is shown. |
| `AirwayPaths`, `RouteGeometry`, `NavdataDemand` | Airways on a line of positions; the chains a leg is drawn with; what the sidecar is asked for. |
| `Access`, `Configuration`, `McpTools`, `Traffic` | The gates of a request, a start, the tools, the AI traffic. |

`MCFlightManager` has the scenarios of the recorder. `MCServices` runs seven state
machines that share nothing (`FlightClock`, `SchemaUpgrade`, `Sessions`, `GroundSessions`,
`PlanImport`, `ReplayClock`, `MapFeatures`): a behaviour picks one and leaves the others where they
start, so one run asks the questions of all without their product. `MCComputations` picks a
subject, then one question of a finite set of inputs; its invariants say of each subject what the
computation promises, stated apart from how it is computed; what it shares with the proofs, the messages of a
thread among them, stands in `Questions`. The `*Proofs` modules hold the proofs,
`ServicesProofs` those of the seven machines of `MCServices`, `ComputationProofs` those of the
computations that filter and sort no sequence.

What is abstracted:

- **Planner.** A flight row is its existence, end, link columns and trip; a leg is its
  existence, status and trip. "Diverted" against "flown" is an input where the code compares
  places. Combining two flights is allowed whenever the route allows it.
- **Recorder.** Positions are members of `Places`; a frame is one of the kinds of `FrameKinds`.
  A closed ground session leaves `FlightManager` (not `GroundSessions`), so `SessionIds` are
  reused once nothing refers to them. A database error the code catches is an outcome of its
  action when the scenario has its name (`CaughtErrors`): the boot check, the leg read at takeoff and
  at a restart, its refresh after a route's write (caught in three deletes, answered 500 by the link
  routes: the write stands and the cache does not follow), the close of a session, the entry into
  GROUND, the arrival, and the insert of any report (`acarsEvents.ts:19-26`). Errors that no code catches,
  and the refresh of the ground session's cache, are left out. `FlightClock` counts in ticks of one frame.
- **SayIntentions.** A comms entry is its id and stands for the one or two rows made of it, or
  for none (`Wordless`). A session does not come back once the key moved on. `start` and
  `crossed` are history: where the link starts to import, and whether an import of an earlier
  link has ended under it.
- **Ground sessions.** The author of a value and the columns that were emptied with their source left
  beside them are history in `GroundSessions`; neither is stored.
- **Navdata.** `exposed` and `tainted` are history in `NavdataSync`: a client has left between its last
  byte and the handler and uploads have gone on since; the replica came from an import that ran
  meanwhile. Two imports at once write files of their own (the name has the process and the time), and
  the swap is one step because it is synchronous. In `NavdataSync` a row is its revision and the column merge gives the newer row;
  `NavdataRows` is that merge, on three tables that have every kind of column and reference the
  schema has. In the geometry positions lie on a line and a distance is a difference: the control
  (which fix, which airway, which procedure, in which order, what is reported) is the code's,
  spherical formulas are not. Tolerances, hops, caps and grid widths are constants.
- **Live events, ACARS.** A stored state is a version number; a payload is the version it was
  built from. Lengths of timers are left out: an armed timer may fire at any time.
- **Messages, plans, files.** A text is its length or a member of a small set, a route the
  lengths of its tokens, an XML file or JSON answer the tree the parser is left with.

## Runs

| Run | Question | Bounds | States |
|---|---|---|---|
| `Logbook_safety` | Do the tables stay coherent under every sequence of operations and deaths, and do they implement `TripMembership`? | 3 flights, 2 legs, 2 trips, symmetric | 134 k |
| `FlightManager_recorder` | Does memory agree with the tables while the operator edits the rows being flown, what do deaths and caught errors leave behind, is every effect a step of `Logbook`, and does silence end tracking? | four scenarios: 2 flights, 1 leg, 1 trip beside the planner; 3 flights, 2 sessions, 2 places, 2 deaths; the errors about a leg, 1 flight, 1 leg, 1 death; the errors about flights, sessions and reports, 1 flight, 1 death | 214 k |
| `SayIntentions_imports` | Do overlapping requests, re-links, deletions and deaths ever skip or double-count an entry? | 3 entries (one wordless), 2 sessions, 2 links, 2 requests, 1 death | 5.6 M |
| `NavdataSync_uploads` | Which replicas can have a hole, which imports run without the hold, and is the replica always let go, whenever clients leave? | 1 row, 3 revisions, 2 epochs, 2 uploads, 1 death | 715 k |
| `LiveEvents_tab` | Is there always exactly one way back to a live connection, and does the tab end at the latest state? | 3 streams, limit 2, queue of 3, 3 versions, 2 disturbances | 348 k |
| `Acars_page` | Is every reply the answer to its request, and does an open page end with every row? | 3 rows, 1 tick of the weather cache, 1 disturbance | 829 k |
| `Computations_agree` | Does every computation give what it promises? | 44 subjects, 10 to 70 k inputs each | 491 k |
| `Services_run` | The state machines beside the recorder, each on an instance of its own | see `Services_run.cfg` | 273 k |
| `Acars_duplicates` | Expected violation, below | 3 rows | |
| `FlightManager_stalecache` | Expected violation, below | 1 flight, 1 leg | |
| `NavdataSync_earlyclose` | Expected violation, below | 2 rows, 3 revisions, 2 uploads | |
| `Computations_halfplace` | Expected violation, below | the inputs of `Computations_agree` | |

Why the bounds suffice. The planner's statements touch at most two flights, two legs and two
trips at once (a re-target from one leg to another in another trip; combining two flights), and
the third flight is the bystander whose link an unguarded statement would break. The debounces
are 2 instead of 3, 5 and 10 (1 where nothing depends on the count): every test of a streak
distinguishes below, at and beyond the threshold. Three flights and two deaths let an orphan of
the first life meet a flight of the second and a boot check of the third. The scenarios of the recorder
keep apart what does not meet in the code: the errors about a leg need the planner's rows and no
second session, those about sessions and reports need no leg; each comes with a death. In SayIntentions two
requests suffice because each step touches one request and the row they share; two links and
two sessions give the import of a link that is gone; three entries give one before, one at and
one after a cursor, and one of them wordless. In NavdataSync three revisions give a snapshot, a
batch after it and a change after that; two epochs give a batch of a bulk extraction that is
over. One row is enough where nothing is lost, because every action treats rows one by one and what is
claimed is claimed of each; two uploads overlap once the first was let go too early. In LiveEvents three streams
against a limit of two give a refusal and one slot to win back; a queue of three overflows; a
third version is published while the second is on its way. In Acars three rows are a request, its
reply and one more; a longer thread repeats them. In `MCServices` each machine has what its
property tells apart: two ticks of counted gap, two failures of a throttle, three legs of a route,
two deaths of an upgrade. In `MCComputations` inputs reach each limit from both sides: caps,
tolerances and page sizes are small, so lists are shorter than, equal to and longer than them.

Deadlock is checked where nothing may stop. `LiveEvents`, `Acars` and `MCServices` stop when their
counters of versions, rows, disturbances and actions are used up, and `MCComputations` after one
question; these runs switch the check off.

## Properties

The planner: `LegHeldOnce`, `LinkedFlightSitsInLegTrip`, `ClosedLegHasLandedFlight`,
`ClosedLegReopens` (only its own flight or a hand close that is allowed reopens a leg),
`ImplementsMembership`.

The recorder: `OnlyTheCurrentFlightIsOpen`, `LinksAreTracked` (the cached leg is the row's, none
if it could not be read, and an older one only after a refresh that failed; and a leg linked by the
machine is the one in flight), `GroundTracksOpenSession`, `NoAutoSessionInFlight`, `ReportsInOrder` (IN
comes after ON and OFF after OUT unless the insert of the earlier one failed and was swallowed),
`SilenceSparesManualSession`, `ImplementsLogbook`, and the liveness property
`SilenceEndsTracking`.

SayIntentions: `CursorCovers` (every entry between the link's start and its cursor is in the
thread), `CountedOnce`, `NothingBeforeNow`. The first and last except an import that began under
an earlier link, see below. Navdata: `ReplicaHasNoHoles` (but for one swapped in by an import that ran
while a client had left before the handler), `ImportIsHeld` (but while such a client's uploads go on),
`HoldIsReleased`.

Live events: `OneWayBack` (of the open stream, the retry timer, the probe and the backed-off
source exactly one will bring the tab back), `SlotsMatchResponses`, `ImplementsLiveView`,
`EventuallyCurrent`. ACARS: `RepliesAnswer`, `PageCatchesUp`.

`MCServices` joins the properties of its machines by what they are about: `FlightTimeIsFlown`,
`UpMeansComplete`, `SignInIsFair`, `SessionsAreSound`, `PlansStandInOrder`, `PagesAreHonest`, the
action properties `RowsAreKept` and the liveness properties `PagesSettle`. `SessionsAreSound` has the source
beside every value its author's, except in a column the operator emptied or whose leg was deleted: the
code keeps the source beside the empty value, and what telemetry fills in later passes for the
operator's. `MCComputations` has one
invariant per part of the system (`HistoryAgrees`, `MessagesAgree`, `ImportsAgree`,
`NavigationAgrees`, `InterfaceAgrees`), each a conjunction of what its subjects promise; the
comments there name them, and each is defined at the end of its module.

Every property of a passing run is paired in `PROJECT.json` with a mutant, a plausible bug of
the code that breaks it. The mutated forms stand beside the definitions they replace, marked
"Mutant".

## Fairness

- `FlightManager`: `WF_vars(StaleTimer)` only. `setInterval()` in `ingest.ts` keeps firing
  while the process lives; nothing is assumed of the agent, the operator or the frames.
- `NavdataSync`: per upload, the server receives or gives up a request (Node's request timeout
  ends one that stops arriving), starts the handler of one it has whole, and finishes an import
  it has begun. Nothing is assumed of the sidecar.
- `LiveEvents`: the event loops of the server (a flush, a refused or accepted stream, a closed
  response) and of the tab (its timers fire, what it asked for is answered, read or lost). Nothing
  is assumed of changes, visibility, logins or disturbances, which are bounded.
- `Acars`: an answer arrives or is lost, a connection that dropped comes back, a hint is handled.
- `MCServices`: the browser gives a replay the frames it asked for; timers of a map fire; its
  requests end, in an answer or an error.
- The other modules are checked for safety only.

## Proofs

`tlapm` checks them for every value of the constants; no constant is bounded in them. The theorems
are named in `PROJECT.json`.

- **Logbook.** `LogbookInvariant` is inductive: the type invariant, `Coherent` and
  `OneActiveTrip`. None of the four parts of `Coherent` is inductive alone: that a closed leg
  has a landed flight needs that the flight unlinked is the only one on its leg
  (`LegHeldOnce`), and that the flight is shown in its leg's trip needs that nothing is left of
  an earlier link. `LogbookProofs` has first one lemma per SQL statement, that it preserves
  `Coherent`, then one step per action, which names the statements the action composes. The
  invariants of `Logbook_safety` follow, and `ClosedLegReopens` from the same
  invariant.
- **Refinement.** The last part of `LogbookProofs` shows that every action is a step of
  `TripMembership` or a stutter under the mapping above, with the invariant for the prior state.
- **Recorder.** `FlightManagerProofs` shows first that every step - frames, events, timers, routes,
  deaths and faults - is a step of `Logbook` or leaves the tables alone
  (`FlightManagerImplementsLogbook`). So what is proved of the logbook holds of the tables of the
  running program: the lemma `TablesAreSound` cites `LogbookInvariant` through the refinement. With
  it every safety property the runs check of the recorder is proved, each from an invariant that
  adds the memory it rests on:

  | Theorem | Rests on | Holds when |
  |---|---|---|
  | `RecorderTypeOK` | the streaks stay below their debounce because the frame that reaches it acts | always |
  | `CachedLegMatchesRow` | the flight in progress has an id no combined flight can get | always; after a read or a refresh that failed it says which leg is there instead |
  | `ReportsStayInOrder` | `onEventFiled` is true only when ON is in the thread or its insert failed | always; a failed insert leaves what follows it without what precedes it |
  | `SilenceSparesWhatWasTyped`, `TrackedIsConnected` | the actions alone | always |
  | `NoOrphanedFlights` | at most one row is open even between a death and the boot check; only a checked process leaves IDLE | the boot check does not throw |
  | `GroundTracksTheOpenSession` | a deleted leg clears only the leg of the session | entering GROUND does not fail half-way |
  | `NoAutoSessionOutlastsTakeoff` | there is nothing to resume in the first life | no death, sessions can be closed |
  | `RecorderTracksItsLinks` | routes make no automatic link and reopen no leg under one (`RoutesPlanNoAutoLink`, with all of `Coherent`); the flight in progress is open or deleted | for the automatic links: no death, arrivals can be written |

  The conditions are needed: a death between the insertion of a flight and the close of the session
  leaves the session open in flight, an arrival that cannot be written leaves its leg planned, and
  `FlightManager_recorder` reaches each of these states.
- **Navdata.** `SyncInvariant` is inductive, whenever clients leave.
  `ReplicaHasNoHoles` alone is not: the swap replaces the file by a snapshot taken
  earlier, so `SnapshotsCover` says that a snapshot under way has every row up to its revision
  and everything acknowledged since it was taken, which in turn needs that no batch is applied
  meanwhile (`OneUpload`: an upload holds the replica, and alone). A client that leaves between its last
  byte and the handler breaks both until no upload is under way (`exposed`), and the replica swapped in
  meanwhile may have holes until a swap under the hold or a restart that finds the file gone (`tainted`). A batch arrives late, so
  `BatchFits` says that a row of it is still the sidecar's or has changed since beyond every
  revision anyone holds. `RevsKnown` bounds revisions and extractions by the sidecar's.
- **SayIntentions.** `ImportInvariant` is inductive: the cursor of the link holds (`LinkHolds`:
  everything up to it is filed), so does the cursor every waiting import of that link read before
  its await (`SnapshotsHold`; it may be behind the link's by now), an answer has every entry
  between that cursor and its own last one (`AnswersComplete`), and neither is ahead of the
  service (`NothingAhead`). Writing an old cursor back is then harmless: what it covers is filed.
  `CountedOnce` rests on the count of rows created being what the thread grows by.

- **Live events.** `LiveEventsProofs` has three invariants. `Safe` is the types with
  `SlotsMatchResponses`, which needs that the other consumers hold slots of their own. `WaysInv` is
  `OneWayBack` case by case, with the one fact it needs: only a mounted page of a hidden tab has the
  close timer or is closed for being hidden. `Views` bounds what is on its way to the screen - the
  messages in the queue of the stream, in their order, and the newest fetch of the tree - by what is
  shown and by what the server has, and gives the refinement of `LiveView`: what is shown only gets
  newer.
- **ACARS.** `AnswersInv` is `RepliesAnswer` for the rows filed (`Thread`), with what waits for the
  weather service (`Waits`: the request each handler filed is there while its flight or leg is, and
  nothing answers it yet) and the cache (`Cached`: weather is no older than the request it was fetched
  for). The await between a request's row and its reply is why both are needed: another request or the
  deletion of the flight may come between. The type invariant rests on it: the ids a page is sent are
  those of rows, and the weather of a reply is of a time that has been.
- **The machines of `MCServices`.** A step of one leaves the others alone, so each has an invariant of
  its own in `ServicesProofs`:

  | Machine | Inductive invariant | Why the property alone is not inductive |
  |---|---|---|
  | `FlightClock` | `ClockInv` | the stored row, the memory of the process and the ticks an observer counts are three sums over the same points (`RowStands`, `MemoryStands`, `WatchedStands`); a restart replaces the second by a recount of the first |
  | `SchemaUpgrade` | `SchemaInv` | what is missing is due at a later statement, whatever file was found and wherever the last start ended |
  | `Sessions` | `StoreInv`, `ThrottleInv` | the table forgets entries that are over, the history of an address does not: an entry counts the last failures, those of its window, and an address without one has none in a window that runs |
  | `GroundSessions` | `GroundInv` | an open session is what a tracking recorder holds on to, and a value may go by foreign key while its source column stays |
  | `PlanImport` | `PlanInv`, `RouteInv` | ids tell legs apart before places do; the legs of a pool that got one batch only are a beginning of the route, so a retry after a cut finds the rest of it and appends that |
  | `ReplayClock` | `ReplayInv` | the handle that is kept is that of the one outstanding frame |
  | `MapFeatures` | `FeaturesInv` | a request under way is of the kinds ticked and of no earlier view than what is drawn, and without its overlay a map has none |

  `PlansStayInOrder` needed the most. The route's scan of an upload and the walk of `ChainOrder` are
  recursive functions, and an induction over them needs no operator parameter: a set of naturals that
  has 0 and every successor is all of them (`AllOfNat`, from the library's induction by a set), and a
  recursion by steps has a value at each (`RunExists`, `RecursionSteps`). So the scan keeps each new
  plan once and none twice (`AcceptedIsKept`), the walk from the head of a route passes all of it
  (`TheWalkIsTheRoute`), also when its first legs are already in the pool, and `RebuiltIsATotal` adds
  up the flight time of any list of points. `BatchesFollowTheRoute` says of `ChainOrder` itself what
  `MCComputations` checks of it, for batches of any legs: a walk that took in every leg took the only
  one at each place, so no other order joins them (`FullWalkIsTheWay`); and in a batch of which no two
  legs depart from one airport the walk passes any route there is (`TheWayIsWalked`). The attempt showed that `Chains` had said too little: a
  path beside a closed ring has one head too, and such a batch keeps the order of its upload, so it
  now asks for the route itself (`Routes`).
- **Computations.** `ComputationProofs` shows for every input what `MCComputations` asks of a few:
  the messages of an ACARS thread, the tools' answers, samples and pages, the gates and the errors of a
  request, the verdicts on an answer of a service and the SimBrief import, a start, the account, a page of
  settings and the rows of the navdata replica. `MCComputations` looks at a handful of numbers, requests or environments; the theorems
  have every one of its type, with the only hypotheses that `NULL` and a text are no number, that
  rows have the types of the schema, and that a logbook names no trip it does not have. Of the
  messages they add up to the invariant itself: `MessagesAgree` holds of any question that is
  `Answerable`, that is of its subject's types. Seven arguments carry them. A quotient is known by the interval it lies in (`QuotientIs`), so times,
  levels and positions are within half a unit of what was measured, also where the code
  rounds twice. The stride of the squawks is odd, hence invertible modulo 4096
  (`StrideIsInvertible`). The indices a sample takes rise by at least one and end at the last
  point, because a track is only sampled when it has more points than the cap. The pages
  up to any one are a beginning of the list, so that the one `FlattenSeq` builds is the list
  (`PagesFlatten`, an induction over `AllOfNat` as above). A fold is a function on the sets of places
  that takes the highest one last: it exists for any step that is a function (`FoldExists`), and along
  the beginnings of its sequence it makes one step after the other, so that a clearance that cuts its
  route where one token more would no longer fit is as long as it may be (`ClippedFits`). What a batch
  does to a replica is a relation that each row has (`RowAdds`) and that composes, place by place,
  along a batch in any order (`AddsOn`), so that `BatchesAdd` has it of batches of any length, rows that name half a place or no source among them:
  it says which rows may move a coordinate, not that the place moves whole, which is not so: see
  below. And a verdict is a
  case split that covers what can arrive and gives each case to one arm. The last one failed at first
  for `import_simbrief_leg` and for the faults of a configuration: arms of a `CASE` overlapped, and
  TLC took the first of them as the code does, where TLA+ leaves the choice open. They are disjoint now.

Assumptions are the named ones of the modules (`NULL` is no identifier, row, number or snapshot;
identifiers of flights are naturals; debounces and the first revision are positive; the constants
of the machines of `MCServices` are what their code takes them from). Some theorems
are not in a run, where they would repeat others: `NoLeftoverLink`, `OneActiveTrip`, the type
invariants of `Logbook`, `NavdataSync`, `SayIntentions`, `LiveEvents` and `Acars`, `HoldHasOwner`,
`TrackedMeansConnected`, and the action properties that `RowsAreKept` is made of.

Only model-checked: every liveness property (fairness and `ENABLED` are out of the prover's reach), the
two halves of `PagesSettle` among them; and those computations of `MCComputations` that filter or sort a
sequence, and most of those that fold one: the plans read from files and answers, journeys, combined
flights, statistics and searches, the queries of navdata, airways, traffic and the searches of
`McpTools`; of a batch of navdata, that it may be sent again and that a parent may follow its child. `SelectSeq` and `SortSeq` are closed to the prover, and a fold needs an
induction of its own, over sets of naturals as above, since the library's has an operator for its
parameter. All of the invariants of `MCComputations` but `MessagesAgree` join computations of both
kinds, so no theorem names one of those four whole.

## Where the code and its words part

Four runs which TLC finds violated by the code as it is:

- `FlightManager_stalecache`: deleting the leg a ground session names changes its row by
  foreign key and leaves the cache, so `GET /api/status` names a leg that is gone.
- `Acars_duplicates`: the hint of a send may be handled, and the thread refetched, before the
  answer of the send arrives; the page appends the rows of that answer without looking, and shows
  them twice.
- `NavdataSync_earlyclose`: a connection that closes after the last byte of a snapshot and before the
  handler starts lets the hold go (`routes/navdataSync.ts:118-119`; the comment at 106-109 says the whole
  import holds the replica), while the import runs all the same; a batch acknowledged in between is lost
  in the swap, and the sidecar never sends it again. `NavdataSync_uploads` shows that nothing else loses
  one, and the proofs that it is so for any number of rows and uploads.
- `Computations_halfplace`: a latitude alone, or a position without a source, overwrites a facility's and
  keeps the label `facility` (`navdata/store.ts:326-344`), where the comment at 307-314 has a position move
  as a unit by the precedence of its source.

Observed while modelling, without a run of their own. In the recorder and the planner:

- A death between the insertion of a flight and the rest of its takeoff leaves a flight without
  OUT and OFF which the restart adopts; the comment of `resumeFlight()` (`flightManager.ts:758`) says
  they were filed. `ReportsInOrder` allows for it.
- Frames with `simRunning` 0 neither count nor reset the debounce, so the "three consecutive
  frames" (`flightManager.ts:376`) need not be consecutive.
- When the flight in progress is deleted its next point violates the foreign key
  (`flightManager.ts:1104`); the exception leaves `onFrame()` before the landing is counted, and landed
  frames no longer end the flight (`docs/architecture.md:212` says they do).
- `linkFlightToPlannedLeg()` does not look at a leg's status, so a skipped leg can be linked,
  which a comment in `db/plannedLegs.ts` takes to be impossible of a linked one.
- The re-anchor rule measures against the position of the frame that entered GROUND, not, as a
  comment of the schema says, against the stored one.
- `markDisconnected()` clears `connected` before `endFlight()`, so an error thrown by
  `closeFlight()` leaves a flight the stale timer no longer ends.
- A flight started while the simulation is paused counts as not interrupted. An outage shorter than
  the counted gap is not counted by the resume that ends it, whose comment says "its time must not
  be counted" (`flightManager.ts:837`), and is counted by the next one, which adds up the stored
  points again (806-810). A wall clock set back gives negative gaps. `FlightClock` starts unpaused
  and its clock never steps back.
- A stand the operator posts as null and a leg removed by foreign key leave `'manual'` as the source of
  an empty value, and a value telemetry or the matcher then fills in keeps it
  (`db/groundSessions.ts:148`; `types.ts:673` calls the column who put the value there).
  `SessionsAreSound` excepts just these columns.
- A report whose insert fails is not tried again: `onEventFiled` is set before ON is filed
  (`flightManager.ts:640`) and IN is filed whether or not ON was (`919`). After a failed refresh of the leg
  `GET /api/status` names a leg that may be gone until a refresh succeeds.
- A death between the `ALTER` that adds `flights.trip_id` and the `CREATE INDEX` after it
  (`schema.ts:599-600`, both inside the `if` at 598) loses `idx_flights_trip` for good: the next start
  finds the column and skips both, although the file says of itself that it is idempotent "from end
  to end" (line 4). `UpMeansComplete` excepts this one index.
- `combineFlights()` removes the attached PDFs of both flights before its transaction commits
  (`db/flights.ts:329-330`): a death or an error after that brings the rows back without their files.

In imports and messages:

- An import that waits while the flight is linked to a SayIntentions session again writes its
  cursor into the new link (`routes/sayIntentions.ts:221`), and comms before it are never imported.
  `CursorCovers` shows that this is the only way to lose one. `SESSION_CHANGED` is decided on the
  link as it was before the await.
- A batch that is sent again after a cut, of a route that visits an airport twice, keeps the
  order of the upload. `import_simbrief_leg` calls `onChanged` for a duplicate. The first navlog fix,
  when it names the origin without a position, leaves a route without its origin. A timeout while
  a body is read is reported as `NETWORK`.
- A route body is cut at `MAX_ROUTE_BODY_CHARS`, the alternates of a dispatch release are not.
- The page of a thread: the answers of the first load may overwrite a newer refetch; rows of a leg
  that is linked later are not hinted; a refetch that failed is not tried again. `PageCatchesUp`
  names the last two.

In navdata and the pages:

- A replayed absence demotes an airport that was fetched since, and
  marking it is not counted in `applied`; an explicit null in a `NOT NULL` column is refused on a new
  row and ignored on a known one.
- The two searches of an airway stop differently at `AIRWAY_MAX_VISITED`: one gives no path, the
  other what it has. `MapAndDemandAgree` is about airways below it.
- `useNavdataFeatures.ts:52` overwrites a retry timer that is armed: the lost one may fire after the
  map is gone, leave the spinner on and a second request under way ("at most one is ever live",
  lines 18-19). A status poll during a swap answers `present: false`, so the overlay is unmounted and
  its ticked kinds are lost (`navdataApi.ts:15`: "keep what is drawn and retry").
- A replay at the end of a trailing gap maps back to its start; `finished` stays when the flight
  grows. A skipped leg of at most 0.05 % of a journey lets it read 100 % (`journey.ts:266`).
- Half of the navigation tree whose fetch failed is not fetched again before the next event
  (`EventuallyCurrent` names it); loaders without a ticket may end with an older answer; other
  consumers can take every slot but the last one of the limit.
- The cap of an export is checked before duplicates are removed, which `routes/exports.ts:196` says
  are "not counted against the cap". `search_flights` measures a query before trimming it, the
  route after. A date bound accepts the 30th of February as `Date` reads it.

## Not modelled

Spherical geometry (real numbers), the reading of XML and JSON, the PDF attached to a flight, PDF
rendering and its browser, the backup (SQLite's own), hashing and cookies, rendering and layout of
the client, and the pages that only fetch once and show. The components that are `partly` modelled
say in `PROJECT.json` what is left out of each.

## What could follow

- Proofs of the computations that fold, each with an induction of its own: that a batch of navdata
  may be sent again, that the traffic shown is the traffic sent.
- The PDF attached to a flight (`flightPlans.ts`), a file beside the row that names it.
- The sidecar's report of its own state, and a sidecar that sends a batch before the last one was
  acknowledged: `store.ts:564` only warns about it.
- A `closeFlight()` that throws (`ingest.ts:178`): the models have the errors the code catches.
