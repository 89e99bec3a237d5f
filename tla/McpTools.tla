------------------------------ MODULE McpTools ------------------------------
(***************************************************************************)
(* The tools of the MCP server: which route of the HTTP interface each     *)
(* stands for, and how the read tools cut a long answer down.  What a tool *)
(* reads or writes is the same function the route calls; the tables are    *)
(* modelled where those are.                                               *)
(***************************************************************************)
EXTENDS Integers, Sequences, FiniteSets, SequencesExt

CONSTANTS NULL,
          LimitDefault,   \* LIMIT_DEFAULT
          LimitMax,       \* the schema's upper bound of limit
          WaypointCap,    \* WAYPOINT_CAP
          MessageCap,     \* ACARS_MESSAGE_CAP
          TermMax,        \* terms of a search
          QueryMax        \* characters of a search

-----------------------------------------------------------------------------
(* The descriptors of read.ts and write.ts; route "null" has no route. *)

ReadTools ==
  LET Tool(name, route) == [name |-> name, route |-> route, kind |-> "read"]
  IN  <<Tool("list_flights", "flights-list"), Tool("get_flight", "flight-read"),
        Tool("search_flights", "flights-search"), Tool("get_flight_stats", "flights-stats"),
        Tool("list_trips", "trips-list"), Tool("get_trip", "trip-read"), Tool("get_journey", "trip-journey"),
        Tool("list_planned_legs", "planned-legs-list"), Tool("get_planned_leg", "planned-leg-read"),
        Tool("get_acars_thread", "flight-acars-read"), Tool("get_weather", "null"),
        Tool("list_canned_messages", "acars-canned-messages"), Tool("get_status", "status"),
        Tool("get_ground_session", "ground-session-current")>>

WriteTools ==
  LET Tool(name, route) == [name |-> name, route |-> route, kind |-> "write"]
  IN  <<Tool("update_flight_notes", "flight-edit-notes"), Tool("create_trip", "trip-create"),
        Tool("assign_flight_to_trip", "trip-assign-flight"),
        Tool("import_simbrief_leg", "planned-leg-simbrief-import")>>

-----------------------------------------------------------------------------
(* The write tools and runTool around them.  The logbook is [flights, trips, *)
(* legs]: flights id -> [notes, trip], trips id -> name, legs a set.  A call *)
(* answers [book, ok, told], told how often onChanged was called.  imported  *)
(* is what importSimbriefLooseLeg said; fails is a database that throws at   *)
(* the tool's write.                                                         *)

Refuse(book) == [book |-> book, ok |-> FALSE, told |-> 0]

Done(book) == [book |-> book, ok |-> TRUE, told |-> 1]

UpdateFlightNotes(book, call) ==
  IF call.flight \notin DOMAIN book.flights \/ call.fails THEN Refuse(book)
  ELSE Done([book EXCEPT !.flights[call.flight].notes = call.text])

CreateTrip(book, call) ==
  IF call.text = NULL \/ call.fails THEN Refuse(book)
  ELSE LET id == Cardinality(DOMAIN book.trips) + 1
       IN  Done([book EXCEPT !.trips = [t \in DOMAIN @ \cup {id} |-> IF t = id THEN call.text ELSE @[t]]])

AssignFlightToTrip(book, call) ==
  IF call.trip \notin DOMAIN book.trips \/ call.flight \notin DOMAIN book.flights \/ call.fails THEN Refuse(book)
  ELSE Done([book EXCEPT !.flights[call.flight].trip = call.trip])

ImportSimbriefLeg(book, call) ==
  CASE call.imported = "error" \/ call.fails      -> Refuse(book)
    [] call.imported = "duplicate" /\ ~call.fails -> Done(book)
    [] OTHER                                      -> Done([book EXCEPT !.legs = @ \cup {Cardinality(@) + 1}])

Write(book, call) ==
  CASE call.tool = "update_flight_notes"   -> UpdateFlightNotes(book, call)
    [] call.tool = "create_trip"           -> CreateTrip(book, call)
    [] call.tool = "assign_flight_to_trip" -> AssignFlightToTrip(book, call)
    [] call.tool = "import_simbrief_leg"   -> ImportSimbriefLeg(book, call)

(* A call that answers an error changed nothing and told nobody; one that   *)
(* changed something told the pages; no flight is on a trip that is not     *)
(* there, and of a flight only the field the tool is named for has changed. *)
WritesAreTold(book, call) ==
  LET w == Write(book, call)
  IN  /\ ~w.ok => w.book = book /\ w.told = 0
      /\ w.book # book => w.told = 1
      /\ DOMAIN w.book.flights = DOMAIN book.flights /\ DOMAIN book.trips \subseteq DOMAIN w.book.trips
      /\ \A f \in DOMAIN book.flights :
           /\ w.book.flights[f].trip \in DOMAIN w.book.trips \cup {NULL}
           /\ w.book.flights[f].trip # book.flights[f].trip => call.tool = "assign_flight_to_trip" /\ call.flight = f
           /\ w.book.flights[f].notes # book.flights[f].notes => call.tool = "update_flight_notes" /\ call.flight = f

-----------------------------------------------------------------------------
(* Pages, samples and tails. *)

(* all.slice(off, off + lim) with the schema's defaults; NULL is refused. *)
Page(all, limit, offset) ==
  LET lim == IF limit = NULL THEN LimitDefault ELSE limit
      off == IF offset = NULL THEN 0 ELSE offset
      Slice(s) == SubSeq(s, off + 1, IF off + lim < Len(s) THEN off + lim ELSE Len(s))
  IN  IF lim \notin 1..LimitMax \/ off < 0 THEN NULL
      ELSE [total |-> Len(all), limit |-> lim, offset |-> off, rows |-> Slice(all)]

(* list_flights and list_planned_legs filter before they count and cut. *)
ListFlights(flights, trip, limit, offset) ==
  Page(SelectSeq(flights, LAMBDA f : trip = NULL \/ f.trip = trip), limit, offset)

ListPlannedLegs(legs, trip, status, limit, offset) ==
  LET Listed(l) == (trip = NULL \/ l.trip = trip) /\ (status = NULL \/ l.status = status)
  IN  Page(SelectSeq(legs, Listed), limit, offset)

(* downsampleTrack: every point of a short track, else max of them, ends    *)
(* included; Math.round halves upwards.                                     *)
DownsampleTrack(points, max) ==
  LET n == Len(points)
      Rounded(i) == (2 * i * (n - 1) + (max - 1)) \div (2 * (max - 1))
  IN  IF n <= max THEN points
      ELSE IF max <= 1 THEN SubSeq(points, 1, 1)
      ELSE [i \in 1..max |-> points[Rounded(i - 1) + 1]]

GetFlight(points, withTrack, cap) ==
  IF withTrack THEN [track |-> DownsampleTrack(points, cap), downsampled |-> Len(points) > cap]
  ELSE [track |-> NULL, downsampled |-> FALSE]

(* get_planned_leg keeps the head of a long route, get_acars_thread the tail *)
(* of a long thread.                                                        *)
GetPlannedLeg(waypoints) ==
  [truncated |-> Len(waypoints) > WaypointCap,
   waypoints |-> IF Len(waypoints) > WaypointCap THEN SubSeq(waypoints, 1, WaypointCap) ELSE waypoints]

GetAcarsThread(messages) ==
  [total |-> Len(messages), truncated |-> Len(messages) > MessageCap,
   messages |-> IF Len(messages) > MessageCap
                THEN SubSeq(messages, Len(messages) - MessageCap + 1, Len(messages)) ELSE messages]

(* Exactly one of the two owners of a thread; a search needs one term to    *)
(* TermMax of them.                                                         *)
ThreadAsked(flight, leg) == (flight # NULL) # (leg # NULL)

SearchFlights(rows, terms, limit, offset) ==
  IF Len(terms) \notin 1..TermMax THEN NULL
  ELSE Page(SelectSeq(rows, LAMBDA r : \A i \in DOMAIN terms : terms[i] \in r.words), limit, offset)

(* GET /flights/search and search_flights; q is [blanks, size, terms]: the  *)
(* blanks around it, its length without them and its terms.  The route      *)
(* trims before it measures, the tool after.                                *)
SearchRoute(rows, q, limit, offset) ==
  IF q.size \notin 1..QueryMax THEN NULL ELSE SearchFlights(rows, q.terms, limit, offset)

SearchTool(rows, q, limit, offset) ==
  IF q.blanks + q.size \notin 1..QueryMax THEN NULL ELSE SearchFlights(rows, q.terms, limit, offset)

(* get_status: the leg is looked up only in flight and with a frame, the    *)
(* ground session only on the ground.                                       *)
GetStatus(state, frame, leg, session) ==
  [connected |-> state.connected, on_ground |-> IF frame = NULL THEN TRUE ELSE frame.onGround,
   position |-> IF frame = NULL THEN NULL ELSE frame.at,
   planned_leg |-> IF state.flightState = "FLYING" /\ frame # NULL THEN leg ELSE NULL,
   ground_session |-> IF state.flightState = "GROUND" THEN session ELSE NULL]

(* A reader who asks page after page of one limit sees every row once and   *)
(* in order, and the sizes it is told say when to stop.                     *)
PagesCoverTheList(all, limit) ==
  LET first == Page(all, limit, NULL)
      pages == [k \in 1..((Len(all) + first.limit - 1) \div first.limit) |->
                  Page(all, limit, (k - 1) * first.limit).rows]
  IN  first # NULL => /\ FlattenSeq(pages) = all
                      /\ Page(all, limit, Len(all)).rows = <<>>
                      /\ \A k \in DOMAIN pages : pages[k] # <<>>

(* A long answer says that it was cut: a route keeps its head, a thread its *)
(* newest messages, and a search pages through just the rows that have      *)
(* every term, each once.                                                   *)
CutsAreTold(all, rows, terms) ==
  LET route  == GetPlannedLeg(all)
      thread == GetAcarsThread(all)
      page   == SearchFlights(rows, terms, LimitMax, NULL)
      found  == {i \in DOMAIN rows : ToSet(terms) \subseteq rows[i].words}
  IN  /\ IsPrefix(route.waypoints, all) /\ IsSuffix(thread.messages, all) /\ thread.total = Len(all)
      /\ route.truncated <=> route.waypoints # all
      /\ thread.truncated <=> thread.messages # all
      /\ (page = NULL) = (Len(terms) \notin 1..TermMax)
      /\ page # NULL => /\ page.total = Cardinality(found)
                        /\ ToSet(page.rows) \subseteq {rows[i] : i \in found}
                        /\ page.total > LimitMax \/ Len(page.rows) = page.total

(* A search asked of the tool is the search asked of the route; the route   *)
(* takes one more kind of it, that is too long only by its blanks.          *)
SearchesAgree(rows, q, limit, offset) ==
  LET page == SearchRoute(rows, q, limit, offset)
      told == SearchTool(rows, q, limit, offset)
  IN  /\ told # NULL => told = page
      /\ page # NULL /\ told = NULL => q.size <= QueryMax /\ q.blanks + q.size > QueryMax
      /\ page # NULL => q.size >= Len(q.terms) /\ Len(page.rows) <= page.limit

(* A downsampled track keeps both ends and the order of the flight, repeats *)
(* no point and is never longer than it may be.                             *)
SampleKeepsTheFlight(points, max) ==
  LET s == DownsampleTrack(points, max)
      Position(p) == CHOOSE i \in DOMAIN points : points[i] = p
  IN  /\ Len(s) = (IF Len(points) <= max THEN Len(points) ELSE max)
      /\ max > 1 /\ points # <<>> => s[1] = points[1] /\ Last(s) = Last(points)
      /\ \A i \in 1..(Len(s) - 1) : Position(s[i]) < Position(s[i + 1])
=============================================================================
