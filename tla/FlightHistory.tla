--------------------------- MODULE FlightHistory ---------------------------
(***************************************************************************)
(* What is computed from stored flights: the flight two flights are        *)
(* combined into, the statistics and the search (src/db/flights.ts), and   *)
(* the KML of a set of flights (src/kmlExport.ts, src/routes/exports.ts).  *)
(* A flight is [id, start, end, duration, distance, points, aircraft,      *)
(* from, to, plan, notes]; end, duration, aircraft, from, to and plan may  *)
(* be NULL. A point is the second it was recorded.                         *)
(***************************************************************************)
EXTENDS Integers, Sequences, FiniteSets, SequencesExt, FiniteSetsExt

CONSTANTS
  FillerCount,   \* points put between two flights that are combined
  Top,           \* how many aircraft and routes are listed
  MaxTrack,      \* MAX_TRACK_POINTS
  MaxSet,        \* MAX_FLIGHT_SET_IDS
  Distance(_, _), \* the great circle between two points
  Rank(_),       \* the order of aircraft
  RankRoute(_),  \* and of routes, by name
  Says(_, _),    \* whether some column of a flight has a token
  NULL

Max2(a, b) == IF a >= b THEN a ELSE b

OwnDuration(f) ==
  CASE f.duration # NULL -> f.duration
    [] f.duration = NULL /\ f.end = NULL -> 0
    [] OTHER -> Max2(0, f.end - f.start)

-----------------------------------------------------------------------------
(* combineFlights() *)

\* The pause between the halves is not flown.
CombinedDuration(first, second) == OwnDuration(first) + OwnDuration(second)

\* Where the second flight begins before the first ends, its fillers stand
\* within one second of the first's end. Times in hundredths of the step.
Fillers(first, second) ==
  IF first.points = <<>> \/ second.points = <<>> THEN <<>>
  ELSE LET from == Last(first.points)
           step == IF Head(second.points) > from THEN Head(second.points) - from ELSE 1
       IN  [i \in 1..FillerCount |-> [after |-> from, part |-> i, of |-> FillerCount + 1, step |-> step]]

Gap(first, second) ==
  IF first.points = <<>> \/ second.points = <<>> THEN 0
  ELSE Distance(Last(first.points), Head(second.points))

EndOfSecond(first, second, now) ==
  CASE second.end # NULL -> second.end
    [] second.end = NULL /\ second.points # <<>> -> Last(second.points)
    [] OTHER -> IF first.end # NULL THEN first.end ELSE now

Combine(f, g, id, now) ==
  LET first  == IF f.start <= g.start THEN f ELSE g
      second == IF f.start <= g.start THEN g ELSE f
  IN  [id |-> id,
       start |-> first.start,
       end |-> EndOfSecond(first, second, now),
       duration |-> CombinedDuration(first, second),
       distance |-> first.distance + Gap(first, second) + second.distance,
       points |-> first.points \o second.points,
       fillers |-> Fillers(first, second),
       aircraft |-> IF first.aircraft # NULL THEN first.aircraft ELSE second.aircraft,
       plan |-> IF first.plan # NULL THEN first.plan ELSE second.plan,
       notes |-> first.notes \o second.notes,
       from |-> NULL,
       to |-> NULL]

-----------------------------------------------------------------------------
(* getFlightStats(): from is inclusive, to is exclusive. *)

Within(f, from, to) == (from = NULL \/ f.start >= from) /\ (to = NULL \/ f.start < to)

Aggregate(S) ==
  [flights |-> Cardinality(S), duration |-> MapThenSumSet(OwnDuration, S),
   distance |-> MapThenSumSet(LAMBDA f : f.distance, S)]

\* Flights of an unknown aircraft or of an unknown end are in no group.
AircraftOf(S) == {f.aircraft : f \in S} \ {NULL}
RoutesOf(S) == {<<f.from, f.to>> : f \in {g \in S : g.from # NULL /\ g.to # NULL}}

Group(S, rank) == [flights |-> Cardinality(S), duration |-> MapThenSumSet(OwnDuration, S), rank |-> rank]

\* The first Top of the groups: most flights, then longest (aircraft only),
\* then by name.
Listed(of, byDuration) ==
  LET Ahead(a, b) ==
        \/ of[a].flights > of[b].flights
        \/ of[a].flights = of[b].flights /\ byDuration /\ of[a].duration > of[b].duration
        \/ of[a].flights = of[b].flights /\ (byDuration => of[a].duration = of[b].duration)
             /\ of[a].rank < of[b].rank
      sorted == SetToSortSeq(DOMAIN of, Ahead)
  IN  SubSeq(sorted, 1, IF Len(sorted) < Top THEN Len(sorted) ELSE Top)

Stats(flights, from, to) ==
  LET rows == {f \in flights : Within(f, from, to)}
  IN  [totals |-> Aggregate(rows),
       completed |-> Cardinality({f \in rows : f.end # NULL}),
       first |-> IF rows = {} THEN NULL ELSE Min({f.start : f \in rows}),
       last |-> IF rows = {} THEN NULL ELSE Max({f.start : f \in rows}),
       aircraft |-> Listed([a \in AircraftOf(rows) |-> Group({f \in rows : f.aircraft = a}, Rank(a))], TRUE),
       routes |-> Listed([r \in RoutesOf(rows) |-> Group({f \in rows : <<f.from, f.to>> = r}, RankRoute(r))], FALSE)]

-----------------------------------------------------------------------------
(* searchFlights() and countSearchFlights(): every token in some column;    *)
(* newest first, one page of it.                                           *)

Matches(f, tokens) == \A t \in tokens : Says(f, t)

Search(flights, tokens, limit, offset) ==
  LET hits == SetToSortSeq({f \in flights : Matches(f, tokens)}, LAMBDA f, g : f.start > g.start)
      end  == IF offset + limit < Len(hits) THEN offset + limit ELSE Len(hits)
  IN  [total |-> Len(hits), flights |-> SubSeq(hits, offset + 1, end)]

-----------------------------------------------------------------------------
(* The KML: text is a sequence of characters and names of entities. *)

Escapes == <<<<"&", "amp;">>, <<"<", "lt;">>, <<">", "gt;">>, <<"'", "apos;">>>>

Replaced(text, char, by) ==
  FlattenSeq([i \in DOMAIN text |-> IF text[i] = char THEN by ELSE <<text[i]>>])

\* The ampersand first, or those of the others would be escaped again.
EscapeXml(text) ==
  FoldLeft(LAMBDA t, e : Replaced(t, e[1], <<"&", e[2]>>), SelectSeq(text, LAMBDA c : c # "control"), Escapes)

DecimateTrack(points) ==
  LET stride == (Len(points) + MaxTrack - 1) \div MaxTrack
      kept   == [i \in 1..((Len(points) + stride - 1) \div stride) |-> points[(i - 1) * stride + 1]]
  IN  IF Len(points) <= MaxTrack THEN points
      ELSE IF Last(kept) = Last(points) THEN kept ELSE Append(kept, Last(points))

Geometry(points) ==
  CASE Len(points) = 0 -> NULL
    [] Len(points) = 1 -> [form |-> "Point", at |-> points]
    [] OTHER -> [form |-> "LineString", at |-> points]

\* An open flight has a beginning and no end.
Placemark(f, i) ==
  [flight |-> f.id, begin |-> f.start, end |-> f.end, points |-> Len(DecimateTrack(f.points)),
   style |-> i % 5, geometry |-> Geometry(DecimateTrack(f.points))]

\* One folder a flight, by their start and then by their id.
SetKml(flights) ==
  LET sorted == SetToSortSeq(flights, LAMBDA f, g : f.start < g.start \/ (f.start = g.start /\ f.id < g.id))
  IN  [i \in DOMAIN sorted |-> Placemark(sorted[i], i - 1)]

\* POST /flights/export.kml: the cap is on the ids as they are sent.
ExportSet(ids, stored) ==
  IF Len(ids) \notin 1..MaxSet THEN [status |-> 400]
  ELSE IF ~(ToSet(ids) \subseteq {f.id : f \in stored}) THEN [status |-> 404]
  ELSE LET flights == {f \in stored : f.id \in ToSet(ids)}
       IN  [status |-> 200, kml |-> SetKml(flights), stamp |-> Min({f.start : f \in flights})]

-----------------------------------------------------------------------------
(* What they promise. *)

\* Nothing a name holds reads as markup, and it reads back as it was, but for
\* the characters that XML forbids.
EscapedReadsBack(text) ==
  LET escaped == EscapeXml(text)
      names   == {Escapes[i][2] : i \in DOMAIN Escapes}
      Read(t) == IF t \in names THEN Escapes[CHOOSE i \in DOMAIN Escapes : Escapes[i][2] = t][1] ELSE t
      read    == SelectSeq(escaped, LAMBDA t : t # "&")
  IN  /\ \A i \in DOMAIN escaped : escaped[i] = "&" => i < Len(escaped) /\ escaped[i + 1] \in names
      /\ ToSet(escaped) \cap {"<", ">", "'", "control"} = {}
      /\ [i \in DOMAIN read |-> Read(read[i])] = SelectSeq(text, LAMBDA c : c # "control")

\* An export has every flight asked for once, in the order they were flown,
\* neighbours told apart; a track starts and ends where the flight did, and its
\* balloon counts the points it draws.
ExportTellsTheFlights(ids, stored) ==
  LET answer == ExportSet(ids, stored)
      Of(p)  == CHOOSE f \in stored : f.id = p.flight
  IN  answer.status = 200 =>
        /\ Len(answer.kml) = Cardinality(ToSet(ids))
        /\ {p.flight : p \in ToSet(answer.kml)} = ToSet(ids)
        /\ answer.stamp = answer.kml[1].begin
        /\ \A i, j \in DOMAIN answer.kml : i < j => answer.kml[i].begin <= answer.kml[j].begin
        /\ \A i \in DOMAIN answer.kml \ {1} : answer.kml[i].style # answer.kml[i - 1].style
        /\ \A p \in ToSet(answer.kml) :
             LET track == IF p.geometry = NULL THEN <<>> ELSE p.geometry.at
             IN  /\ p.points = Len(track) /\ Len(track) <= MaxTrack + 1
                 /\ Of(p).points # <<>> => Head(track) = Head(Of(p).points) /\ Last(track) = Last(Of(p).points)
                 /\ \A i, j \in DOMAIN track : i < j => track[i] < track[j]

\* Combining keeps what was flown: the time of both halves and not the pause
\* between them, every mile and the gap, every point in its order, and the
\* flight plan of the earlier half that has one.
CombiningKeepsTheFlights(f, g) ==
  LET both == Combine(f, g, "combined", 99)
      times == [i \in DOMAIN both.fillers |->
                  both.fillers[i].after * both.fillers[i].of + both.fillers[i].part * both.fillers[i].step]
      scale == FillerCount + 1
  IN  /\ OwnDuration(both) = OwnDuration(f) + OwnDuration(g)
      /\ both.distance >= f.distance + g.distance
      /\ ToSet(both.points) = ToSet(f.points) \cup ToSet(g.points)
      /\ \A h \in {f, g} : both.start <= h.start
      /\ f.plan # NULL \/ g.plan # NULL => both.plan # NULL
      /\ \A i, j \in DOMAIN times : i < j => times[i] < times[j]
      /\ (f.points # <<>> /\ g.points # <<>> /\ \A s \in ToSet(f.points), t \in ToSet(g.points) : s < t)
           => \A i \in DOMAIN times : times[i] > scale * Last(f.points) /\ times[i] < scale * Head(g.points)

\* The statistics of a period and of the one that follows add up to those of
\* both, group by group as far as every group is listed.
PeriodsAddUp(flights, middle) ==
  LET all    == Stats(flights, NULL, NULL)
      before == Stats(flights, NULL, middle)
      after  == Stats(flights, middle, NULL)
  IN  /\ all.totals.flights = before.totals.flights + after.totals.flights
      /\ all.totals.duration = before.totals.duration + after.totals.duration
      /\ all.totals.distance = before.totals.distance + after.totals.distance
      /\ all.completed = before.completed + after.completed
      /\ ToSet(before.aircraft) \cup ToSet(after.aircraft) \subseteq AircraftOf(flights)
      /\ Len(all.aircraft) <= Top /\ Len(all.routes) <= Top
      /\ \A a \in AircraftOf(flights) \ ToSet(all.aircraft), b \in ToSet(all.aircraft) :
           Cardinality({f \in flights : f.aircraft = a}) <= Cardinality({f \in flights : f.aircraft = b})

\* The pages of a search are the search: no flight is missing and none is
\* on two pages.
PagesAreTheSearch(flights, tokens, limit) ==
  LET all   == Search(flights, tokens, Cardinality(flights), 0)
      Page(k) == Search(flights, tokens, limit, k * limit)
  IN  /\ FlattenSeq([k \in 1..Cardinality(flights) |-> Page(k - 1).flights]) = all.flights
      /\ \A k \in 0..Cardinality(flights) : Page(k).total = all.total
=============================================================================
