------------------------------ MODULE Journey ------------------------------
(***************************************************************************)
(* What a trip's pages show of its flights and legs: the rows of the trip  *)
(* page (client/src/pages/tripdetail/interleave.ts) and the journey        *)
(* (src/journey.ts).  A flight is [id, start, from, to, distance, aircraft,*)
(* duration, leg], a leg [id, seq, status, distance, held]; NULL is an     *)
(* airport, aircraft or leg that is not known.                             *)
(***************************************************************************)
EXTENDS Naturals, Sequences, FiniteSets, SequencesExt, FiniteSetsExt

CONSTANTS Country, NULL    \* Country: airport -> country, or NULL

-----------------------------------------------------------------------------
(* interleaveTripRows() *)

BySeq(legs) == SetToSortSeq(legs, LAMBDA k, l : k.seq < l.seq \/ (k.seq = l.seq /\ k.id < l.id))

SeqOfLeg(legs, id) ==
  IF \E l \in legs : l.id = id THEN (CHOOSE l \in legs : l.id = id).seq ELSE NULL

\* The first flight of a later leg; one past the last flight when there is none.
SlotFor(flights, legs, seq) ==
  LET after == {i \in DOMAIN flights : SeqOfLeg(legs, flights[i].leg) # NULL
                                        /\ SeqOfLeg(legs, flights[i].leg) > seq}
  IN  IF after = {} THEN Len(flights) + 1 ELSE Min(after)

InterleaveTripRows(flights, legs) ==
  LET unflown == BySeq({l \in legs : ~l.held})
      Bucket(i) == SelectSeq(unflown, LAMBDA l : SlotFor(flights, legs, l.seq) = i)
      LegRows(i) == [n \in DOMAIN Bucket(i) |-> [kind |-> "planned", id |-> Bucket(i)[n].id]]
      FlightRow(i) == IF i > Len(flights) THEN <<>> ELSE <<[kind |-> "flight", id |-> flights[i].id]>>
  IN  FlattenSeq([i \in 1..(Len(flights) + 1) |-> LegRows(i) \o FlightRow(i)])

-----------------------------------------------------------------------------
(* buildJourney() *)

ByStart(flights) == SetToSortSeq(flights, LAMBDA f, g : f.start < g.start)

Continues(legs, i) == i > 1 /\ legs[i - 1].to # NULL /\ legs[i - 1].to = legs[i].from

\* The longest run of legs that join end to end, the first of several.
LongestRun(legs) ==
  FoldLeft(LAMBDA s, i :
             LET run == IF Continues(legs, i) THEN [s EXCEPT !.run = @ + 1]
                        ELSE [s EXCEPT !.run = 1, !.runStart = i,
                                       !.breaks = IF i > 1 THEN @ + 1 ELSE @]
             IN  IF run.run > run.best THEN [run EXCEPT !.best = run.run, !.bestStart = run.runStart]
                 ELSE run,
           [best |-> 0, bestStart |-> 1, run |-> 0, runStart |-> 1, breaks |-> 0],
           [i \in DOMAIN legs |-> i])

\* Ends of the flights, in order, each airport once with its visits.
Ends(legs) == FlattenSeq([i \in DOMAIN legs |-> <<legs[i].from, legs[i].to>>])

Visits(legs) ==
  LET known == {a \in ToSet(Ends(legs)) : a # NULL}
  IN  [a \in known |-> Cardinality({i \in DOMAIN Ends(legs) : Ends(legs)[i] = a})]

\* Countries are counted by airports and not by visits.
Countries(legs) ==
  LET airports == DOMAIN Visits(legs)
      known    == {Country[a] : a \in airports} \ {NULL}
  IN  [c \in known |-> Cardinality({a \in airports : Country[a] = c})]

SumOf(S, Value(_)) == FoldSet(LAMBDA x, total : Value(x) + total, 0, S)

\* In tenths of a percent; absent without a plan. Diverted is done, skipped is not.
PlannedRouteProgress(planned) ==
  LET total == SumOf(planned, LAMBDA l : l.distance)
      done  == SumOf({l \in planned : l.status \in {"flown", "diverted"}}, LAMBDA l : l.distance)
  IN  IF total = 0 THEN NULL ELSE Min({1000, (2000 * done + total) \div (2 * total)})

LongestLeg(legs) ==
  IF legs = <<>> THEN NULL
  ELSE legs[CHOOSE i \in DOMAIN legs : \A j \in DOMAIN legs :
              legs[i].distance > legs[j].distance \/ (legs[i].distance = legs[j].distance /\ i <= j)].id

ByAircraft(legs) ==
  LET named == {legs[i].aircraft : i \in DOMAIN legs}
      Of(a) == {i \in DOMAIN legs : legs[i].aircraft = a}
  IN  [a \in named |-> [legs |-> Cardinality(Of(a)), distance |-> SumOf(Of(a), LAMBDA i : legs[i].distance)]]

BuildJourney(flights, planned) ==
  LET legs == ByStart(flights)
      run  == LongestRun(legs)
  IN  [legs |-> legs,
       distance |-> SumOf(flights, LAMBDA f : f.distance),
       aircraft |-> ByAircraft(legs),
       longest |-> LongestLeg(legs),
       airports |-> Visits(legs),
       countries |-> Countries(legs),
       chain |-> IF run.best = 0 THEN NULL
                 ELSE [length |-> run.best, from |-> legs[run.bestStart].from,
                       to |-> legs[run.bestStart + run.best - 1].to],
       breaks |-> run.breaks,
       progress |-> PlannedRouteProgress(planned)]

\* sampleTrack(): which of n points are kept when at most `most` may be.
SampleTrack(n, most) ==
  IF n <= most THEN [i \in 1..n |-> i]
  ELSE [i \in 1..most |-> IF i = most THEN n
                          ELSE 1 + ((2 * (i - 1) * (n - 1) + (most - 1)) \div (2 * (most - 1)))]

-----------------------------------------------------------------------------
(* What they mean. *)

\* Every flight and every leg without one has one row; the flights stay in
\* their order, the legs stand in theirs, and no leg stands behind a flight
\* of a later leg unless the flights themselves are out of order.
RowsTellTheTrip(flights, legs) ==
  LET rows == InterleaveTripRows(flights, legs)
      Ids(kind) == LET of == SelectSeq(rows, LAMBDA r : r.kind = kind)
                   IN  [i \in DOMAIN of |-> of[i].id]
      unflown == {l \in legs : ~l.held}
      Flown(i) == SeqOfLeg(legs, (CHOOSE f \in ToSet(flights) : f.id = rows[i].id).leg)
  IN  /\ Ids("flight") = [i \in DOMAIN flights |-> flights[i].id]
      /\ ToSet(Ids("planned")) = {l.id : l \in unflown} /\ Len(Ids("planned")) = Cardinality(unflown)
      /\ \A k, l \in unflown : k.seq < l.seq =>
           \E i, j \in DOMAIN Ids("planned") : i < j /\ Ids("planned")[i] = k.id /\ Ids("planned")[j] = l.id
      /\ \A i, j \in DOMAIN rows :
           i < j /\ rows[i].kind = "flight" /\ rows[j].kind = "planned" /\ Flown(i) # NULL
             => Flown(i) <= SeqOfLeg(legs, rows[j].id)

\* The chain is a longest stretch of flights that join, the first of its
\* length; breaks are the joints that do not hold; no airport, country or
\* mile is counted twice; and a plan reads 100 % only when what is left of
\* it is at most half of the last digit.
Joined(legs, i, j) == \A n \in (i + 1)..j : Continues(legs, n)

JourneyIsTheFlights(flights, planned) ==
  LET journey == BuildJourney(flights, planned)
      legs    == journey.legs
      runs    == {<<i, j>> \in (1..Len(legs)) \X (1..Len(legs)) : i <= j /\ Joined(legs, i, j)}
      lengths == {r[2] - r[1] + 1 : r \in runs}
  IN  /\ flights = {} <=> journey.chain = NULL
      /\ flights # {} =>
           /\ journey.chain.length = Max(lengths)
           /\ LET first == Min({r[1] : r \in {r \in runs : r[2] - r[1] + 1 = Max(lengths)}})
              IN  journey.chain.from = legs[first].from
                  /\ journey.chain.to = legs[first + Max(lengths) - 1].to
           /\ journey.breaks = Cardinality({i \in 2..Len(legs) : ~Continues(legs, i)})
      /\ SumOf(DOMAIN journey.aircraft, LAMBDA a : journey.aircraft[a].distance) = journey.distance
      /\ SumOf(DOMAIN journey.countries, LAMBDA c : journey.countries[c]) <= Cardinality(DOMAIN journey.airports)
      /\ journey.progress # NULL => journey.progress \in 0..1000
      /\ journey.progress = 1000 =>
           2000 * SumOf({l \in planned : l.status \in {"planned", "skipped"}}, LAMBDA l : l.distance)
             <= SumOf(planned, LAMBDA l : l.distance)

\* A sample keeps both ends, the order and the bound.
SampleKeepsEnds(n, most) ==
  LET kept == SampleTrack(n, most)
  IN  /\ Len(kept) = Min({n, most})
      /\ n > 0 => kept[1] = 1 /\ Last(kept) = n
      /\ \A i, j \in DOMAIN kept : i < j => kept[i] < kept[j]
=============================================================================
