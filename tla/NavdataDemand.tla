--------------------------- MODULE NavdataDemand ---------------------------
(***************************************************************************)
(* What the sidecar is asked to fetch (src/navdata/demand.ts), from the    *)
(* requests by hand (src/db/navdataRequests.ts), the planned legs and the  *)
(* replica.  A want is [kind, ident, region]: kind "A", "W", "V" or "N",   *)
(* region 0 when none is given.  The replica is NULL, or the set of rows   *)
(* [kind, ident, region, state] of airports, fixes, navaids and absences   *)
(* ("X", with `of` the kind it is an absence of), and its airways.  A leg  *)
(* is [departure, destination, waypoints, alternates]: idents of airports, *)
(* NULL where an end is none.                                              *)
(***************************************************************************)
EXTENDS AirwayPaths

CONSTANTS Cap, SidesPerGap

Want(kind, ident, region) == [kind |-> kind, ident |-> ident, region |-> region]

-----------------------------------------------------------------------------
(* The requests by hand. *)

Same(r, kind, ident, region) == r.kind = kind /\ r.ident = ident /\ r.region = region

\* A second request for the same facility renews the first; requests are in
\* the order they were last asked for.
UpsertNavdataRequest(requests, kind, ident, region, expires) ==
  Append(SelectSeq(requests, LAMBDA r : ~Same(r, kind, ident, region)),
         [kind |-> kind, ident |-> ident, region |-> region, expires |-> expires])

PruneExpired(requests, now) == SelectSeq(requests, LAMBDA r : r.expires > now)

-----------------------------------------------------------------------------
(* Satisfaction: what the replica has an answer for. *)

Region(want, row) == want.region = 0 \/ row.region = want.region

Answers(want, row) ==
  \/ /\ row.kind = want.kind /\ row.ident = want.ident /\ row.state \in {"fetched", "absent"}
     /\ want.kind = "A" \/ Region(want, row)
  \/ /\ row.kind = "X" /\ row.of = want.kind /\ row.ident = want.ident
     /\ want.kind = "A" \/ Region(want, row)

\* A row that only says where something is, is no answer.
Holds(db, want) == db # NULL /\ \E row \in db.rows : Answers(want, row)

\* For one fix of a gap: its own region, and none is a region of its own.
HoldsExactly(db, kind, ident, region) ==
  \E row \in db.rows :
    row.ident = ident /\ row.region = region
      /\ \/ row.kind = kind /\ row.state \in {"fetched", "absent"}
         \/ row.kind = "X" /\ row.of = kind

NavaidKinds(db, ident, region) ==
  {row.kind : row \in {r \in db.rows : r.kind \in {"V", "N"} /\ r.ident = ident /\ r.region = region}}

-----------------------------------------------------------------------------
(* What a leg refers to. *)

KIND == [WAYPOINT |-> "W", VOR |-> "V", NDB |-> "N", AIRPORT |-> "A"]

WaypointWant(w) == Want(KIND[w.type], w.ident, IF w.type = "AIRPORT" THEN 0 ELSE w.region)

LegWants(leg) ==
  LET Airport(ident) == IF ident = NULL THEN <<>> ELSE <<Want("A", ident, 0)>>
      named == SelectSeq(leg.waypoints, LAMBDA w : w.type \in DOMAIN KIND)
  IN  Airport(leg.departure) \o [i \in DOMAIN named |-> WaypointWant(named[i])]
        \o Airport(leg.destination)
        \o [i \in DOMAIN leg.alternates |-> Want("A", leg.alternates[i], 0)]

-----------------------------------------------------------------------------
(* The gaps of the airways. *)

\* The fixes of one side that are not known, the nearest to the far end first.
\* A fix that is a navaid is asked for as one, the first kind not answered.
KindOfNode(db, node, navaidsWanted) ==
  LET ident  == node.fix \div 10
      region == node.fix % 10
      kinds  == NavaidKinds(db, ident, region)
      open   == {k \in kinds : ~HoldsExactly(db, k, ident, region)}
  IN  IF kinds # {} THEN IF open = {} THEN NULL ELSE IF "N" \in open THEN "N" ELSE "V"
      ELSE IF HoldsExactly(db, "W", ident, region)
              \/ \E w \in navaidsWanted : w.ident = ident /\ w.region \in {0, region}
           THEN NULL ELSE "W"

\* Of the fixes with a kind to ask for, the nearest to the far end.
Nearest(kind, farEnd) ==
  LET open == {n \in DOMAIN kind : kind[n] # NULL}
      Closer(m, n) == \/ Gap(m.at, farEnd.at) < Gap(n.at, farEnd.at)
                      \/ Gap(m.at, farEnd.at) = Gap(n.at, farEnd.at) /\ Before(m, n)
  IN  [i \in 1..Min({SidesPerGap, Cardinality(open)}) |->
         LET n == CHOOSE m \in open : Cardinality({l \in open : Closer(l, m)}) = i - 1
         IN  Want(kind[n], n.fix \div 10, n.fix % 10)]

\* A fix that was met at two places counts where it was met first.
FirstMet(nodes) ==
  {nodes[i] : i \in {j \in DOMAIN nodes : \A k \in 1..(j - 1) : nodes[k].fix # nodes[j].fix}}

Frontier(db, nodes, farEnd, navaidsWanted) ==
  Nearest([n \in FirstMet(nodes) |-> KindOfNode(db, n, navaidsWanted)], farEnd)

\* A pair is [airway, from, to]: two planned points in a row whose keys the
\* replica knows.  The far side is walked only if the near one does not reach it.
FrontierOf(db, legs, pair, side, near, navaidsWanted) ==
  IF near.reached THEN <<>>
  ELSE Frontier(db, IF side = "near" THEN near.nodes ELSE WalkAirway(legs, pair.to, NULL).nodes,
                IF side = "near" THEN pair.to ELSE pair.from, navaidsWanted)

LegsOf(db, airway) == IF airway \in DOMAIN db.airways THEN db.airways[airway] ELSE {}

GapWants(db, pair, side, navaidsWanted) ==
  LET legs == LegsOf(db, pair.airway)
  IN  FrontierOf(db, legs, pair, side, WalkAirway(legs, pair.from, pair.to), navaidsWanted)

-----------------------------------------------------------------------------
(* buildDemand() *)

Skipped(skip, want) == want.ident \in (IF want.kind = "A" THEN skip.airports ELSE skip.waypoints)

IsNavaid(want) == want.kind \in {"V", "N"}

Collect(s, want) ==
  IF want \in ToSet(s.primary) \cup ToSet(s.gaps) \cup ToSet(s.navaids) THEN s
  ELSE IF IsNavaid(want) THEN [s EXCEPT !.navaids = Append(@, want)]
       ELSE [s EXCEPT !.primary = Append(@, want)]

CollectGap(s, want) ==
  IF want \in ToSet(s.primary) \cup ToSet(s.gaps) \cup ToSet(s.navaids) THEN s
  ELSE IF IsNavaid(want) THEN [s EXCEPT !.navaids = Append(@, want)]
       ELSE [s EXCEPT !.gaps = Append(@, want)]

Full(s) == Len(s.primary) > Cap

Room(s) == Len(s.primary) + Len(s.gaps) <= Cap

\* The requests first, then the legs, until more is wanted than is asked for.
Primary(requests, legs, db, skip) ==
  LET open == SelectSeq(requests, LAMBDA r : ~Skipped(skip, r) /\ ~Holds(db, Want(r.kind, r.ident, r.region)))
      wants == FlattenSeq([i \in DOMAIN legs |-> LegWants(legs[i])])
      asked == [i \in DOMAIN open |-> Want(open[i].kind, open[i].ident, open[i].region)]
  IN  FoldLeft(LAMBDA s, w : IF Full(s) \/ Skipped(skip, w) \/ Holds(db, w) THEN s ELSE Collect(s, w),
               FoldLeft(Collect, [primary |-> <<>>, gaps |-> <<>>, navaids |-> <<>>], asked), wants)

GapSide(s, pair, side, db, skip) ==
  FoldLeft(LAMBDA u, w : IF ~Room(u) \/ Skipped(skip, w) \/ Holds(db, w) THEN u ELSE CollectGap(u, w),
           s, IF Room(s) THEN GapWants(db, pair, side, ToSet(s.navaids)) ELSE <<>>)

WithGaps(s, pairs, db, skip) ==
  FoldLeft(LAMBDA t, side : GapSide(t, pairs[(side + 1) \div 2], IF side % 2 = 1 THEN "near" ELSE "far", db, skip),
           s, [side \in 1..(2 * Len(pairs)) |-> side])

Ordered(s) == s.primary \o s.gaps \o s.navaids

\* The first of all that is wanted; more is told of what is left out.
Answer(all, requests) ==
  [asked |-> SubSeq(all, 1, Min({Cap, Len(all)})), more |-> Len(all) > Cap, requests |-> requests]

Gathered(s, pairs, db, skip) ==
  Ordered(IF db = NULL \/ Full(s) THEN s ELSE WithGaps(s, pairs, db, skip))

\* `pairs`: the pairs of the legs in the order of this poll's pass.
BuildDemand(requests, legs, pairs, db, skip, now) ==
  LET live == PruneExpired(requests, now)
  IN  Answer(Gathered(Primary(live, legs, db, skip), pairs, db, skip),
             SelectSeq(live, LAMBDA r : Skipped(skip, r) \/ ~Holds(db, Want(r.kind, r.ident, r.region))))

-----------------------------------------------------------------------------
(* What is promised. *)

Known(db, w) == db # NULL /\ \E row \in db.rows : Answers(w, row)

Needed(live, legs, db, skip) ==
  {w \in {Want(r.kind, r.ident, r.region) : r \in live} \cup UNION {ToSet(LegWants(legs[i])) : i \in DOMAIN legs} :
     ~Known(db, w) /\ ~Skipped(skip, w)}

OfAnAirway(w, pairs, db) ==
  db # NULL /\ \E p \in ToSet(pairs) : \E k \in {p.from, p.to} \cup KeysOf(LegsOf(db, p.airway)) :
    k.fix \div 10 = w.ident /\ k.fix % 10 = w.region

IsTheNeed(demand, asked, needed, live, pairs, db, skip) ==
  /\ Cardinality(asked) = Len(demand.asked) /\ Len(demand.asked) <= Cap
  /\ \A w \in asked : ~Known(db, w) /\ ~Skipped(skip, w)
  /\ ~demand.more => needed \subseteq asked
  /\ demand.more => Len(demand.asked) = Cap
  /\ \A i, j \in DOMAIN demand.asked : i < j => ~(IsNavaid(demand.asked[i]) /\ ~IsNavaid(demand.asked[j]))
  /\ (\E w \in asked : IsNavaid(w)) => {w \in needed : ~IsNavaid(w)} \subseteq asked
  /\ \A r \in live : Want(r.kind, r.ident, r.region) \in needed => r \in ToSet(demand.requests)
  /\ \A r \in live : r \notin ToSet(demand.requests) => Known(db, Want(r.kind, r.ident, r.region))
  /\ \A w \in asked \ needed : OfAnAirway(w, pairs, db)

AsNeeded(demand, live, legs, pairs, db, skip) ==
  IsTheNeed(demand, ToSet(demand.asked), Needed(live, legs, db, skip), live, pairs, db, skip)

\* The answer is the need and nothing else: nothing in it is held, parked or
\* asked twice; if it says it is complete then nothing that is needed is left
\* out; a fix is never pushed out by a navaid; and a request that is still
\* open, parked or not, is not forgotten before it expires.
DemandIsTheNeed(requests, legs, pairs, db, skip, now) ==
  AsNeeded(BuildDemand(requests, legs, pairs, db, skip, now), {r \in ToSet(requests) : r.expires > now},
           legs, pairs, db, skip)
=============================================================================
