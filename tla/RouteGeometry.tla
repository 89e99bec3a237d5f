--------------------------- MODULE RouteGeometry ---------------------------
(***************************************************************************)
(* buildRouteGeometry() (src/navdata/routeGeometry.ts): the chains of      *)
(* points a planned leg is drawn with.  Positions lie on a line; NULL is   *)
(* 0/0, which is not drawn.  Names are numbers, 0 a region or a name that  *)
(* is not given; a runway's name is a text, "bad" one that cannot be read. *)
(*   replica   [fixes, navaids, airways, procs, detailed, runways]: fixes  *)
(*             and navaids are sets of [ident, region, at], airways maps a *)
(*             name to its legs, detailed holds airports                   *)
(*   waypoint  [ident, region, type, airway, at]                           *)
(*   procedure [key, airport, kind, name, runway, suffix, type, faf,       *)
(*             transitions], transitions in the order of their names, each *)
(*             [role, name, runway, legs]                                  *)
(*   leg of it [type, ident, at, centre]                                   *)
(***************************************************************************)
EXTENDS AirwayPaths

CONSTANT Tolerance       \* PLANNED_POSITION_TOLERANCE_M

ReplicaKey(fix) == [fix |-> 10 * fix.ident + fix.region, at |-> fix.at]

-----------------------------------------------------------------------------
(* A chain: its points, the arcs between them, and what was skipped. *)

EmptyChain == [source |-> NULL, points |-> <<>>, arcs |-> {}, skipped |-> 0]

Repeats(chain, at) == chain.points # <<>> /\ Last(chain.points).at = at

Push(chain, ident, at) ==
  IF Repeats(chain, at) THEN chain ELSE [chain EXCEPT !.points = Append(@, [ident |-> ident, at |-> at])]

\* A leg without a place of its own ("vector") cannot be drawn.
AddProcedureLeg(chain, leg) ==
  LET n == Len(chain.points)
      pushed == Push(chain, leg.ident, leg.at)
  IN  IF leg.type = "vector" \/ leg.at = NULL THEN [chain EXCEPT !.skipped = @ + 1]
      ELSE IF n > 0 /\ ~Repeats(chain, leg.at) /\ leg.type = "arc" /\ leg.centre # NULL
           THEN [pushed EXCEPT !.arcs = @ \cup {<<n, n + 1>>}] ELSE pushed

AddTransition(chain, t) == IF t = NULL THEN chain ELSE FoldLeft(AddProcedureLeg, chain, t.legs)

-----------------------------------------------------------------------------
(* Planned waypoints. *)

\* The nearest to a place; of two equally near ones the smaller key.
PickNearest(keys, near) ==
  IF keys = {} THEN NULL
  ELSE CHOOSE k \in keys : \A l \in keys :
         Gap(k.at, near) < Gap(l.at, near) \/ (Gap(k.at, near) = Gap(l.at, near) /\ ~Before(l, k))

LookupCandidates(db, wp) ==
  LET exact == {f \in db.fixes : f.ident = wp.ident /\ f.region = wp.region}
      any   == {f \in db.fixes \cup db.navaids : f.ident = wp.ident}
  IN  {ReplicaKey(f) : f \in IF wp.region # 0 /\ exact # {} THEN exact ELSE any}

AirwayEndpointNear(db, wp) ==
  LET named == {k \in UNION {KeysOf(db.airways[a]) : a \in DOMAIN db.airways} :
                  k.fix \div 10 = wp.ident /\ (wp.region = 0 \/ k.fix % 10 = wp.region)}
  IN  PickNearest({k \in named : Gap(k.at, wp.at) <= Tolerance}, wp.at)

NoFacility(wp) == wp.type \in {"AIRPORT", "USER"}

Resolved(chosen, onAirway) ==
  IF chosen # NULL THEN [key |-> chosen, viaEndpoint |-> FALSE]
  ELSE IF onAirway # NULL THEN [key |-> onAirway, viaEndpoint |-> TRUE] ELSE NULL

ResolvePlannedKey(db, wp, near) ==
  IF NoFacility(wp) THEN NULL
  ELSE Resolved(PickNearest(LookupCandidates(db, wp), IF wp.at # NULL THEN wp.at ELSE near),
                IF wp.at = NULL THEN NULL ELSE AirwayEndpointNear(db, wp))

\* A direct segment (0), and the plan's own procedures, are no airways.
IsNonAirway(leg, airway) ==
  airway \in {0, leg.sid, leg.sidTransition, leg.star, leg.starTransition}

AirwayAttempted(leg, wp, prevIsAirport, hasPrevious) ==
  wp.type # "AIRPORT" /\ ~prevIsAirport /\ ~IsNonAirway(leg, wp.airway) /\ hasPrevious /\ wp.at # NULL

-----------------------------------------------------------------------------
(* buildEnroute(): one waypoint at a time. *)

Via(db, airway, from, to) ==
  IF airway \notin DOMAIN db.airways THEN NULL ELSE ExpandAirway(db.airways[airway], from, to)

Complaints(s, wp, found) ==
  IF NoFacility(wp) THEN {}
  ELSE IF found = NULL THEN {<<"ident not in cache", wp.ident>>}
  ELSE IF ~found.viaEndpoint /\ (wp.at = NULL \/ Gap(wp.at, found.key.at) > Tolerance)
       THEN {<<"position disagrees with cache", wp.ident>>} ELSE {}

\* `via`: the fixes of the airway before the waypoint, NULL when there are none
\* or no airway is tried.
Advance(s, wp, found, missed, via) ==
  LET drawn == IF via = NULL THEN s.chain
               ELSE FoldLeft(LAMBDA c, k : Push(c, k.fix \div 10, k.at), s.chain, via)
  IN  [chain |-> IF wp.at = NULL THEN drawn ELSE Push(drawn, wp.ident, wp.at),
       near |-> IF wp.at = NULL THEN s.near ELSE wp.at,
       prevKey |-> IF found = NULL THEN NULL ELSE found.key, prevIsAirport |-> wp.type = "AIRPORT",
       unresolved |-> s.unresolved \cup Complaints(s, wp, found)
                        \cup (IF missed /\ via = NULL THEN {<<"no path found", wp.airway>>} ELSE {})]

\* An airway between two names of one fix is no gap.
AlongAirway(db, s, wp, found, tries) ==
  LET key == IF found = NULL THEN NULL ELSE found.key
      apart == s.prevKey = NULL \/ key = NULL \/ s.prevKey # key
  IN  Advance(s, wp, found, tries /\ apart,
              IF tries /\ apart /\ s.prevKey # NULL /\ key # NULL
              THEN Via(db, wp.airway, s.prevKey, key) ELSE NULL)

EnrouteWaypoint(db, leg, s, wp) ==
  AlongAirway(db, s, wp, ResolvePlannedKey(db, wp, s.near),
              AirwayAttempted(leg, wp, s.prevIsAirport, s.chain.points # <<>>))

BuildEnroute(db, leg) ==
  FoldLeft(LAMBDA s, wp : EnrouteWaypoint(db, leg, s, wp),
           [chain |-> [EmptyChain EXCEPT !.source = leg.id], near |-> leg.departureAt, prevKey |-> NULL,
            prevIsAirport |-> FALSE, unresolved |-> {}],
           leg.waypoints)

-----------------------------------------------------------------------------
(* Procedures. *)

SmallestKey(S) == IF S = {} THEN NULL ELSE CHOOSE p \in S : \A q \in S : p.key <= q.key

\* For the runway of the plan, else for any runway, else the first there is.
SelectProcedure(db, airport, kind, name, runway) ==
  LET named   == {p \in db.procs : p.airport = airport /\ p.kind = kind /\ p.name = name /\ p.suffix = 0}
      fitting == {p \in named : runway # NULL /\ p.runway = runway}
      generic == {p \in named : p.runway = NULL}
  IN  IF fitting # {} THEN SmallestKey(fitting)
      ELSE IF generic # {} THEN SmallestKey(generic) ELSE SmallestKey(named)

\* Of this runway and suffix and nothing else; the type of the plan when there
\* is one of it; then the one that is entered at the fix the plan names.
SelectApproach(db, airport, fix, runway, suffix, type) ==
  LET here   == {p \in db.procs : p.airport = airport /\ p.kind = "APPROACH"
                                   /\ p.runway = runway /\ p.suffix = suffix}
      typed  == {p \in here : type # NULL /\ p.type = type}
      rows   == IF typed # {} THEN typed ELSE here
      met    == {p \in rows : p.faf = fix \/ \E t \in ToSet(p.transitions) : t.name = fix}
  IN  IF met # {} THEN SmallestKey(met) ELSE SmallestKey(rows)

First(list) == IF list = <<>> THEN NULL ELSE Head(list)

\* Named by the plan, else joined to the route at its end.
PickEnrouteTransition(transitions, name, fix, end) ==
  LET Joint(t) == IF end = "first" THEN Head(t.legs) ELSE Last(t.legs)
      enroute == SelectSeq(transitions, LAMBDA t : t.role = "enroute")
      named   == SelectSeq(enroute, LAMBDA t : name # 0 /\ t.name = name)
  IN  IF named # <<>> THEN Head(named)
      ELSE First(SelectSeq(enroute, LAMBDA t : fix # NULL /\ t.legs # <<>> /\ Joint(t).ident = fix))

RunwayTransitionFor(transitions, runway) ==
  First(SelectSeq(transitions, LAMBDA t : runway # NULL /\ t.role = "runway" /\ t.runway = runway))

Missing(db, airport, name) ==
  <<IF airport \in db.detailed THEN "procedure not in cache" ELSE "airport detail not fetched", name>>

\* `built` is what the transitions of proc make, once there is one.
ProcedureChain(db, airport, name, runway, needsRunway, proc, built) ==
  CASE runway = "bad" -> [chain |-> EmptyChain, unresolved |-> {<<"unparseable runway", name>>}]
    [] runway = NULL /\ needsRunway ->
         [chain |-> EmptyChain, unresolved |-> {<<"approach runway not specified", name>>}]
    [] OTHER ->
         IF proc = NULL THEN [chain |-> EmptyChain, unresolved |-> {Missing(db, airport, name)}]
         ELSE [chain |-> IF built.points = <<>> THEN [EmptyChain EXCEPT !.skipped = built.skipped]
                         ELSE [built EXCEPT !.source = proc.key],
               unresolved |-> {}]

Nothing == [chain |-> EmptyChain, unresolved |-> {}]

InnerIdents(leg) ==
  LET inner == SelectSeq(leg.waypoints, LAMBDA w : w.type # "AIRPORT")
  IN  [first |-> IF inner = <<>> THEN NULL ELSE Head(inner).ident,
       last |-> IF inner = <<>> THEN NULL ELSE Last(inner).ident]

Common(transitions) == First(SelectSeq(transitions, LAMBDA t : t.role = "common"))

\* The runway of the procedure stands in for one the plan does not name.
RunwayFor(runway, proc) == IF runway # NULL THEN runway ELSE proc.runway

Joined(first, second, third) ==
  AddTransition(AddTransition(AddTransition(EmptyChain, first), second), third)

SidOf(db, leg, proc) ==
  ProcedureChain(db, leg.from, leg.sid, leg.sidRunway, FALSE, proc,
                 Joined(RunwayTransitionFor(proc.transitions, RunwayFor(leg.sidRunway, proc)),
                        Common(proc.transitions),
                        PickEnrouteTransition(proc.transitions, leg.sidTransition, InnerIdents(leg).first, "last")))

BuildSid(db, leg) ==
  IF leg.sid = 0 THEN Nothing
  ELSE SidOf(db, leg, SelectProcedure(db, leg.from, "SID", leg.sid, leg.sidRunway))

StarOf(db, leg, proc) ==
  ProcedureChain(db, leg.to, leg.star, leg.starRunway, FALSE, proc,
                 Joined(PickEnrouteTransition(proc.transitions, leg.starTransition, InnerIdents(leg).last, "first"),
                        Common(proc.transitions),
                        RunwayTransitionFor(proc.transitions, RunwayFor(leg.starRunway, proc))))

BuildStar(db, leg) ==
  IF leg.star = 0 THEN Nothing
  ELSE StarOf(db, leg, SelectProcedure(db, leg.to, "STAR", leg.star, leg.starRunway))

\* The transition the plan names, else the one that begins nearest to the end
\* of the arrival, or of the route.
ApproachTransition(ts, name, anchor) ==
  LET approaches == SelectSeq(ts, LAMBDA t : t.role = "approach")
      named  == SelectSeq(approaches, LAMBDA t : name # 0 /\ t.name = name)
      Start(t) == First(SelectSeq(t.legs, LAMBDA l : l.at # NULL))
      placed == SelectSeq(approaches, LAMBDA t : Start(t) # NULL)
      Away(i) == Gap(anchor, Start(placed[i]).at)
  IN  IF named # <<>> THEN Head(named)
      ELSE IF anchor = NULL \/ placed = <<>> THEN NULL
      ELSE placed[CHOOSE i \in DOMAIN placed : \A j \in DOMAIN placed :
                    Away(i) < Away(j) \/ (Away(i) = Away(j) /\ i <= j)]

ApproachOf(db, leg, anchor, proc) ==
  ProcedureChain(db, leg.to, leg.approach, leg.approachRunway, TRUE, proc,
                 Joined(ApproachTransition(proc.transitions, leg.approachTransition, anchor),
                        First(SelectSeq(proc.transitions, LAMBDA t : t.role = "final")), NULL))

BuildApproach(db, leg, star, enroute) ==
  IF leg.approach = 0 THEN Nothing
  ELSE ApproachOf(db, leg, IF star.points # <<>> THEN Last(star.points).at
                           ELSE IF enroute.points # <<>> THEN Last(enroute.points).at ELSE NULL,
                  SelectApproach(db, leg.to, leg.approach, leg.approachRunway, leg.approachSuffix, leg.approachType))

\* A custom procedure is [name, runway, distance]; a runway of the replica is
\* [airport, name, at, half, way]: `way` is the direction of landing, 1 or -1.
BuildSynthetic(db, kind, airport, custom) ==
  LET found == {r \in db.runways : r.airport = airport /\ r.name = custom.runway}
      r == CHOOSE x \in found : TRUE
      threshold == r.at - r.way * r.half
      Away(way) == threshold + way * custom.distance
      Points(s) == [EmptyChain EXCEPT !.source = custom.name, !.points = s]
  IN  CASE custom.runway = "bad" -> [chain |-> EmptyChain, unresolved |-> {<<"unparseable runway", custom.name>>}]
        [] custom.runway = NULL \/ (custom.runway # "bad" /\ found = {}) ->
             [chain |-> EmptyChain, unresolved |-> {<<"custom procedure, no runway", custom.name>>}]
        [] OTHER ->
             IF custom.distance <= 0
             THEN [chain |-> EmptyChain, unresolved |-> {<<"custom procedure, invalid distance", custom.name>>}]
             ELSE [unresolved |-> {},
                   chain |-> IF kind = "sid"
                             THEN Points(<<[ident |-> 0, at |-> threshold], [ident |-> custom.name, at |-> Away(r.way)]>>)
                             ELSE Points(<<[ident |-> custom.name, at |-> Away(-r.way)], [ident |-> 0, at |-> threshold]>>)]

Geometry(enroute, sid, star, approach) ==
  [sid |-> sid.chain, enroute |-> enroute.chain, star |-> star.chain, approach |-> approach.chain,
   unresolved |-> enroute.unresolved \cup sid.unresolved \cup star.unresolved \cup approach.unresolved]

WithApproach(db, leg, enroute, sid, star) ==
  Geometry(enroute, sid, star, BuildApproach(db, leg, star.chain, enroute.chain))

\* Without a replica nothing is drawn and nothing is missed.
BuildRouteGeometry(leg, db) ==
  IF db = NULL THEN Geometry(Nothing, Nothing, Nothing, Nothing)
  ELSE WithApproach(db, leg, BuildEnroute(db, leg),
                    IF leg.custom = NULL THEN BuildSid(db, leg) ELSE BuildSynthetic(db, "sid", leg.from, leg.custom),
                    BuildStar(db, leg))

-----------------------------------------------------------------------------
(* What is promised. *)

Chains(geometry) == {geometry.sid, geometry.enroute, geometry.star, geometry.approach}

\* What a chain is drawn from is drawable: no point stands twice in a row, and
\* an arc joins a point to the one after it.
ChainIsDrawable(chain) ==
  /\ \A i \in 1..(Len(chain.points) - 1) : chain.points[i].at # chain.points[i + 1].at
  /\ \A arc \in chain.arcs : arc[2] = arc[1] + 1 /\ arc[2] <= Len(chain.points)

\* The positions a plan gives, each once in a row.
Planned(leg) ==
  FoldLeft(LAMBDA t, w : IF w.at = NULL \/ (t # <<>> /\ Last(t) = w.at) THEN t ELSE Append(t, w.at),
           <<>>, leg.waypoints)

\* How many of them the points pass, in order.
Passed(planned, points) ==
  FoldLeft(LAMBDA n, p : IF n < Len(planned) /\ planned[n + 1] = p.at THEN n + 1 ELSE n, 0, points)

OneFixOrJoined(db, airway, a, b) ==
  a # NULL /\ b # NULL /\ (a.key = b.key \/ Via(db, airway, a.key, b.key) # NULL)

EnrouteFollows(leg, db, g) ==
  LET lookedUp == {w \in ToSet(leg.waypoints) : ~NoFacility(w)}
  IN  /\ \A w \in lookedUp : (\E f \in db.fixes \cup db.navaids : f.ident = w.ident)
                               => <<"ident not in cache", w.ident>> \notin g.unresolved
      /\ \A i \in 2..Len(leg.waypoints) :
           LET v == leg.waypoints[i - 1]
               w == leg.waypoints[i]
           IN  /\ {v, w} \subseteq lookedUp /\ v.at # NULL /\ w.at # NULL
               /\ ~IsNonAirway(leg, w.airway) /\ <<"no path found", w.airway>> \notin g.unresolved
               => OneFixOrJoined(db, w.airway, ResolvePlannedKey(db, v, NULL), ResolvePlannedKey(db, w, NULL))

ProceduresOfThePlan(leg, db, g) ==
  LET Proc(chain) == CHOOSE p \in db.procs : p.key = chain.source
  IN  /\ g.star.source # NULL => Proc(g.star).airport = leg.to /\ Proc(g.star).name = leg.star
      /\ g.approach.source # NULL =>
           Proc(g.approach).airport = leg.to /\ Proc(g.approach).runway = leg.approachRunway
      /\ leg.custom = NULL /\ g.sid.source # NULL /\ leg.sidRunway # NULL
         /\ Proc(g.sid).runway # leg.sidRunway
         => ~ \E p \in db.procs : /\ p.airport = leg.from /\ p.kind = "SID" /\ p.name = leg.sid
                                  /\ p.suffix = 0 /\ p.runway = leg.sidRunway

Follows(leg, db, g) ==
  /\ \A chain \in Chains(g) : ChainIsDrawable(chain)
  /\ db = NULL => \A chain \in Chains(g) : chain = EmptyChain
  /\ db # NULL => /\ LET planned == Planned(leg) IN Passed(planned, g.enroute.points) = Len(planned)
                  /\ EnrouteFollows(leg, db, g)
                  /\ ProceduresOfThePlan(leg, db, g)

\* The line follows the plan: every planned position is on it, in order; an
\* airway the plan flies along is followed leg by leg or reported, as is a
\* point the replica does not know; and the procedures drawn are those of the
\* plan's airports, the approach of the plan's runway and no other.
RouteFollowsThePlan(leg, db) == Follows(leg, db, BuildRouteGeometry(leg, db))
=============================================================================
