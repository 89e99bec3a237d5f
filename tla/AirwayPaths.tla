---------------------------- MODULE AirwayPaths ----------------------------
(***************************************************************************)
(* Airways as the replica holds them (src/navdata/routeGeometry.ts): an    *)
(* airway is a set of legs <<from, to>> between keys.  A key is [fix, at]: *)
(* what stands before its position, and the position, in one dimension;    *)
(* keys of one fix whose positions differ by little are one fix.           *)
(* expandAirway() finds the fixes between two keys, for the map;           *)
(* walkAirway() says what can be reached, for the demand of the sidecar.   *)
(***************************************************************************)
EXTENDS Integers, Sequences, FiniteSets, SequencesExt, FiniteSetsExt, TLC

CONSTANTS Join, MaxHops, MaxVisited, NULL

Gap(m, n) == IF m > n THEN m - n ELSE n - m

KeysNear(a, b) == a.fix = b.fix /\ Gap(a.at, b.at) <= Join

\* The order of the texts of the keys.
Before(a, b) == a.fix < b.fix \/ (a.fix = b.fix /\ a.at < b.at)

InOrder(keys) ==
  [i \in 1..Cardinality(keys) |-> CHOOSE k \in keys : Cardinality({l \in keys : Before(l, k)}) = i - 1]

KeysOf(legs) == UNION {{leg[1], leg[2]} : leg \in legs}

-----------------------------------------------------------------------------
(* expandAirway() *)

\* Keys that stand for their cluster: in ascending order, each that is near
\* none of those taken before it.
Representatives(legs) ==
  FoldLeft(LAMBDA reps, k : IF \E r \in ToSet(reps) : KeysNear(r, k) THEN reps ELSE Append(reps, k),
           <<>>, InOrder(KeysOf(legs)))

\* Mutant: keys are joined only when they are equal.
CanonExact(legs, k) == k

FirstOr(keys, k) == IF keys = <<>> THEN k ELSE Head(keys)

Canon(legs, k) == FirstOr(SelectSeq(Representatives(legs), LAMBDA r : KeysNear(r, k)), k)

\* The legs between the representatives.
Edges(legs) ==
  LET canon == [k \in KeysOf(legs) |-> Canon(legs, k)]
  IN  {{canon[leg[1]], canon[leg[2]]} : leg \in legs}

Neighbours(edges, k) == UNION {e \in edges : k \in e} \ {k}

Enqueue(s, cur, taken, full) ==
  [queue |-> s.queue \o taken, next |-> s.next + 1,
   parent |-> [k \in ToSet(taken) |-> cur] @@ s.parent,
   depth |-> [k \in ToSet(taken) |-> s.depth[cur] + 1] @@ s.depth,
   done |-> full, full |-> full]

\* The keys that are new, as far as the cap has room for them.
Discover(s, cur, fresh, room) ==
  Enqueue(s, cur, SubSeq(fresh, 1, Min({room, Len(fresh)})), room < Len(fresh))

\* One round of the search: the next key of the queue finds its neighbours.
Visit(edges, target, s) ==
  IF s.done \/ s.next > Len(s.queue) THEN s
  ELSE IF s.queue[s.next] = target THEN [s EXCEPT !.done = TRUE]
  ELSE IF s.depth[s.queue[s.next]] >= MaxHops THEN [s EXCEPT !.next = @ + 1]
  ELSE Discover(s, s.queue[s.next], InOrder(Neighbours(edges, s.queue[s.next]) \ DOMAIN s.parent),
                MaxVisited - Cardinality(DOMAIN s.parent))

Search(edges, from, to) ==
  FoldLeft(LAMBDA s, i : Visit(edges, to, s),
           [queue |-> <<from>>, next |-> 1, parent |-> [k \in {from} |-> NULL],
            depth |-> [k \in {from} |-> 0], done |-> FALSE, full |-> FALSE],
           [i \in 1..(Cardinality(UNION edges) + 1) |-> i])

\* The keys from `to` back to the start, the start first.
PathBack(s, to) ==
  FoldLeft(LAMBDA path, i : IF s.parent[Head(path)] = NULL THEN path ELSE <<s.parent[Head(path)]>> \o path,
           <<to>>, [i \in 1..s.depth[to] |-> i])

\* What lies between the ends of a search: NULL if it did not get there.
Between(s, to) ==
  IF s.full \/ to \notin DOMAIN s.parent THEN NULL
  ELSE SubSeq(PathBack(s, to), 2, s.depth[to])

PathBetween(edges, from, to) ==
  IF {from, to} \subseteq UNION edges THEN Between(Search(edges, from, to), to) ELSE NULL

\* The keys strictly between the two, or NULL.
ExpandAirway(legs, fromKey, toKey) ==
  PathBetween(Edges(legs), Canon(legs, fromKey), Canon(legs, toKey))

-----------------------------------------------------------------------------
(* walkAirway() *)

\* The keys one leg away, by the position of the one that is asked about.
Onward(legs, k) ==
  {leg[2] : leg \in {l \in legs : KeysNear(l[1], k) /\ ~KeysNear(l[2], k)}}
    \cup {leg[1] : leg \in {l \in legs : KeysNear(l[2], k) /\ ~KeysNear(l[1], k)}}

SeenKey(s, k) == \E v \in ToSet(s.visited) : KeysNear(v, k)

\* One key that is found: the walk ends at the target and at the cap.
Found(s, k, target) ==
  CASE s.stopped \/ SeenKey(s, k) -> s
    [] ~s.stopped /\ ~SeenKey(s, k) /\ Len(s.visited) >= MaxVisited -> [s EXCEPT !.stopped = TRUE]
    [] OTHER -> [visited |-> Append(s.visited, k), level |-> Append(s.level, k),
                 reached |-> target # NULL /\ KeysNear(k, target),
                 stopped |-> target # NULL /\ KeysNear(k, target)]

Ahead(legs, level) == FlattenSeq([i \in DOMAIN level |-> InOrder(Onward(legs, level[i]))])

WalkLevel(legs, target, s) ==
  IF s.stopped THEN s
  ELSE FoldLeft(LAMBDA t, k : Found(t, k, target), [s EXCEPT !.level = <<>>],
                Ahead(legs, InOrder(ToSet(s.level))))

Walked(legs, start, s) ==
  [nodes |-> IF Onward(legs, start) = {} THEN <<>> ELSE s.visited, reached |-> s.reached]

WalkAirway(legs, start, target) ==
  IF target # NULL /\ KeysNear(start, target) THEN [nodes |-> <<>>, reached |-> TRUE]
  ELSE Walked(legs, start,
              FoldLeft(LAMBDA t, i : WalkLevel(legs, target, t),
                       [visited |-> <<start>>, level |-> <<start>>, reached |-> FALSE, stopped |-> FALSE],
                       [i \in 1..MaxHops |-> i]))

-----------------------------------------------------------------------------
(* What they promise. *)

\* Keys that are near come in groups: no key is near two that are far apart.
Grouped(keys) ==
  \A a, b, c \in keys : KeysNear(a, b) /\ KeysNear(b, c) => KeysNear(a, c)

\* `path` and its ends follow legs of the airway, up to the rounding of keys.
FollowsLegs(legs, path) ==
  \A i \in 1..(Len(path) - 1) : \E leg \in legs :
    \/ KeysNear(leg[1], path[i]) /\ KeysNear(leg[2], path[i + 1])
    \/ KeysNear(leg[2], path[i]) /\ KeysNear(leg[1], path[i + 1])

\* The keys within n legs of a key.
Within(legs, k, n) ==
  FoldLeft(LAMBDA S, i : S \cup UNION {Onward(legs, x) : x \in S}, {k}, [i \in 1..n |-> i])

\* `path` is drawn between the two keys, NULL if none is.
Drawn(legs, from, to, path) ==
  LET Stops(n) == \E k \in Within(legs, from, n) : KeysNear(k, to)
  IN  IF path = NULL THEN ~Stops(MaxHops)
      ELSE /\ FollowsLegs(legs, <<from>> \o path \o <<to>>)
           /\ Len(path) + 1 <= MaxHops /\ Stops(Len(path) + 1) /\ ~Stops(Len(path))

Agreement(legs, from, to, path) ==
  /\ (path # NULL) <=> WalkAirway(legs, from, to).reached
  /\ Drawn(legs, from, to, path)

Plain(keys) == Grouped(keys) /\ Cardinality(keys) <= MaxVisited

\* What is drawn between two keys follows the airway and is as short as any
\* way; and the demand never holds two keys for joined that the map cannot
\* join, nor asks again for a joint that the map draws -- as long as the part
\* of the airway that can be reached stays below the cap.
MapAndDemandAgree(legs, from, to) ==
  Plain(KeysOf(legs) \cup {from, to}) /\ ~KeysNear(from, to) =>
    Agreement(legs, from, to, ExpandAirway(legs, from, to))
=============================================================================
