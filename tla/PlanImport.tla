----------------------------- MODULE PlanImport -----------------------------
(***************************************************************************)
(* The import of planned legs: batch of Little Navmap files, SimBrief    *)
(* plans fetched across an await, and the order of the legs of a trip      *)
(* (src/routes/plannedLegs.ts, src/db/plannedLegs.ts,                      *)
(* src/simbriefImport.ts).  A pool is a trip, or Loose for the legs of no  *)
(* trip; seq orders a pool.  A batch is one transaction per leg, so a      *)
(* database error or a death may cut it after any of them.                 *)
(***************************************************************************)
EXTENDS Naturals, Sequences, FiniteSets, Functions, FiniteSetsExt

CONSTANTS
  Trips,      \* identifiers of trips
  Loose,      \* the pool of the legs that have no trip
  Files,      \* the .lnmpln files: [plan, from, to, airports, parses]
  Ofps,       \* the SimBrief plans, with the fields of a file
  Uploads,    \* the files of one upload, in the order they were picked
  Requests,   \* SimBrief imports under way at once
  MaxLegs,    \* bound: legs created in all
  MaxEdits,   \* bound: deletions, reorders, deaths, forced imports and batches cut
  NULL

INSTANCE ChainOrder

Pools == Trips \cup {Loose}
Plans == Files \cup Ofps

VARIABLES
  trips,     \* the trips that exist
  legs,      \* rows of planned_legs: [id, pool, seq, plan]
  lastId,    \* AUTOINCREMENT of planned_legs
  releases,  \* legs with a dispatch release in their ACARS thread
  asked,     \* per request: the SimBrief import that waits for its answer, or NULL
  forced,    \* history: <<pool, plan>> imported with allow_duplicates
  batch,     \* history: per pool, the one set of files ever uploaded to it, {} before;
             \* NULL once it got anything else
  edits      \* bound

vars == <<trips, legs, lastId, releases, asked, forced, batch, edits>>

Ask == [pool : Pools, allow : BOOLEAN]

TypeOK ==
  /\ trips \subseteq Trips
  /\ \A l \in legs : l.id \in 1..lastId /\ l.pool \in trips \cup {Loose} /\ l.seq >= 1 /\ l.plan \in Plans
  /\ \A k, l \in legs : k.id = l.id => k = l
  /\ lastId \in Nat
  /\ releases \subseteq {l.id : l \in legs}
  /\ asked \in [Requests -> Ask \cup {NULL}]

Init ==
  /\ trips = Trips
  /\ legs = {}
  /\ lastId = 0
  /\ releases = {}
  /\ asked = [r \in Requests |-> NULL]
  /\ forced = {}
  /\ batch = [p \in Pools |-> {}]
  /\ edits = 0

Edit == edits < MaxEdits /\ edits' = edits + 1

Edited(p) ==
  /\ Edit
  /\ batch' = [batch EXCEPT ![p] = NULL]

-----------------------------------------------------------------------------
(* Statements. *)

LegsOf(p, rows) == {l \in rows : l.pool = p}

\* Mutant: "trip_id = ?", which no loose leg satisfies.
NextSeqEquals(p, rows) ==
  1 + Max({l.seq : l \in LegsOf(p, rows) \ LegsOf(Loose, rows)} \cup {0})

\* "trip_id IS ?": the loose pool is numbered like a trip.
NextSeq(p, rows) == 1 + Max({l.seq : l \in LegsOf(p, rows)} \cup {0})

\* createPlannedLeg()
WithLeg(rows, id, p, plan) == rows \cup {[id |-> id, pool |-> p, seq |-> NextSeq(p, rows), plan |-> plan]}

\* The first n plans of a batch, one createPlannedLeg() after the other: each
\* finds the one before it at the end of the pool.
WithBatch(p, plans, n) ==
  legs \cup {[id |-> lastId + i, pool |-> p, seq |-> NextSeq(p, legs) + i - 1, plan |-> plans[i]] : i \in 1..n}

\* findPlannedLegBySource()
Imported(p, plan) == \E l \in LegsOf(p, legs) : l.plan = plan

-----------------------------------------------------------------------------
(* POST /trips/:id/planned-legs and POST /planned-legs. *)

\* The files that get inserted, in the order of the upload: those that parse
\* and, unless duplicates are allowed, neither stand in the pool nor were seen
\* earlier in the upload.
Accepted(p, files, allow) ==
  LET Taken(file, seen) == file.parses /\ (allow \/ ~(Imported(p, file) \/ file \in Range(seen)))
      toInsert[n \in 0..Len(files)] ==
        IF n = 0 THEN <<>>
        ELSE IF Taken(files[n], toInsert[n - 1])
             THEN Append(toInsert[n - 1], files[n])
             ELSE toInsert[n - 1]
  IN  toInsert[Len(files)]

InInsertOrder(plans) ==
  LET order == ChainOrderForBatch(plans).order IN [i \in DOMAIN plans |-> plans[order[i]]]

\* A database error ends the batch after `done` legs with 500; a death may
\* end it anywhere (Kill forgets the rest of the server's memory).
Upload(p, files, allow) ==
  LET plans == InInsertOrder(Accepted(p, files, allow))
  IN  /\ p \in trips \cup {Loose}
      /\ \E done \in 0..(MaxLegs - lastId) :
           /\ done <= Len(plans)
           /\ legs' = WithBatch(p, plans, done)
           /\ lastId' = lastId + done
           /\ IF allow
              THEN /\ forced' = forced \cup {<<p, plans[i]>> : i \in 1..done}
                   /\ Edited(p)
              ELSE /\ batch' = [batch EXCEPT ![p] = IF @ \in {{}, Range(files)} THEN Range(files) ELSE NULL]
                   /\ IF done < Len(plans) THEN Edit ELSE UNCHANGED edits
                   /\ UNCHANGED forced
      /\ UNCHANGED <<trips, releases, asked>>

-----------------------------------------------------------------------------
(* The SimBrief imports: the trip is looked up before the request to        *)
(* SimBrief, everything else happens when its answer is there.              *)

AskSimbrief(r, p, allow) ==
  /\ asked[r] = NULL
  /\ p \in trips \cup {Loose}
  /\ asked' = [asked EXCEPT ![r] = [pool |-> p, allow |-> allow]]
  /\ IF allow THEN Edit ELSE UNCHANGED edits
  /\ UNCHANGED <<trips, legs, lastId, releases, forced, batch>>

\* A fetch or parse error, a plan that is there already, or a trip that went
\* while SimBrief was asked (its foreign key fails): nothing changes.
Refused(p, allow, plan) == (~allow /\ Imported(p, plan)) \/ p \notin trips \cup {Loose}

SimbriefFails(r) ==
  /\ asked[r] # NULL
  /\ asked' = [asked EXCEPT ![r] = NULL]
  /\ UNCHANGED <<trips, legs, lastId, releases, forced, batch, edits>>

SimbriefRefused(r, plan) ==
  /\ asked[r] # NULL
  /\ Refused(asked[r].pool, asked[r].allow, plan)
  /\ asked' = [asked EXCEPT ![r] = NULL]
  /\ UNCHANGED <<trips, legs, lastId, releases, forced, batch, edits>>

\* The leg is committed first; its release is filed in a transaction of its
\* own, whose failure the import survives.
SimbriefImported(r, plan, released) ==
  /\ asked[r] # NULL
  /\ LET p == asked[r].pool
     IN  /\ ~Refused(p, asked[r].allow, plan)
         /\ lastId < MaxLegs
         /\ legs' = WithLeg(legs, lastId + 1, p, plan)
         /\ lastId' = lastId + 1
         /\ releases' = IF released THEN releases \cup {lastId + 1} ELSE releases
         /\ forced' = IF asked[r].allow THEN forced \cup {<<p, plan>>} ELSE forced
         /\ batch' = [batch EXCEPT ![p] = NULL]
  /\ asked' = [asked EXCEPT ![r] = NULL]
  /\ UNCHANGED <<trips, edits>>

-----------------------------------------------------------------------------
(* The other writers of these columns. *)

\* ON DELETE CASCADE takes the leg's thread with it.
Delete(gone) ==
  /\ legs' = legs \ gone
  /\ releases' = releases \ {l.id : l \in gone}

DeleteLeg(l) ==
  /\ Delete({l})
  /\ Edited(l.pool)
  /\ UNCHANGED <<trips, lastId, asked, forced>>

DeleteTrip(t) ==
  /\ t \in trips
  /\ trips' = trips \ {t}
  /\ Delete(LegsOf(t, legs))
  /\ Edited(t)
  /\ UNCHANGED <<lastId, asked, forced>>

\* PATCH /trips/:id/planned-legs/order: the list must name every leg of the
\* trip once, whatever the page that sends it has last seen.
Complete(t, order) ==
  /\ Range(order) = {l.id : l \in LegsOf(t, legs)}
  /\ Len(order) = Cardinality(LegsOf(t, legs))

Renumbered(l, order) ==
  IF l.id \in Range(order)
  THEN [l EXCEPT !.seq = CHOOSE i \in DOMAIN order : order[i] = l.id]
  ELSE l

Reorder(t, order) ==
  /\ t \in trips
  /\ Complete(t, order)
  /\ legs' = {Renumbered(l, order) : l \in legs}
  /\ Edited(t)
  /\ UNCHANGED <<trips, lastId, releases, asked, forced>>

\* A death loses the imports under way.
Kill ==
  /\ Edit
  /\ asked' = [r \in Requests |-> NULL]
  /\ UNCHANGED <<trips, legs, lastId, releases, forced, batch>>

\* What a trip page may send: the legs it once showed, in any order.
Orders == UNION {Injection(1..n, 1..MaxLegs) : n \in 0..MaxLegs}

Next ==
  \/ \E p \in Pools, files \in Uploads, allow \in BOOLEAN : Upload(p, files, allow)
  \/ \E r \in Requests, p \in Pools, allow \in BOOLEAN : AskSimbrief(r, p, allow)
  \/ \E r \in Requests : SimbriefFails(r)
  \/ \E r \in Requests, plan \in Ofps : SimbriefRefused(r, plan)
  \/ \E r \in Requests, plan \in Ofps, released \in BOOLEAN : SimbriefImported(r, plan, released)
  \/ \E l \in legs : DeleteLeg(l)
  \/ \E t \in Trips : DeleteTrip(t)
  \/ \E t \in Trips, order \in Orders : Reorder(t, order)
  \/ Kill

Spec == Init /\ [][Next]_vars

-----------------------------------------------------------------------------
(* Properties *)

\* The order of a pool is total whatever was imported, deleted, reordered
\* and imported again: no two of its legs have one seq.
OrderIsTotal == \A k, l \in legs : k.pool = l.pool /\ k.seq = l.seq => k = l

\* No pool has a plan twice that was never imported with allow_duplicates:
\* not by the same file twice in an upload, a retry of a batch that was cut,
\* or two SimBrief imports that overlap.
OnePlanOnce ==
  \A k, l \in legs :
    k.pool = l.pool /\ k.plan = l.plan /\ k # l => <<k.pool, k.plan>> \in forced

\* When all a pool ever got is one batch that chains, sent once or again
\* after it was cut anywhere, its legs stand in route order, in whatever
\* order the files were picked.
Simple(files) ==
  /\ \A f \in files : f.parses /\ f.airports
  /\ \A f, g \in files : f # g => f.from # g.from /\ f.to # g.to

Routes(files) ==
  {c \in Injection(1..Cardinality(files), files) :
     /\ Range(c) = files
     /\ \A n \in 2..Cardinality(files) : c[n - 1].to = c[n].from
     /\ \A g \in files : g.to # c[1].from}

Chains(files) == Simple(files) /\ Routes(files) # {}

RouteOrderSurvivesRetries ==
  \A p \in Pools :
    batch[p] # NULL /\ Chains(batch[p]) =>
       \A k, l \in LegsOf(p, legs) : k.plan.to = l.plan.from => k.seq < l.seq

\* An import or a deletion leaves the legs that stay in their order, and
\* what an import adds comes after them.
Before(k, l, rows) ==
  \E a, b \in rows : a.id = k.id /\ b.id = l.id /\ a.pool = b.pool /\ a.seq < b.seq

ImportsAppend ==
  [][ {l.id : l \in legs} # {l.id : l \in legs'} =>
        /\ \A k, l \in legs' :
             k.pool = l.pool /\ k.id <= lastId /\ l.id > lastId => k.seq < l.seq
        /\ \A k, l \in legs \cap legs' : Before(k, l, legs) => Before(k, l, legs') ]_vars
=============================================================================
