---------------------------- MODULE AcarsProofs ----------------------------
(* Proofs about the ACARS thread: every reply filed answers a request of its *)
(* own, with weather that was true when it was asked for, and a leg has one  *)
(* load sheet and one clearance; and its type invariant, which rests on it.  *)
EXTENDS Acars, FiniteSetTheorems, TLAPS

OnceKinds == PairKinds \cup {RequestOf[k] : k \in PairKinds}

(* What a thread is, whatever set of rows it is read from: rs is filed up to *)
(* the id n, which is the next to be given.                                  *)
Filed(rs, n) ==
  \A r \in rs : r.id \in 1 .. n - 1 /\ r.correlation \in Nat /\ r.at \in Nat
Distinct(rs) == \A r, s \in rs : r.id = s.id => r = s
RepliesOnly(rs) == \A r \in rs : r.correlation # None => r.kind \in ReplyKinds
RequestsNamed(rs) ==
  \A r \in rs : r.kind \in ReplyKinds =>
    \E q \in rs : /\ q.id = r.correlation /\ q.id < r.id
                  /\ q.kind = RequestOf[r.kind] /\ q.scope = r.scope
AnsweredOnce(rs) == \A r, s \in rs : r.correlation = s.correlation /\ r.correlation # None => r = s
OnceEach(rs) == \A k \in OnceKinds : AtMostOne(OfLeg(rs, k))
Timely(rs) == \A r, q \in rs : r.kind = "wx" /\ q.id = r.correlation => q.at < r.at + TTL
Thread(rs, n) ==
  /\ n \in Nat \ {0}
  /\ Filed(rs, n) /\ Distinct(rs) /\ RepliesOnly(rs) /\ RequestsNamed(rs) /\ AnsweredOnce(rs) /\ OnceEach(rs)
  /\ Timely(rs)

(* What waits for the weather service: the request each handler filed is     *)
(* there while its flight or leg is, and nothing answers it yet.             *)
Waits(rs, n, ws, ex) ==
  /\ \A w \in ws :
       /\ w.request \in 1 .. n - 1 /\ w.started \in Nat
       /\ w.scope \in ex => \E q \in rs : q.id = w.request
       /\ \A q \in rs : /\ q.id = w.request => q.kind = "wxRequest" /\ q.scope = w.scope /\ q.at = w.started
                        /\ q.correlation # w.request
  /\ \A v, w \in ws : v.request = w.request => v = w

(* An entry of the cache carries weather no older than the request it was    *)
(* fetched for, from which it lives.                                         *)
Cached == \A e \in cache : e.until \in Nat /\ e.seen \in Nat /\ e.until <= e.seen + TTL

AnswersInv ==
  /\ clock \in Nat
  /\ Thread(rows, nextId)
  /\ Waits(rows, nextId, waiting, exists)
  /\ Cached

\* The inductive invariant says what RepliesAnswer says.
LEMMA InvImpliesReplies == AnswersInv => RepliesAnswer
<1> SUFFICES ASSUME AnswersInv PROVE RepliesAnswer
  OBVIOUS
<1>1. ReplyIsFresh
  BY DEF AnswersInv, Thread, Timely, ReplyIsFresh
<1>2. \A kind \in PairKinds : \A k \in {kind, RequestOf[kind]} : AtMostOne(OfLeg(rows, k))
  BY DEF AnswersInv, Thread, OnceEach, OnceKinds
<1>3. PairsAreWhole
  BY <1>2 DEF AnswersInv, Thread, RequestsNamed, AnsweredOnce, PairsAreWhole
<1> QED BY <1>1, <1>3 DEF RepliesAnswer

-----------------------------------------------------------------------------
(* Filing.                                                                   *)

\* The kinds: a request is no reply, and belongs to one kind of reply.
LEMMA KindsApart ==
  /\ ReplyKinds \subseteq {"loadsheet", "clearance", "wx"}
  /\ \A k \in ReplyKinds : RequestOf[k] \notin ReplyKinds /\ RequestOf[k] # "canned"
  /\ \A j, k \in ReplyKinds : RequestOf[j] = RequestOf[k] => j = k
  /\ "wx" \notin OnceKinds /\ "wxRequest" \notin OnceKinds /\ "canned" \notin OnceKinds
  /\ "wxRequest" \notin ReplyKinds /\ "canned" \notin ReplyKinds /\ "wx" \in ReplyKinds
  /\ RequestOf["wx"] = "wxRequest"
  /\ \A k \in PairKinds : k \in ReplyKinds /\ k # "wx" /\ RequestOf[k] # "wxRequest" /\ k # RequestOf[k]
BY AcarsAssumption DEF ReplyKinds, RequestOf, OnceKinds

\* A row that may be filed with the next id: a reply answers a request that nothing
\* answers yet, anything else names none, and what a leg has once is not there yet.
Fits(rs, row) ==
  /\ row.correlation \in Nat /\ row.at \in Nat
  /\ row.kind \in ReplyKinds =>
       /\ row.correlation # None
       /\ \E q \in rs : /\ q.id = row.correlation /\ q.kind = RequestOf[row.kind] /\ q.scope = row.scope
                        /\ row.kind = "wx" => q.at < row.at + TTL
       /\ \A s \in rs : s.correlation # row.correlation
  /\ row.kind \notin ReplyKinds => row.correlation = None
  /\ row.kind \in OnceKinds => OfLeg(rs, row.kind) = {}

\* One more row with the next id, if it fits the thread.
LEMMA FilingKeepsThread ==
  ASSUME NEW rs, NEW n, Thread(rs, n), NEW row, row.id = n, Fits(rs, row)
  PROVE  Thread(rs \cup {row}, n + 1)
<1> DEFINE new == rs \cup {row}
<1> USE DEF Thread
<1>1. n \in Nat /\ n + 1 \in Nat \ {0} /\ \A r \in rs : r.id \in Nat /\ r.id < n
  BY DEF Filed
<1>2. Filed(new, n + 1)
  BY <1>1 DEF Filed, Fits
<1>3. Distinct(new)
  BY <1>1 DEF Distinct
<1>4. RepliesOnly(new)
  BY DEF RepliesOnly, Fits
<1>5. RequestsNamed(new)
  BY <1>1 DEF RequestsNamed, Fits
<1>6. AnsweredOnce(new)
  BY DEF AnsweredOnce, Fits
<1>7. OnceEach(new)
  <2> SUFFICES ASSUME NEW k \in OnceKinds PROVE AtMostOne(OfLeg(new, k))
    BY DEF OnceEach
  <2>1. AtMostOne(OfLeg(rs, k))
    BY DEF OnceEach
  <2>2. CASE row.kind = k
    BY <2>2 DEF Fits, OfLeg, AtMostOne
  <2>3. CASE row.kind # k
    BY <2>1, <2>3 DEF OfLeg, AtMostOne
  <2> QED BY <2>2, <2>3
<1>8. Timely(new)
  <2> SUFFICES ASSUME NEW r \in new, NEW q \in new, r.kind = "wx", q.id = r.correlation
               PROVE  q.at < r.at + TTL
    BY DEF Timely
  <2>1. CASE r \in rs /\ q \in rs
    BY <2>1 DEF Timely
  <2>2. CASE r \in rs /\ q = row
    <3>1. PICK p \in rs : p.id = r.correlation
      BY <2>2, KindsApart DEF RequestsNamed
    <3> QED BY <1>1, <2>2, <3>1
  <2>3. CASE r = row
    <3>1. PICK p \in rs : p.id = row.correlation /\ p.at < row.at + TTL
      BY <2>3, KindsApart DEF Fits
    <3>2. q # row
      BY <1>1, <2>3, <3>1
    <3>3. q = p
      BY <2>3, <3>1, <3>2 DEF Distinct
    <3> QED BY <2>3, <3>1, <3>3
  <2> QED BY <2>1, <2>2, <2>3
<1> QED BY <1>1, <1>2, <1>3, <1>4, <1>5, <1>6, <1>7, <1>8

\* What waits goes on waiting when something else is filed.
LEMMA FilingKeepsWaits ==
  ASSUME NEW rs, NEW n, Thread(rs, n), NEW ws, NEW ex, Waits(rs, n, ws, ex), NEW row, row.id = n,
         \A w \in ws : row.correlation # w.request
  PROVE  Waits(rs \cup {row}, n + 1, ws, ex)
<1>1. n \in Nat /\ \A w \in ws : w.request \in 1 .. n /\ w.request # n
  BY DEF Thread, Waits
<1> QED BY <1>1 DEF Waits

\* insertAcarsMessage gives the next id.
LEMMA FirstInsert ==
  ASSUME Thread(rows, nextId), NEW scope, NEW kind, NEW correlation, NEW at
  PROVE  LET row == Row(nextId, scope, kind, correlation, at)
             rs == AfterInsert(rows, scope, kind, correlation, at)
         IN /\ rs = rows \cup {row} /\ row \notin rows /\ IdAfter(rs) = nextId + 1
            /\ IdAfter(rows) = nextId
<1> DEFINE row == Row(nextId, scope, kind, correlation, at)
<1>1. nextId \in Nat
  BY DEF Thread
<1>2. IdAfter(rows) = nextId
  <2>1. rows \ rows = {}
    OBVIOUS
  <2>2. Cardinality(rows \ rows) = 0
    BY <2>1, FS_EmptySet
  <2> QED BY <1>1, <2>2 DEF IdAfter
<1>3. row \notin rows
  BY <1>1 DEF Thread, Filed, Row
<1>4. AfterInsert(rows, scope, kind, correlation, at) = rows \cup {row}
  BY <1>2 DEF AfterInsert
<1>5. IdAfter(rows \cup {row}) = nextId + 1
  <2>1. (rows \cup {row}) \ rows = {row}
    BY <1>3
  <2>2. Cardinality((rows \cup {row}) \ rows) = 1
    BY <2>1, FS_Singleton
  <2> QED BY <2>2 DEF IdAfter
<1> QED BY <1>2, <1>3, <1>4, <1>5

\* A second insert of the same call gives the one after it.
LEMMA SecondInsert ==
  ASSUME Thread(rows, nextId), NEW first, first.id = nextId,
         NEW scope, NEW kind, NEW correlation, NEW at
  PROVE  LET row == Row(nextId + 1, scope, kind, correlation, at)
             rs == AfterInsert(rows \cup {first}, scope, kind, correlation, at)
         IN /\ rs = rows \cup {first} \cup {row} /\ IdAfter(rs) = nextId + 2
            /\ IdAfter(rows \cup {first}) = nextId + 1
<1> DEFINE row == Row(nextId + 1, scope, kind, correlation, at)
<1>1. nextId \in Nat /\ row.id = nextId + 1
  BY DEF Thread, Row
<1>2. first \notin rows /\ row \notin rows /\ row # first
  BY <1>1 DEF Thread, Filed
<1>3. Cardinality({first}) = 1 /\ Cardinality({first, row}) = 2
  <2>1. IsFiniteSet({first}) /\ Cardinality({first}) = 1
    BY FS_Singleton
  <2>2. {first, row} = {first} \cup {row}
    OBVIOUS
  <2>3. Cardinality({first} \cup {row}) = 2
    BY <1>2, <2>1, FS_AddElement
  <2> QED BY <2>1, <2>2, <2>3
<1>4. IdAfter(rows \cup {first}) = nextId + 1
  <2>1. (rows \cup {first}) \ rows = {first}
    BY <1>2
  <2> QED BY <1>3, <2>1 DEF IdAfter
<1>5. AfterInsert(rows \cup {first}, scope, kind, correlation, at) = rows \cup {first} \cup {row}
  BY <1>4 DEF AfterInsert
<1>6. IdAfter(rows \cup {first} \cup {row}) = nextId + 2
  <2>1. (rows \cup {first} \cup {row}) \ rows = {first, row}
    BY <1>2
  <2> QED BY <1>3, <2>1 DEF IdAfter
<1> QED BY <1>4, <1>5, <1>6

-----------------------------------------------------------------------------
(* The actions.                                                              *)

\* One row that fits is filed, and what waits is as it was.
LEMMA FilingOne ==
  ASSUME AnswersInv, NEW row, row.id = nextId, Fits(rows, row), \A w \in waiting : row.correlation # w.request,
         rows' = rows \cup {row}, nextId' = nextId + 1, UNCHANGED <<clock, exists, cache, waiting>>
  PROVE  AnswersInv'
<1>1. Thread(rows', nextId')
  BY FilingKeepsThread DEF AnswersInv
<1>2. Waits(rows', nextId', waiting', exists')
  BY FilingKeepsWaits DEF AnswersInv
<1> QED BY <1>1, <1>2 DEF AnswersInv, Cached

\* Nothing is filed.
LEMMA FilingNone ==
  ASSUME AnswersInv, UNCHANGED <<clock, exists, rows, nextId>>,
         waiting' \subseteq waiting, cache' = cache \/ cache' = {}
  PROVE  AnswersInv'
<1>1. Waits(rows', nextId', waiting', exists')
  BY DEF AnswersInv, Waits
<1>2. Cached'
  BY DEF AnswersInv, Cached
<1> QED BY <1>1, <1>2 DEF AnswersInv

\* A canned message answers nothing.
LEMMA CannedKeeps ==
  ASSUME AnswersInv, NEW c \in Callers, NEW scope \in Scopes, Canned(c, scope)
  PROVE  AnswersInv'
<1> DEFINE row == Row(nextId, scope, "canned", None, 0)
<1>1. rows' = rows \cup {row} /\ nextId' = nextId + 1
  BY FirstInsert DEF AnswersInv, Canned, File
<1>2. UNCHANGED <<clock, exists, cache, waiting>>
  BY DEF Canned, server
<1>3. Fits(rows, row) /\ row.id = nextId /\ row.correlation = None
  BY KindsApart DEF Fits, Row, None
<1>4. \A w \in waiting : w.request # None
  BY DEF AnswersInv, Waits, Thread, None
<1> QED BY <1>1, <1>2, <1>3, <1>4, FilingOne

\* Weather that is cached is asked for and answered in one step.
LEMMA WxFromCacheKeeps ==
  ASSUME AnswersInv, NEW c \in Callers, NEW scope \in Scopes, WxFromCache(c, scope)
  PROVE  AnswersInv'
<1>1. PICK e \in Fresh :
        LET asking == AfterInsert(rows, scope, "wxRequest", None, clock)
        IN  File(AfterInsert(asking, scope, "wx", IdAfter(rows), e.seen))
  BY DEF WxFromCache
<1> DEFINE request == Row(nextId, scope, "wxRequest", None, clock)
           reply == Row(nextId + 1, scope, "wx", nextId, e.seen)
<1>2. nextId \in Nat \ {0} /\ clock \in Nat /\ e.seen \in Nat /\ clock < e.seen + TTL
  BY AcarsAssumption DEF AnswersInv, Thread, Cached, Fresh
<1>3. request.id = nextId /\ reply.id = nextId + 1
  BY DEF Row
<1>4. AfterInsert(rows, scope, "wxRequest", None, clock) = rows \cup {request} /\ IdAfter(rows) = nextId
  BY FirstInsert DEF AnswersInv
<1>5. rows' = rows \cup {request} \cup {reply} /\ nextId' = nextId + 2
  <2> HIDE DEF request, reply
  <2>1. LET rs == AfterInsert(rows \cup {request}, scope, "wx", nextId, e.seen)
        IN  rs = rows \cup {request} \cup {reply} /\ IdAfter(rs) = nextId + 2
    BY <1>3, SecondInsert DEF AnswersInv, reply
  <2> QED BY <1>1, <1>4, <2>1 DEF File
<1>6. UNCHANGED <<clock, exists, cache, waiting>>
  BY DEF WxFromCache, server
<1>7. Fits(rows, request) /\ request.correlation = None
  BY <1>2, KindsApart DEF Fits, Row, None
<1>8. \A w \in waiting : w.request # None /\ w.request # nextId
  BY <1>2 DEF AnswersInv, Waits, None
<1>9. Thread(rows \cup {request}, nextId + 1) /\ Waits(rows \cup {request}, nextId + 1, waiting, exists)
  <2> HIDE DEF request
  <2> QED BY <1>3, <1>7, <1>8, FilingKeepsThread, FilingKeepsWaits DEF AnswersInv
<1>10. Fits(rows \cup {request}, reply) /\ reply.correlation = nextId
  <2>1. \A s \in rows \cup {request} : s.correlation # nextId
    <3>1. \A s \in rows : s.correlation # nextId
      <4> SUFFICES ASSUME NEW s \in rows, s.correlation = nextId PROVE FALSE
        OBVIOUS
      <4>1. s.kind \in ReplyKinds
        BY <1>2 DEF AnswersInv, Thread, RepliesOnly, None
      <4>2. PICK q \in rows : q.id = nextId
        BY <4>1 DEF AnswersInv, Thread, RequestsNamed
      <4> QED BY <1>2, <4>2 DEF AnswersInv, Thread, Filed
    <3> QED BY <1>2, <1>7, <3>1 DEF None
  <2>2. request.kind = "wxRequest" /\ request.scope = scope /\ request.at = clock /\ request.id = nextId
    BY DEF Row
  <2>3. reply.kind = "wx" /\ reply.scope = scope /\ reply.at = e.seen /\ reply.correlation = nextId
    BY DEF Row
  <2> HIDE DEF request, reply
  <2> QED BY <1>2, <2>1, <2>2, <2>3, KindsApart DEF Fits, None
<1>11. Thread(rows', nextId') /\ Waits(rows', nextId', waiting', exists')
  <2> HIDE DEF request, reply
  <2>1. (nextId + 1) + 1 = nextId + 2
    BY <1>2
  <2>2. Thread(rows \cup {request} \cup {reply}, (nextId + 1) + 1)
    BY <1>3, <1>9, <1>10, FilingKeepsThread
  <2>3. Waits(rows \cup {request} \cup {reply}, (nextId + 1) + 1, waiting, exists)
    BY <1>3, <1>8, <1>9, <1>10, FilingKeepsWaits
  <2> QED BY <1>5, <1>6, <2>1, <2>2, <2>3
<1> QED BY <1>6, <1>11 DEF AnswersInv, Cached

\* A request whose weather is not cached waits for an answer.
LEMMA WxAskKeeps ==
  ASSUME AnswersInv, NEW c \in Callers, NEW scope \in Scopes, WxAsk(c, scope)
  PROVE  AnswersInv'
<1> DEFINE request == Row(nextId, scope, "wxRequest", None, clock)
           asked == [by |-> c, request |-> nextId, scope |-> scope, started |-> clock]
<1>1. rows' = rows \cup {request} /\ nextId' = nextId + 1
  BY FirstInsert DEF AnswersInv, WxAsk, File
<1>2. UNCHANGED <<clock, exists, cache>> /\ waiting' = waiting \cup {asked}
  BY DEF WxAsk
<1>3. nextId \in Nat \ {0} /\ clock \in Nat
  BY DEF AnswersInv, Thread
<1>4. Fits(rows, request) /\ request.id = nextId /\ request.correlation = None
  BY <1>3, KindsApart DEF Fits, Row, None
<1>5. \A w \in waiting : w.request # None /\ w.request # nextId
  BY <1>3 DEF AnswersInv, Waits, None
<1>6. Thread(rows', nextId') /\ Waits(rows', nextId', waiting, exists)
  <2> HIDE DEF request
  <2> QED BY <1>1, <1>4, <1>5, FilingKeepsThread, FilingKeepsWaits DEF AnswersInv
<1>7. \A q \in rows' : q.correlation # nextId /\ (q.id = nextId => q = request)
  <2> SUFFICES ASSUME NEW q \in rows, q.correlation = nextId \/ q.id = nextId PROVE FALSE
    BY <1>1, <1>3, <1>4 DEF None
  <2>1. q.id # nextId
    BY <1>3 DEF AnswersInv, Thread, Filed
  <2>2. q.kind \in ReplyKinds
    BY <1>3, <2>1 DEF AnswersInv, Thread, RepliesOnly, None
  <2>3. PICK p \in rows : p.id = nextId
    BY <2>1, <2>2 DEF AnswersInv, Thread, RequestsNamed
  <2> QED BY <1>3, <2>3 DEF AnswersInv, Thread, Filed
<1>8. asked.request = nextId /\ asked.started = clock /\ asked.scope = scope
      /\ request.kind = "wxRequest" /\ request.scope = scope /\ request.at = clock /\ request \in rows'
  BY <1>1 DEF Row
<1>9. Waits(rows', nextId', waiting', exists')
  <2> HIDE DEF request, asked
  <2> QED BY <1>1, <1>2, <1>3, <1>4, <1>5, <1>6, <1>7, <1>8 DEF Waits
<1> QED BY <1>2, <1>6, <1>9 DEF AnswersInv, Cached

\* The answer of the await is filed under the request that asked.
LEMMA WxAnsweredKeeps ==
  ASSUME AnswersInv, NEW w \in waiting, NEW seen \in w.started .. clock, WxAnswered(w, seen)
  PROVE  AnswersInv'
<1> DEFINE reply == Row(nextId, w.scope, "wx", w.request, seen)
<1>1. /\ cache' = {[until |-> w.started + TTL, seen |-> seen]} /\ waiting' = waiting \ {w}
      /\ UNCHANGED <<clock, exists>>
  BY DEF WxAnswered, Expiry
<1>2. w.started \in Nat /\ seen \in Nat /\ w.started <= seen /\ TTL \in Nat \ {0} /\ nextId \in Nat \ {0}
      /\ w.request \in Nat /\ w.request # 0 /\ w.request < nextId
  BY AcarsAssumption DEF AnswersInv, Waits, Thread
<1>3. Cached'
  <2> DEFINE entry == [until |-> w.started + TTL, seen |-> seen]
  <2>1. entry.until = w.started + TTL /\ entry.seen = seen
    OBVIOUS
  <2> HIDE DEF entry
  <2> QED BY <1>1, <1>2, <2>1 DEF Cached, entry
<1>4. Waits(rows, nextId, waiting \ {w}, exists)
  BY DEF AnswersInv, Waits
<1>5. CASE w.scope \in exists /\ File(AfterInsert(rows, w.scope, "wx", w.request, seen))
  <2>1. rows' = rows \cup {reply} /\ nextId' = nextId + 1
    BY <1>5, FirstInsert DEF AnswersInv, File
  <2>2. reply.id = nextId /\ reply.kind = "wx" /\ reply.scope = w.scope /\ reply.at = seen
        /\ reply.correlation = w.request
    BY DEF Row
  <2> HIDE DEF reply
  <2>3. Fits(rows, reply)
    <3>1. PICK q \in rows : q.id = w.request
      BY <1>5 DEF AnswersInv, Waits
    <3>2. q.kind = "wxRequest" /\ q.scope = w.scope /\ q.at = w.started
      BY <3>1 DEF AnswersInv, Waits
    <3>3. q.at < seen + TTL
      BY <1>2, <3>2
    <3>4. \A s \in rows : s.correlation # w.request
      BY DEF AnswersInv, Waits
    <3> QED BY <1>2, <2>2, <3>1, <3>2, <3>3, <3>4, KindsApart DEF Fits, None
  <2>4. \A v \in waiting \ {w} : reply.correlation # v.request
    BY <2>2 DEF AnswersInv, Waits
  <2>5. Thread(rows', nextId') /\ Waits(rows', nextId', waiting', exists')
    BY <1>1, <1>4, <2>1, <2>2, <2>3, <2>4, FilingKeepsThread, FilingKeepsWaits DEF AnswersInv
  <2> QED BY <1>1, <1>3, <2>5 DEF AnswersInv
<1>6. CASE w.scope \notin exists /\ UNCHANGED thread
  BY <1>1, <1>3, <1>4, <1>6 DEF AnswersInv, thread
<1> QED BY <1>5, <1>6 DEF WxAnswered

\* insertAcarsMessageOnce of the request: filed, or there already.
LEMMA RequestFiled ==
  ASSUME AnswersInv, NEW kind \in PairKinds
  PROVE  LET rs == WithRequest(kind)
             id == TheId(rs, RequestOf[kind])
         IN /\ Thread(rs, IdAfter(rs)) /\ Waits(rs, IdAfter(rs), waiting, exists)
            /\ \E q \in rs : q.id = id /\ q.kind = RequestOf[kind] /\ q.scope = "leg"
            /\ \/ rs = rows /\ IdAfter(rs) = nextId
               \/ \E first : first.id = nextId /\ rs = rows \cup {first} /\ IdAfter(rs) = nextId + 1
<1> DEFINE k == RequestOf[kind]
           rs == WithRequest(kind)
           id == TheId(rs, k)
           first == Row(nextId, "leg", k, None, 0)
<1>1. rs = IF OfLeg(rows, k) # {} THEN rows ELSE AfterInsert(rows, "leg", k, None, 0)
  BY DEF WithRequest, AfterOnce
<1>2. AfterInsert(rows, "leg", k, None, 0) = rows \cup {first} /\ IdAfter(rows \cup {first}) = nextId + 1
      /\ IdAfter(rows) = nextId
  BY FirstInsert DEF AnswersInv
<1>3. first.id = nextId /\ first.kind = k /\ first.scope = "leg" /\ first.correlation = None /\ first.at = 0
  BY DEF Row
<1>4. k \in OnceKinds /\ k \notin ReplyKinds
  BY KindsApart DEF OnceKinds
<1> HIDE DEF first, k
<1>5. OfLeg(rs, k) # {}
  <2>1. CASE OfLeg(rows, k) = {}
    BY <1>1, <1>2, <1>3, <2>1 DEF OfLeg
  <2> QED BY <1>1, <2>1
<1>6. \E q \in rs : q.id = id /\ q.kind = k /\ q.scope = "leg"
  <2>1. id \in {r.id : r \in OfLeg(rs, k)}
    BY <1>5 DEF TheId
  <2> QED BY <2>1 DEF OfLeg
<1>7. /\ Thread(rs, IdAfter(rs)) /\ Waits(rs, IdAfter(rs), waiting, exists)
      /\ \/ rs = rows /\ IdAfter(rs) = nextId
         \/ rs = rows \cup {first} /\ IdAfter(rs) = nextId + 1
  <2>1. CASE OfLeg(rows, k) # {}
    BY <1>1, <1>2, <2>1 DEF AnswersInv
  <2>2. CASE OfLeg(rows, k) = {}
    <3>1. rs = rows \cup {first}
      BY <1>1, <1>2, <2>2
    <3>2. Fits(rows, first)
      BY <1>3, <1>4, <2>2 DEF Fits, None
    <3>3. \A w \in waiting : first.correlation # w.request
      BY <1>3 DEF AnswersInv, Waits, Thread, None
    <3>4. Thread(rs, nextId + 1) /\ Waits(rs, nextId + 1, waiting, exists)
      BY <1>3, <3>1, <3>2, <3>3, FilingKeepsThread, FilingKeepsWaits DEF AnswersInv
    <3> QED BY <1>2, <3>1, <3>4
  <2> QED BY <2>1, <2>2
<1> QED BY <1>3, <1>6, <1>7 DEF k

\* The reply: filed once, to the request of the same leg.
LEMMA PairFiled ==
  ASSUME AnswersInv, NEW kind \in PairKinds
  PROVE  LET rs == WithPair(kind)
         IN  Thread(rs, IdAfter(rs)) /\ Waits(rs, IdAfter(rs), waiting, exists)
<1> DEFINE k == RequestOf[kind]
           ps == WithRequest(kind)
           id == TheId(ps, k)
           n == IdAfter(ps)
           reply == Row(n, "leg", kind, id, 0)
           rs == WithPair(kind)
<1>1. Thread(ps, n) /\ Waits(ps, n, waiting, exists)
  BY RequestFiled
<1>2. PICK q \in ps : q.id = id /\ q.kind = k /\ q.scope = "leg"
  BY RequestFiled
<1>3. rs = IF OfLeg(ps, kind) # {} THEN ps ELSE AfterInsert(ps, "leg", kind, id, 0)
  BY DEF WithPair, AfterOnce
<1>4. AfterInsert(ps, "leg", kind, id, 0) = ps \cup {reply} /\ IdAfter(ps \cup {reply}) = n + 1
  <2>1. CASE ps = rows /\ n = nextId
    BY <2>1, FirstInsert DEF AnswersInv
  <2>2. CASE \E first : first.id = nextId /\ ps = rows \cup {first} /\ n = nextId + 1
    <3>1. PICK first : first.id = nextId /\ ps = rows \cup {first} /\ n = nextId + 1
      BY <2>2
    <3>2. LET row == Row(nextId + 1, "leg", kind, id, 0)
              ss == AfterInsert(rows \cup {first}, "leg", kind, id, 0)
          IN  ss = rows \cup {first} \cup {row} /\ IdAfter(ss) = nextId + 2
      <4> HIDE DEF id
      <4> QED BY <3>1, SecondInsert DEF AnswersInv
    <3>3. nextId \in Nat
      BY DEF AnswersInv, Thread
    <3> HIDE DEF id, ps, n
    <3>4. nextId + 2 = n + 1
      BY <3>1, <3>3
    <3> QED BY <3>1, <3>2, <3>4
  <2> QED BY <2>1, <2>2, RequestFiled
<1>5. reply.id = n /\ reply.kind = kind /\ reply.scope = "leg" /\ reply.correlation = id /\ reply.at = 0
  BY DEF Row
<1> HIDE DEF reply, n, ps, rs, id, k
<1>6. CASE OfLeg(ps, kind) # {}
  BY <1>1, <1>3, <1>6 DEF n, rs
<1>7. CASE OfLeg(ps, kind) = {}
  <2>1. kind \in ReplyKinds /\ kind # "wx" /\ kind \in OnceKinds /\ k # "wxRequest"
    BY KindsApart DEF OnceKinds, k
  <2>2. id \in Nat /\ id # None
    BY <1>1, <1>2 DEF Thread, Filed, None
  <2>3. \A s \in ps : s.correlation # id
    <3> SUFFICES ASSUME NEW s \in ps, s.correlation = id PROVE FALSE
      OBVIOUS
    <3>1. s.kind \in ReplyKinds
      BY <1>1, <2>2 DEF Thread, RepliesOnly
    <3>2. PICK p \in ps : p.id = id /\ p.kind = RequestOf[s.kind] /\ p.scope = s.scope
      BY <1>1, <3>1 DEF Thread, RequestsNamed
    <3>3. p = q
      BY <1>1, <1>2, <3>2 DEF Thread, Distinct
    <3>4. s.kind = kind /\ s.scope = "leg"
      BY <1>2, <2>1, <3>1, <3>2, <3>3, KindsApart DEF k
    <3> QED BY <1>7, <3>4 DEF OfLeg
  <2>4. Fits(ps, reply)
    BY <1>2, <1>5, <1>7, <2>1, <2>2, <2>3 DEF Fits, k
  <2>5. \A w \in waiting : reply.correlation # w.request
    BY <1>1, <1>2, <1>5, <2>1 DEF Waits
  <2>6. rs = ps \cup {reply}
    BY <1>3, <1>4, <1>7
  <2>7. Thread(rs, n + 1) /\ Waits(rs, n + 1, waiting, exists)
    BY <1>1, <1>5, <2>4, <2>5, <2>6, FilingKeepsThread, FilingKeepsWaits
  <2>8. IdAfter(rs) = n + 1
    BY <1>4, <2>6
  <2> QED BY <2>7, <2>8 DEF rs
<1> QED BY <1>6, <1>7

\* A load sheet or clearance and its request, whole or cut by a restart.
LEMMA PairKeeps ==
  ASSUME AnswersInv, NEW kind \in PairKinds,
         \/ \E c \in Callers : Pair(c, kind)
         \/ RestartInPair(kind)
  PROVE  AnswersInv'
<1>1. CASE \E c \in Callers : Pair(c, kind)
  <2>1. rows' = WithPair(kind) /\ nextId' = IdAfter(WithPair(kind)) /\ UNCHANGED <<clock, exists, cache, waiting>>
    BY <1>1 DEF Pair, File, server
  <2>2. Thread(rows', nextId') /\ Waits(rows', nextId', waiting', exists')
    BY <2>1, PairFiled
  <2> QED BY <2>1, <2>2 DEF AnswersInv, Cached
<1>2. CASE RestartInPair(kind)
  <2>1. /\ rows' = WithRequest(kind) /\ nextId' = IdAfter(WithRequest(kind))
        /\ cache' = {} /\ waiting' = {} /\ UNCHANGED <<clock, exists>>
    BY <1>2 DEF RestartInPair, Dies
  <2>2. Thread(rows', nextId')
    BY <2>1, RequestFiled
  <2> QED BY <2>1, <2>2 DEF AnswersInv, Cached, Waits
<1> QED BY <1>1, <1>2

\* The rows of one scope go together, requests with their replies.
LEMMA DeleteKeeps ==
  ASSUME AnswersInv, NEW scope \in Scopes, Delete(scope)
  PROVE  AnswersInv'
<1>1. /\ rows' = {r \in rows : r.scope # scope} /\ exists' = exists \ {scope}
      /\ UNCHANGED <<clock, nextId, cache, waiting>>
  BY DEF Delete
<1>2. Thread(rows', nextId')
  <2>1. rows' \subseteq rows
    BY <1>1
  <2>2. Filed(rows', nextId') /\ Distinct(rows') /\ RepliesOnly(rows') /\ AnsweredOnce(rows') /\ Timely(rows')
    BY <1>1, <2>1 DEF AnswersInv, Thread, Filed, Distinct, RepliesOnly, AnsweredOnce, Timely
  <2>3. OnceEach(rows')
    BY <2>1 DEF AnswersInv, Thread, OnceEach, OfLeg, AtMostOne
  <2>4. RequestsNamed(rows')
    BY <1>1 DEF AnswersInv, Thread, RequestsNamed
  <2> QED BY <1>1, <2>2, <2>3, <2>4 DEF AnswersInv, Thread
<1>3. Waits(rows', nextId', waiting', exists')
  <2>1. \A w \in waiting' : w.scope \in exists' => \E q \in rows' : q.id = w.request
    <3> SUFFICES ASSUME NEW w \in waiting, w.scope \in exists, w.scope # scope
                 PROVE  \E q \in rows' : q.id = w.request
      BY <1>1
    <3>1. PICK q \in rows : q.id = w.request
      BY DEF AnswersInv, Waits
    <3>2. q.scope = w.scope
      BY <3>1 DEF AnswersInv, Waits
    <3> QED BY <1>1, <3>1, <3>2
  <2> QED BY <1>1, <2>1 DEF AnswersInv, Waits
<1> QED BY <1>1, <1>2, <1>3 DEF AnswersInv, Cached

\* The inductive invariant holds of every state.
LEMMA AnswersAlways == Spec => []AnswersInv
<1>1. Init => AnswersInv
  BY DEF Init, AnswersInv, Thread, Filed, Distinct, RepliesOnly, RequestsNamed, AnsweredOnce, OnceEach, OfLeg, AtMostOne,
         Timely, Waits, Cached
<1>2. AnswersInv /\ [Next]_vars => AnswersInv'
  <2> SUFFICES ASSUME AnswersInv, [Next]_vars PROVE AnswersInv'
    OBVIOUS
  <2>1. ASSUME NEW c \in Callers, NEW scope \in Scopes, Canned(c, scope) \/ WxFromCache(c, scope) \/ WxAsk(c, scope)
        PROVE  AnswersInv'
    BY <2>1, CannedKeeps, WxFromCacheKeeps, WxAskKeeps
  <2>2. ASSUME NEW kind \in PairKinds, (\E c \in Callers : Pair(c, kind)) \/ RestartInPair(kind)
        PROVE  AnswersInv'
    BY <2>2, PairKeeps
  <2>3. CASE WxAnswers
    BY <2>3, WxAnsweredKeeps DEF WxAnswers
  <2>4. ASSUME NEW scope \in Scopes, Delete(scope) PROVE AnswersInv'
    BY <2>4, DeleteKeeps
  <2>5. CASE Relink \/ Restart \/ HintsIgnored \/ RefreshRead \/ RefreshFails \/ Drop \/ Reconnect
    <3>1. UNCHANGED <<clock, exists, rows, nextId>> /\ waiting' \subseteq waiting /\ (cache' = cache \/ cache' = {})
      BY <2>5 DEF Relink, Restart, Dies, HintsIgnored, RefreshRead, RefreshFails, Drop, Reconnect, server, thread
    <3> QED BY <3>1, FilingNone
  <2>6. CASE LoadRead \/ LoadArrives \/ RefreshArrives \/ SendArrives \/ SendLost \/ UNCHANGED vars
    <3>1. UNCHANGED <<clock, exists, rows, nextId, waiting, cache>>
      BY <2>6 DEF LoadRead, LoadArrives, RefreshArrives, SendArrives, SendLost, vars, server, thread
    <3> QED BY <3>1, FilingNone
  <2>7. CASE Tick
    <3>1. clock' \in Nat /\ UNCHANGED <<exists, rows, nextId, waiting, cache>>
      BY <2>7 DEF Tick, server, thread, AnswersInv
    <3> QED BY <3>1 DEF AnswersInv, Waits, Cached
  <2> QED BY <2>1, <2>2, <2>3, <2>4, <2>5, <2>6, <2>7 DEF Next
<1> QED BY <1>1, <1>2, PTL DEF Spec

\* getCachedWeather and insertAcarsMessageOnce: every reply of a thread names a request of
\* its own and carries what was true when that was asked, and a leg has one load sheet and
\* one clearance, for any time to live, any number of rows, and whatever is deleted,
\* relinked, asked twice or cut between two inserts.
THEOREM RepliesAlwaysAnswer == Spec => []RepliesAnswer
BY AnswersAlways, InvImpliesReplies, PTL

-----------------------------------------------------------------------------
(* Types.                                                                    *)

ServerTypes ==
  /\ clock \in 0 .. MaxClock
  /\ exists \subseteq Scopes /\ linked \in BOOLEAN
  /\ cache \subseteq Entries /\ AtMostOne(cache)
  /\ waiting \subseteq Requests
ThreadTypes == rows \subseteq Rows /\ nextId \in 1 .. MaxRows + 1
StreamTypes ==
  /\ connected \in BOOLEAN /\ hints \subseteq Scopes \cup {"reconnected"}
  /\ disturbances \in 0 .. MaxDisturbances
PageTypes ==
  /\ phase \in {"loading", "ready"} /\ load \subseteq Answers /\ AtMostOne(load)
  /\ pageLeg \in BOOLEAN
  /\ shown \in [Ids -> 0 .. 2]
  /\ answer \subseteq SUBSET Ids /\ AtMostOne(answer)
  /\ missed \in BOOLEAN /\ loadedFrom \in 1 .. MaxRows + 1
SendTypes == send \subseteq Sends /\ AtMostOne(send)

\* The type invariant, group by group.
LEMMA TypesByGroup ==
  /\ TypeOK <=> ServerTypes /\ ThreadTypes /\ StreamTypes /\ PageTypes /\ SendTypes
  /\ TypeOK' <=> ServerTypes' /\ ThreadTypes' /\ StreamTypes' /\ PageTypes' /\ SendTypes'
BY DEF TypeOK, ServerTypes, ThreadTypes, StreamTypes, PageTypes, SendTypes

\* A row with an id of the table is one of its rows.
LEMMA RowTyped ==
  ASSUME NEW id \in Ids, NEW scope \in Scopes, NEW kind \in Kinds, NEW correlation \in Ids \cup {None},
         NEW at \in 0 .. MaxClock
  PROVE  Row(id, scope, kind, correlation, at) \in Rows
BY DEF Row, Rows

\* The kinds of the rows that are filed.
LEMMA KindsAre ==
  /\ "canned" \in Kinds /\ "wx" \in Kinds /\ "wxRequest" \in Kinds
  /\ \A kind \in PairKinds : kind \in Kinds /\ RequestOf[kind] \in Kinds
<1>1. "wx" \in ReplyKinds /\ RequestOf["wx"] = "wxRequest" /\ \A kind \in PairKinds : kind \in ReplyKinds
  BY KindsApart
<1> QED BY <1>1 DEF Kinds

\* What is filed is hinted by its scope.
LEMMA HintsTyped ==
  ASSUME StreamTypes, NEW rs, rs \subseteq Rows
  PROVE  Hinted(rs) \subseteq Scopes \cup {"reconnected"}
BY DEF StreamTypes, Hinted, Rows

\* An answer on its way to the page is one of its sends.
LEMMA SentTyped ==
  ASSUME SendTypes, NEW c, NEW how \in {"append", "merge"}, NEW ids, ids \subseteq Ids, Sent(c, how, ids)
  PROVE  SendTypes'
<1>1. [how |-> how, answered |-> TRUE, brings |-> ids] \in Sends
  BY DEF Sends
<1> QED BY <1>1 DEF Sent, SendTypes, AtMostOne

\* The ids of new rows are ids of the table.
LEMMA NewIdsTyped ==
  ASSUME NEW rs, rs \subseteq Rows
  PROVE  NewIds(rs) \subseteq Ids
BY DEF NewIds, Rows

\* Rows that may be filed: rows of the table, with a next id.
FileTyped(rs) == rs \subseteq Rows /\ IdAfter(rs) \in 1 .. MaxRows + 1

\* Filing them leaves the thread and the stream what they are.
LEMMA FilingTyped ==
  ASSUME StreamTypes, NEW rs, FileTyped(rs), File(rs), UNCHANGED <<connected, disturbances>>
  PROVE  ThreadTypes' /\ StreamTypes'
<1>1. Hinted(rs) \subseteq Scopes \cup {"reconnected"}
  BY HintsTyped DEF FileTyped
<1> QED BY <1>1 DEF File, FileTyped, ThreadTypes, StreamTypes

\* A canned message.
LEMMA CannedTyped ==
  ASSUME TypeOK, AnswersInv, NEW c \in Callers, NEW scope \in Scopes, Canned(c, scope)
  PROVE  TypeOK'
<1> DEFINE filed == AfterInsert(rows, scope, "canned", None, 0)
           row == Row(nextId, scope, "canned", None, 0)
<1>1. File(filed) /\ Sent(c, "append", NewIds(filed)) /\ UNCHANGED <<clock, server, connected, pageRest, disturbances>>
  BY DEF Canned
<1>2. filed = rows \cup {row} /\ IdAfter(filed) = nextId + 1
  BY FirstInsert DEF AnswersInv
<1>3. nextId \in Ids /\ 0 \in 0 .. MaxClock
  BY <1>1, <1>2, AcarsAssumption DEF File, TypeOK, Ids
<1>4. filed \subseteq Rows
  <2>1. row \in Rows
    BY <1>3, KindsAre, RowTyped
  <2> HIDE DEF row
  <2> QED BY <1>2, <2>1 DEF TypeOK
<1> HIDE DEF filed
<1>5. FileTyped(filed)
  BY <1>2, <1>3, <1>4, AcarsAssumption DEF FileTyped, Ids
<1>6. ThreadTypes' /\ StreamTypes'
  BY <1>1, <1>5, TypesByGroup, FilingTyped
<1>7. SendTypes'
  BY <1>1, <1>4, NewIdsTyped, SentTyped, TypesByGroup
<1>8. ServerTypes' /\ PageTypes'
  BY <1>1, TypesByGroup DEF ServerTypes, PageTypes, server, pageRest
<1> QED BY <1>6, <1>7, <1>8, TypesByGroup

\* Weather from the cache: two rows.
LEMMA WxFromCacheTyped ==
  ASSUME TypeOK, AnswersInv, NEW c \in Callers, NEW scope \in Scopes, WxFromCache(c, scope)
  PROVE  TypeOK'
<1>1. PICK e \in Fresh :
        LET asking == AfterInsert(rows, scope, "wxRequest", None, clock)
            filed == AfterInsert(asking, scope, "wx", IdAfter(rows), e.seen)
        IN  File(filed) /\ Sent(c, "append", NewIds(filed))
  BY DEF WxFromCache
<1> DEFINE request == Row(nextId, scope, "wxRequest", None, clock)
           reply == Row(nextId + 1, scope, "wx", nextId, e.seen)
           filed == rows \cup {request} \cup {reply}
<1>2. UNCHANGED <<clock, server, connected, pageRest, disturbances>>
  BY DEF WxFromCache
<1>3. request.id = nextId
  BY DEF Row
<1>4. AfterInsert(rows, scope, "wxRequest", None, clock) = rows \cup {request} /\ IdAfter(rows) = nextId
  BY FirstInsert DEF AnswersInv
<1>5. AfterInsert(rows \cup {request}, scope, "wx", nextId, e.seen) = filed /\ IdAfter(filed) = nextId + 2
  <2> HIDE DEF request
  <2> QED BY <1>3, SecondInsert DEF AnswersInv
<1>6. File(filed) /\ Sent(c, "append", NewIds(filed))
  <2> HIDE DEF request, filed
  <2> QED BY <1>1, <1>4, <1>5
<1>7. nextId \in Ids /\ nextId + 1 \in Ids
  BY <1>5, <1>6, AcarsAssumption DEF File, TypeOK, Ids
<1>8. clock \in 0 .. MaxClock /\ e.seen \in 0 .. MaxClock
  BY DEF TypeOK, Fresh, Entries
<1>9. filed \subseteq Rows
  <2>1. request \in Rows /\ reply \in Rows
    BY <1>7, <1>8, KindsAre, RowTyped
  <2> HIDE DEF request, reply
  <2> QED BY <2>1 DEF TypeOK
<1> HIDE DEF filed
<1>10. FileTyped(filed)
  BY <1>5, <1>7, <1>9, AcarsAssumption DEF FileTyped, Ids
<1>11. ThreadTypes' /\ StreamTypes'
  BY <1>2, <1>6, <1>10, TypesByGroup, FilingTyped
<1>12. SendTypes'
  BY <1>6, <1>9, NewIdsTyped, SentTyped, TypesByGroup
<1>13. ServerTypes' /\ PageTypes'
  BY <1>2, TypesByGroup DEF ServerTypes, PageTypes, server, pageRest
<1> QED BY <1>11, <1>12, <1>13, TypesByGroup

\* A weather request that waits.
LEMMA WxAskTyped ==
  ASSUME TypeOK, AnswersInv, NEW c \in Callers, NEW scope \in Scopes, WxAsk(c, scope)
  PROVE  TypeOK'
<1> DEFINE filed == AfterInsert(rows, scope, "wxRequest", None, clock)
           row == Row(nextId, scope, "wxRequest", None, clock)
           asked == [by |-> c, request |-> nextId, scope |-> scope, started |-> clock]
           out == [how |-> "append", answered |-> FALSE, brings |-> {}]
<1>1. /\ File(filed) /\ waiting' = waiting \cup {asked} /\ send' \in {{out}, send}
      /\ UNCHANGED <<clock, exists, linked, cache, connected, pageRest, disturbances>>
  BY DEF WxAsk
<1>2. filed = rows \cup {row} /\ IdAfter(filed) = nextId + 1
  BY FirstInsert DEF AnswersInv
<1>3. nextId \in Ids /\ clock \in 0 .. MaxClock
  BY <1>1, <1>2, AcarsAssumption DEF File, TypeOK, Ids
<1>4. filed \subseteq Rows
  <2>1. row \in Rows
    BY <1>3, KindsAre, RowTyped
  <2> HIDE DEF row
  <2> QED BY <1>2, <2>1 DEF TypeOK
<1>5. asked \in Requests /\ out \in Sends
  BY <1>3 DEF Requests, Sends
<1> HIDE DEF filed, asked, out
<1>6. FileTyped(filed)
  BY <1>2, <1>3, <1>4, AcarsAssumption DEF FileTyped, Ids
<1>7. ThreadTypes' /\ StreamTypes'
  BY <1>1, <1>6, TypesByGroup, FilingTyped
<1>8. SendTypes'
  BY <1>1, <1>5, TypesByGroup DEF SendTypes, AtMostOne
<1>9. ServerTypes' /\ PageTypes'
  BY <1>1, <1>5, TypesByGroup DEF ServerTypes, PageTypes, pageRest
<1> QED BY <1>7, <1>8, <1>9, TypesByGroup

\* The weather that was awaited.
LEMMA WxAnsweredTyped ==
  ASSUME TypeOK, AnswersInv, NEW w \in waiting, NEW seen \in w.started .. clock, WxAnswered(w, seen)
  PROVE  TypeOK'
<1> DEFINE filed == AfterInsert(rows, w.scope, "wx", w.request, seen)
           row == Row(nextId, w.scope, "wx", w.request, seen)
           entry == [until |-> w.started + TTL, seen |-> seen]
           brought == [how |-> "append", answered |-> TRUE, brings |-> {w.request} \cup NewIds(filed)]
<1>1. /\ cache' = {entry} /\ waiting' = waiting \ {w}
      /\ UNCHANGED <<clock, exists, linked, connected, pageRest, disturbances>>
  BY DEF WxAnswered, Expiry
<1>2. /\ w.request \in Ids /\ w.scope \in Scopes /\ w.started \in 0 .. MaxClock
      /\ clock \in 0 .. MaxClock
  BY DEF TypeOK, Requests
<1>3. seen \in 0 .. MaxClock /\ w.started + TTL \in 0 .. MaxClock + TTL
  BY <1>2, AcarsAssumption
<1>4. entry \in Entries
  BY <1>3 DEF Entries
<1> HIDE DEF entry
<1>5. ServerTypes' /\ PageTypes'
  BY <1>1, <1>4, TypesByGroup DEF ServerTypes, PageTypes, pageRest, AtMostOne
<1>6. CASE File(filed) /\ send' \in {send, {brought}}
  <2>1. filed = rows \cup {row} /\ IdAfter(filed) = nextId + 1
    BY FirstInsert DEF AnswersInv
  <2>2. nextId \in Ids
    BY <1>6, <2>1, AcarsAssumption DEF File, TypeOK, Ids
  <2>3. filed \subseteq Rows
    <3>1. row \in Rows
      BY <1>2, <1>3, <2>2, KindsAre, RowTyped
    <3> HIDE DEF row
    <3> QED BY <2>1, <3>1 DEF TypeOK
  <2> HIDE DEF filed
  <2>4. FileTyped(filed)
    BY <2>1, <2>2, <2>3, AcarsAssumption DEF FileTyped, Ids
  <2>5. ThreadTypes' /\ StreamTypes'
    BY <1>1, <1>6, <2>4, TypesByGroup, FilingTyped
  <2>6. brought \in Sends
    BY <1>2, <2>3, NewIdsTyped DEF Sends
  <2> HIDE DEF brought
  <2>7. SendTypes'
    BY <1>6, <2>6, TypesByGroup DEF SendTypes, AtMostOne
  <2> QED BY <1>5, <2>5, <2>7, TypesByGroup
<1>7. CASE UNCHANGED thread /\ send' \subseteq send
  <2>1. ThreadTypes' /\ StreamTypes' /\ SendTypes'
    BY <1>1, <1>7, TypesByGroup DEF ThreadTypes, StreamTypes, SendTypes, AtMostOne, thread
  <2> QED BY <1>5, <2>1, TypesByGroup
<1>8. \/ File(filed) /\ send' \in {send, {brought}}
      \/ UNCHANGED thread /\ send' \subseteq send
  BY DEF WxAnswered
<1> QED BY <1>6, <1>7, <1>8

\* What the first key of a pair leaves: the request of before, or one more row.
LEMMA RequestTyped ==
  ASSUME TypeOK, AnswersInv, NEW kind \in PairKinds, IdAfter(WithRequest(kind)) <= MaxRows + 1
  PROVE  FileTyped(WithRequest(kind))
<1> DEFINE k == RequestOf[kind]
           first == Row(nextId, "leg", k, None, 0)
           rs == WithRequest(kind)
<1>1. AfterInsert(rows, "leg", k, None, 0) = rows \cup {first} /\ IdAfter(rows \cup {first}) = nextId + 1
      /\ IdAfter(rows) = nextId
  BY FirstInsert DEF AnswersInv
<1>2. rs = rows \/ rs = rows \cup {first}
  BY <1>1 DEF WithRequest, AfterOnce
<1>3. CASE rs = rows
  BY <1>1, <1>3 DEF FileTyped, TypeOK
<1>4. CASE rs = rows \cup {first}
  <2>1. IdAfter(rs) = nextId + 1
    BY <1>1, <1>4
  <2>2. nextId \in Ids /\ 0 \in 0 .. MaxClock
    BY <2>1, AcarsAssumption DEF TypeOK, Ids
  <2>3. first \in Rows
    BY <2>2, KindsAre, RowTyped DEF Scopes
  <2> HIDE DEF first, rs
  <2> QED BY <1>4, <2>1, <2>2, <2>3, AcarsAssumption DEF FileTyped, TypeOK, Ids, rs
<1> QED BY <1>2, <1>3, <1>4

\* What both leave: that, or one row more, and the pair has ids of the table.
LEMMA PairTyped ==
  ASSUME TypeOK, AnswersInv, NEW kind \in PairKinds, IdAfter(WithPair(kind)) <= MaxRows + 1
  PROVE  FileTyped(WithPair(kind)) /\ PairOf(WithPair(kind), kind) \subseteq Ids
<1> DEFINE k == RequestOf[kind]
           ps == WithRequest(kind)
           id == TheId(ps, k)
           n == IdAfter(ps)
           reply == Row(n, "leg", kind, id, 0)
           rs == WithPair(kind)
<1>1. /\ \E q \in ps : q.id = id /\ q.kind = k /\ q.scope = "leg"
      /\ \/ ps = rows /\ n = nextId
         \/ \E first : first.id = nextId /\ ps = rows \cup {first} /\ n = nextId + 1
  BY RequestFiled
<1>2. nextId \in 1 .. MaxRows + 1 /\ MaxRows \in Nat /\ n \in Nat \ {0}
  BY <1>1, AcarsAssumption DEF TypeOK
<1>3. AfterInsert(ps, "leg", kind, id, 0) = ps \cup {reply}
  BY DEF AfterInsert
<1>4. IdAfter(ps \cup {reply}) = n + 1
  <2>1. CASE ps = rows
    <3>1. n = nextId
      BY <2>1, FirstInsert DEF AnswersInv
    <3> QED BY <2>1, <3>1, FirstInsert DEF AnswersInv, AfterInsert
  <2>2. CASE \E first : first.id = nextId /\ ps = rows \cup {first} /\ n = nextId + 1
    <3>1. PICK first : first.id = nextId /\ ps = rows \cup {first} /\ n = nextId + 1
      BY <2>2
    <3>2. LET row == Row(nextId + 1, "leg", kind, id, 0)
              ss == AfterInsert(rows \cup {first}, "leg", kind, id, 0)
          IN  ss = rows \cup {first} \cup {row} /\ IdAfter(ss) = nextId + 2
      <4> HIDE DEF id
      <4> QED BY <3>1, SecondInsert DEF AnswersInv
    <3> HIDE DEF id, ps, n
    <3>3. nextId + 2 = n + 1
      BY <1>2, <3>1
    <3> QED BY <3>1, <3>2, <3>3
  <2> QED BY <1>1, <2>1, <2>2
<1>5. rs = ps \/ (rs = ps \cup {reply} /\ OfLeg(ps, kind) = {})
  BY <1>3 DEF WithPair, AfterOnce
<1>6. reply.id = n /\ reply.kind = kind /\ reply.scope = "leg"
  BY DEF Row
<1>7. IdAfter(rs) <= MaxRows + 1
  OBVIOUS
<1>8. n <= MaxRows + 1
  <2> HIDE DEF n, rs, ps, reply
  <2>1. CASE rs = ps
    BY <1>7, <2>1 DEF n
  <2>2. CASE rs = ps \cup {reply}
    BY <1>2, <1>4, <1>7, <2>2
  <2> QED BY <1>5, <2>1, <2>2
<1>9. FileTyped(ps)
  BY <1>8, RequestTyped
<1>10. id \in Ids
  BY <1>1, <1>9 DEF FileTyped, Rows
<1>11. FileTyped(rs)
  <2>1. CASE rs = ps
    BY <1>9, <2>1
  <2>2. CASE rs = ps \cup {reply}
    <3>1. n \in Ids
      <4> HIDE DEF n, rs, ps, reply
      <4> QED BY <1>2, <1>4, <1>7, <2>2 DEF Ids
    <3>2. reply \in Rows
      <4>1. 0 \in 0 .. MaxClock
        BY AcarsAssumption
      <4> HIDE DEF n, id
      <4> QED BY <1>10, <3>1, <4>1, KindsAre, RowTyped DEF Scopes
    <3> HIDE DEF n, rs, ps, reply
    <3>3. n + 1 \in 1 .. MaxRows + 1
      BY <1>2, <3>1 DEF Ids
    <3> QED BY <1>4, <1>9, <2>2, <3>2, <3>3 DEF FileTyped
  <2> QED BY <1>5, <2>1, <2>2
<1>12. OfLeg(rs, k) # {} /\ OfLeg(rs, kind) # {}
  <2>1. ps \subseteq rs
    BY <1>5
  <2>2. PICK q \in ps : q.kind = k /\ q.scope = "leg"
    BY <1>1
  <2>3. OfLeg(rs, k) # {}
    BY <2>1, <2>2 DEF OfLeg
  <2>4. OfLeg(rs, kind) # {}
    <3>1. (rs = ps /\ OfLeg(ps, kind) # {}) \/ reply \in rs
      BY <1>3 DEF WithPair, AfterOnce
    <3> HIDE DEF rs, ps, reply
    <3> QED BY <1>6, <3>1 DEF OfLeg
  <2> QED BY <2>3, <2>4
<1>13. \A j : OfLeg(rs, j) # {} => TheId(rs, j) \in Ids
  <2> SUFFICES ASSUME NEW j, OfLeg(rs, j) # {} PROVE TheId(rs, j) \in Ids
    OBVIOUS
  <2> HIDE DEF rs
  <2>1. PICK r \in rs : r \in OfLeg(rs, j)
    BY DEF OfLeg
  <2>2. TheId(rs, j) \in {s.id : s \in OfLeg(rs, j)}
    BY <2>1 DEF TheId
  <2> QED BY <1>11, <2>2 DEF OfLeg, FileTyped, Rows
<1> HIDE DEF rs
<1>14. PairOf(rs, kind) \subseteq Ids
  BY <1>12, <1>13 DEF PairOf
<1> QED BY <1>11, <1>14 DEF rs

\* A load sheet or clearance is asked for.
LEMMA PairActionTyped ==
  ASSUME TypeOK, AnswersInv, NEW c \in Callers, NEW kind \in PairKinds, Pair(c, kind)
  PROVE  TypeOK'
<1> DEFINE filed == WithPair(kind)
<1>1. /\ File(filed) /\ Sent(c, "merge", PairOf(filed, kind))
      /\ UNCHANGED <<clock, server, connected, pageRest, disturbances>>
  BY DEF Pair
<1>2. FileTyped(filed) /\ PairOf(filed, kind) \subseteq Ids
  BY <1>1, PairTyped DEF File
<1> HIDE DEF filed
<1>3. ThreadTypes' /\ StreamTypes'
  BY <1>1, <1>2, TypesByGroup, FilingTyped
<1>4. SendTypes'
  BY <1>1, <1>2, SentTyped, TypesByGroup
<1>5. ServerTypes' /\ PageTypes'
  BY <1>1, TypesByGroup DEF ServerTypes, PageTypes, server, pageRest
<1> QED BY <1>3, <1>4, <1>5, TypesByGroup

\* One of the disturbances that are left.
LEMMA DisturbTyped ==
  ASSUME StreamTypes, Disturb
  PROVE  disturbances' \in 0 .. MaxDisturbances
BY AcarsAssumption DEF StreamTypes, Disturb

\* A death of the server, between two requests or within one.
LEMMA RestartTyped ==
  ASSUME TypeOK, AnswersInv, Restart \/ \E kind \in PairKinds : RestartInPair(kind)
  PROVE  TypeOK'
<1>1. Dies /\ Disturb /\ UNCHANGED hints
  BY DEF Restart, RestartInPair, thread
<1>2. ThreadTypes'
  <2>1. CASE Restart
    BY <2>1, TypesByGroup DEF Restart, thread, ThreadTypes
  <2>2. ASSUME NEW kind \in PairKinds, RestartInPair(kind) PROVE ThreadTypes'
    <3>1. FileTyped(WithRequest(kind))
      BY <2>2, RequestTyped DEF RestartInPair
    <3> QED BY <2>2, <3>1 DEF RestartInPair, FileTyped, ThreadTypes
  <2> QED BY <2>1, <2>2
<1>3. ServerTypes' /\ SendTypes' /\ PageTypes'
  BY <1>1, TypesByGroup DEF Dies, ServerTypes, SendTypes, PageTypes, pageRest, AtMostOne
<1>4. StreamTypes'
  BY <1>1, TypesByGroup, DisturbTyped DEF Dies, StreamTypes
<1> QED BY <1>2, <1>3, <1>4, TypesByGroup

\* Rows that go with their flight or leg, and a link that changes.
LEMMA StoreTyped ==
  ASSUME TypeOK, (\E scope \in Scopes : Delete(scope)) \/ Relink
  PROVE  TypeOK'
<1>1. Disturb /\ UNCHANGED <<clock, nextId, hints, cache, waiting, connected, page>>
  BY DEF Delete, Relink, thread
<1>2. rows' \subseteq rows /\ exists' \subseteq exists /\ linked' \in BOOLEAN
  BY DEF Delete, Relink, thread
<1>3. ServerTypes' /\ ThreadTypes' /\ PageTypes' /\ SendTypes'
  BY <1>1, <1>2, TypesByGroup DEF ServerTypes, ThreadTypes, PageTypes, SendTypes, page
<1>4. StreamTypes'
  BY <1>1, TypesByGroup, DisturbTyped DEF StreamTypes
<1> QED BY <1>3, <1>4, TypesByGroup

\* The rows the page may be shown have ids of the table.
LEMMA VisibleTyped ==
  ASSUME ThreadTypes
  PROVE  VisibleIds \in SUBSET Ids
BY DEF ThreadTypes, VisibleIds, Visible, Rows

\* The page counts each row at most twice.
LEMMA ShownTyped ==
  ASSUME PageTypes, NEW ids
  PROVE  Appended(ids) \in [Ids -> 0 .. 2] /\ Merged(ids) \in [Ids -> 0 .. 2]
<1>1. \A id \in Ids : shown[id] \in 0 .. 2
  BY DEF PageTypes
<1> QED BY <1>1 DEF Appended, Merged

\* The page loads.
LEMMA LoadTyped ==
  ASSUME TypeOK, LoadRead \/ LoadArrives
  PROVE  TypeOK'
<1>1. UNCHANGED <<clock, server, thread, connected, send, disturbances>>
  BY DEF LoadRead, LoadArrives
<1>2. ServerTypes' /\ ThreadTypes' /\ StreamTypes' /\ SendTypes'
  BY <1>1, TypesByGroup DEF ServerTypes, ThreadTypes, StreamTypes, SendTypes, server, thread
<1>3. PageTypes'
  <2>1. CASE LoadRead
    <3>1. [ids |-> VisibleIds, leg |-> linked] \in Answers
      BY TypesByGroup, VisibleTyped DEF Answers, ServerTypes
    <3> QED BY <2>1, <3>1, TypesByGroup DEF LoadRead, PageTypes, AtMostOne
  <2>2. CASE LoadArrives
    <3>1. PICK l \in load : shown' = [id \in Ids |-> IF id \in l.ids THEN 1 ELSE 0] /\ pageLeg' = l.leg
      BY <2>2 DEF LoadArrives
    <3>2. shown' \in [Ids -> 0 .. 2] /\ pageLeg' \in BOOLEAN
      BY <3>1, TypesByGroup DEF PageTypes, Answers
    <3> QED BY <2>2, <3>2, TypesByGroup DEF LoadArrives, PageTypes, ThreadTypes, AtMostOne
  <2> QED BY <2>1, <2>2
<1> QED BY <1>2, <1>3, TypesByGroup

\* The page fetches again, or hears of nothing that concerns it.
LEMMA RefreshTyped ==
  ASSUME TypeOK, HintsIgnored \/ RefreshRead \/ RefreshFails \/ RefreshArrives
  PROVE  TypeOK'
<1>1. UNCHANGED <<clock, server, rows, nextId, connected, send>> /\ hints' \in {hints, {}}
  BY DEF HintsIgnored, RefreshRead, RefreshFails, RefreshArrives, page, thread
<1>2. ServerTypes' /\ ThreadTypes' /\ SendTypes'
  BY <1>1, TypesByGroup DEF ServerTypes, ThreadTypes, SendTypes, server
<1>3. StreamTypes'
  <2>1. disturbances' \in 0 .. MaxDisturbances
    BY TypesByGroup, DisturbTyped DEF StreamTypes, HintsIgnored, RefreshRead, RefreshFails, RefreshArrives
  <2> QED BY <1>1, <2>1, TypesByGroup DEF StreamTypes
<1>4. PageTypes'
  <2>1. CASE HintsIgnored \/ RefreshFails
    BY <2>1, TypesByGroup DEF HintsIgnored, RefreshFails, page, PageTypes
  <2>2. CASE RefreshRead
    <3>1. VisibleIds \in SUBSET Ids
      BY TypesByGroup, VisibleTyped
    <3> QED BY <2>2, <3>1, TypesByGroup DEF RefreshRead, PageTypes, AtMostOne
  <2>3. CASE RefreshArrives
    <3>1. shown' \in [Ids -> 0 .. 2]
      BY <2>3, TypesByGroup, ShownTyped DEF RefreshArrives
    <3> QED BY <2>3, <3>1, TypesByGroup DEF RefreshArrives, PageTypes, AtMostOne
  <2> QED BY <2>1, <2>2, <2>3
<1> QED BY <1>2, <1>3, <1>4, TypesByGroup

\* The page's own send is answered, or is not.
LEMMA AnswerTyped ==
  ASSUME TypeOK, SendArrives \/ SendLost
  PROVE  TypeOK'
<1>1. UNCHANGED <<clock, server, thread, connected>> /\ send' = {}
  BY DEF SendArrives, SendLost
<1>2. ServerTypes' /\ ThreadTypes' /\ SendTypes'
  BY <1>1, TypesByGroup DEF ServerTypes, ThreadTypes, SendTypes, server, thread, AtMostOne
<1>3. StreamTypes'
  <2>1. disturbances' \in 0 .. MaxDisturbances
    BY TypesByGroup, DisturbTyped DEF StreamTypes, SendArrives, SendLost
  <2> QED BY <1>1, <2>1, TypesByGroup DEF StreamTypes, thread
<1>4. PageTypes'
  <2>1. CASE SendArrives
    <3>1. shown' \in [Ids -> 0 .. 2]
      BY <2>1, TypesByGroup, ShownTyped DEF SendArrives
    <3> QED BY <2>1, <3>1, TypesByGroup DEF SendArrives, PageTypes
  <2>2. CASE SendLost
    BY <2>2, TypesByGroup DEF SendLost, PageTypes, pageRest
  <2> QED BY <2>1, <2>2
<1> QED BY <1>2, <1>3, <1>4, TypesByGroup

\* The stream breaks and opens again, and time passes.
LEMMA StreamTyped ==
  ASSUME TypeOK, Drop \/ Reconnect \/ Tick
  PROVE  TypeOK'
<1>1. UNCHANGED <<server, rows, nextId, page>>
  BY DEF Drop, Reconnect, Tick, thread
<1>2. clock' \in 0 .. MaxClock
  BY AcarsAssumption DEF Drop, Reconnect, Tick, TypeOK
<1>3. ServerTypes' /\ ThreadTypes' /\ PageTypes' /\ SendTypes'
  BY <1>1, <1>2, TypesByGroup DEF ServerTypes, ThreadTypes, PageTypes, SendTypes, server, page
<1>4. StreamTypes'
  <2>1. disturbances' \in 0 .. MaxDisturbances
    BY TypesByGroup, DisturbTyped DEF StreamTypes, Drop, Reconnect, Tick
  <2> QED BY <2>1, TypesByGroup DEF StreamTypes, Drop, Reconnect, Tick, HintsOnOpen, thread
<1> QED BY <1>3, <1>4, TypesByGroup

\* The thread and the page keep their types, for any time to live, any number of rows,
\* whichever thread the page shows, and whatever is lost, deleted or asked twice. Ids and
\* weather come from the answers filed, so it needs what RepliesAlwaysAnswer rests on.
THEOREM AcarsTypeOK == Spec => []TypeOK
<1>1. Init => TypeOK
  <2> SUFFICES ASSUME Init PROVE TypeOK
    OBVIOUS
  <2>1. shown \in [Ids -> 0 .. 2]
    BY DEF Init
  <2>2. 0 \in 0 .. MaxClock /\ 0 \in 0 .. MaxDisturbances /\ 1 \in 1 .. MaxRows + 1
    BY AcarsAssumption
  <2> QED BY <2>1, <2>2 DEF Init, TypeOK, AtMostOne
<1>2. TypeOK /\ AnswersInv /\ [Next]_vars => TypeOK'
  <2> SUFFICES ASSUME TypeOK, AnswersInv, [Next]_vars PROVE TypeOK'
    OBVIOUS
  <2>1. ASSUME NEW c \in Callers, NEW scope \in Scopes, Canned(c, scope) \/ WxFromCache(c, scope) \/ WxAsk(c, scope)
        PROVE  TypeOK'
    BY <2>1, CannedTyped, WxFromCacheTyped, WxAskTyped
  <2>2. ASSUME NEW c \in Callers, NEW kind \in PairKinds, Pair(c, kind) PROVE TypeOK'
    BY <2>2, PairActionTyped
  <2>3. CASE WxAnswers
    BY <2>3, WxAnsweredTyped DEF WxAnswers
  <2>4. CASE Restart \/ \E kind \in PairKinds : RestartInPair(kind)
    BY <2>4, RestartTyped
  <2>5. CASE (\E scope \in Scopes : Delete(scope)) \/ Relink
    BY <2>5, StoreTyped
  <2>6. CASE LoadRead \/ LoadArrives \/ HintsIgnored \/ RefreshRead \/ RefreshFails \/ RefreshArrives
    BY <2>6, LoadTyped, RefreshTyped
  <2>7. CASE SendArrives \/ SendLost \/ Drop \/ Reconnect \/ Tick
    BY <2>7, AnswerTyped, StreamTyped
  <2>8. CASE UNCHANGED vars
    BY <2>8 DEF vars, server, thread, page, TypeOK
  <2> QED BY <2>1, <2>2, <2>3, <2>4, <2>5, <2>6, <2>7, <2>8 DEF Next
<1> QED BY <1>1, <1>2, AnswersAlways, PTL DEF Spec

=============================================================================
