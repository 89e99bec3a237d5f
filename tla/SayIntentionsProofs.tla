------------------------ MODULE SayIntentionsProofs ------------------------
(***************************************************************************)
(* Proofs about SayIntentions, for any number of entries, sessions, links, *)
(* requests and deaths: an import under its own link never steps over an   *)
(* entry, files nothing from before the link, and counts no row twice.     *)
(***************************************************************************)
EXTENDS SayIntentions, FiniteSetTheorems, WellFoundedInduction, TLAPS

----------------------------------------------------------------------------
(* The highest id.                                                         *)

\* maxCommId() returns one of the ids it was given or the initial one, and
\* none is above it.
LEMMA MaxCommIdIsMax ==
  ASSUME NEW ids \in SUBSET Comms, NEW initial \in 0..MaxComm
  PROVE  /\ MaxCommId(ids, initial) \in ids \cup {initial}
         /\ \A i \in ids \cup {initial} : i <= MaxCommId(ids, initial)
<1> DEFINE S == ids \cup {initial}
           T == {MaxComm - i : i \in S}
<1>1. MaxComm \in Nat /\ \A i \in S : i \in 0..MaxComm
  BY BoundAssumption DEF Comms
<1>2. \A i \in S : MaxComm - i \in Nat
  BY <1>1
<1>3. T \subseteq Nat /\ T # {}
  BY <1>2
<1>4. PICK x \in T : \A y \in T : ~(<<y, x>> \in OpToRel(<, Nat))
  BY <1>3, NatLessThanWellFounded, WFMin
<1>5. PICK m \in S : x = MaxComm - m
  OBVIOUS
<1>6. \A i \in S : i <= m
  <2> SUFFICES ASSUME NEW i \in S, i > m PROVE FALSE
    BY <1>1
  <2>1. i \in 0..MaxComm /\ m \in 0..MaxComm
    BY <1>1
  <2>2. MaxComm - i \in T /\ MaxComm - i < x /\ MaxComm - i \in Nat /\ x \in Nat
    BY <1>1, <1>3, <1>5, <2>1
  <2>3. <<MaxComm - i, x>> \in OpToRel(<, Nat)
    BY <2>2 DEF OpToRel
  <2>4. QED BY <1>4, <2>2, <2>3
<1>7. QED BY <1>6 DEF MaxCommId

----------------------------------------------------------------------------
(* The invariant.                                                          *)

\* Every entry of the current session from the link's start up to since is
\* in the thread.
Held(since) ==
  \A c \in DOMAIN sessionOf :
    sessionOf[c] = session /\ c > start /\ c <= Past(since) => c \in thread \cup Wordless

\* The cursor of the link holds, unless an earlier link's import wrote it.
LinkHolds ==
  link # NULL =>
    /\ link.linked_at = links
    /\ ~crossed => Held(link.since_id) /\ Past(link.since_id) >= start

\* So does the cursor every import under the last link read before its await.
Waiting(q) == request[q] # NULL /\ request[q].kind = "import"

SnapshotsHold ==
  \A q \in Requests : Waiting(q) =>
    /\ request[q].link.linked_at <= links
    /\ stored /\ ~crossed /\ request[q].link.linked_at = links =>
         Held(request[q].link.since_id) /\ Past(request[q].link.since_id) >= start

\* An answer has every entry of the current session between that cursor and
\* its own last entry, and none at or before the cursor.
Complete(since, ids) ==
  /\ \A c \in ids : c > Past(since)
  /\ \A c \in DOMAIN sessionOf :
       sessionOf[c] = session /\ c > Past(since) /\ (\E d \in ids : c <= d) => c \in ids

AnswersComplete ==
  \A q \in Requests : Waiting(q) /\ request[q].answer # NULL =>
    Complete(request[q].link.since_id, request[q].answer.comm_history)

\* No cursor and no answer is ahead of the service.
NothingAhead ==
  /\ link # NULL => Past(link.since_id) <= Len(sessionOf)
  /\ \A q \in Requests :
       /\ Waiting(q) => Past(request[q].link.since_id) <= Len(sessionOf)
       /\ request[q] # NULL /\ request[q].answer # NULL =>
            request[q].answer.comm_history \subseteq DOMAIN sessionOf

ImportInvariant ==
  TypeOK /\ NothingAhead /\ LinkHolds /\ SnapshotsHold /\ AnswersComplete /\ CountedOnce

----------------------------------------------------------------------------
(* What the steps are made of.                                             *)

\* Entries are among finitely many, so any set of them can be counted.
LEMMA ThreadIsFinite ==
  ASSUME NEW S \in SUBSET Comms
  PROVE  IsFiniteSet(S) /\ Cardinality(S) \in 0..MaxComm
<1>1. IsFiniteSet(Comms) /\ Cardinality(Comms) = MaxComm
  BY BoundAssumption, FS_Interval DEF Comms
<1>2. IsFiniteSet(S) /\ Cardinality(S) <= MaxComm
  BY <1>1, FS_Subset
<1>3. QED BY <1>2, FS_CardinalityType, BoundAssumption

\* The rows counted as created are the ones the thread grows by.
LEMMA CreatedCounts ==
  ASSUME NEW S \in SUBSET Comms, NEW R \in SUBSET Comms
  PROVE  Cardinality(S \cup R) = Cardinality(S) + Cardinality(R \ S)
<1>1. IsFiniteSet(S) /\ IsFiniteSet(R \ S) /\ S \cup R = S \cup (R \ S) /\ S \cap (R \ S) = {}
  BY ThreadIsFinite
<1>2. Cardinality(S \cup (R \ S)) = Cardinality(S) + Cardinality(R \ S) - Cardinality({})
  BY <1>1, FS_Union
<1>3. Cardinality({}) = 0 /\ Cardinality(S) \in Nat /\ Cardinality(R \ S) \in Nat
  BY ThreadIsFinite, FS_EmptySet
<1>4. QED BY <1>1, <1>2, <1>3

\* What a waiting import keeps, and its answer, are well typed.
LEMMA WaitingType ==
  ASSUME TypeOK, NEW q \in Requests, Waiting(q)
  PROVE  /\ request[q] \in [kind : {"import"}, link : Cursor, answer : Answer \cup {NULL}]
         /\ Past(request[q].link.since_id) \in 0..MaxComm
         /\ request[q].answer # NULL => request[q].answer.comm_history \subseteq Comms
<1>1. request[q] \in [kind : {"import"}, link : Cursor, answer : Answer \cup {NULL}]
  BY DEF TypeOK, Waiting, Request
<1>2. QED BY <1>1, BoundAssumption DEF Cursor, Answer, Past

\* The new cursor is the old one or an entry of the answer, and never lower.
LEMMA NewSinceIs ==
  ASSUME TypeOK, NEW q \in Requests, Waiting(q), request[q].answer # NULL
  PROVE  LET since == request[q].link.since_id
             ids   == request[q].answer.comm_history
             new   == NewSince(request[q]) IN
         /\ new \in (0..MaxComm) \cup {NULL}
         /\ Past(new) \in 0..MaxComm
         /\ Past(new) = Past(since) \/ Past(new) \in ids
         /\ Past(new) >= Past(since)
<1> DEFINE since == request[q].link.since_id
           ids   == request[q].answer.comm_history
<1>1. ids \subseteq Comms /\ Past(since) \in 0..MaxComm /\ since \in (0..MaxComm) \cup {NULL}
  BY WaitingType DEF Cursor
<1>2. CASE ids = {}
  BY <1>1, <1>2 DEF NewSince
<1>3. CASE ids # {}
  <2>1. NewSince(request[q]) = MaxCommId(ids, Past(since))
    BY <1>3 DEF NewSince
  <2>2. /\ NewSince(request[q]) \in ids \cup {Past(since)}
        /\ Past(since) <= NewSince(request[q])
    BY <1>1, <2>1, MaxCommIdIsMax
  <2>3. NewSince(request[q]) \in 0..MaxComm
    BY <1>1, <2>2 DEF Comms
  <2>4. Past(NewSince(request[q])) = NewSince(request[q])
    BY <2>3, BoundAssumption DEF Past
  <2>5. QED BY <2>2, <2>3, <2>4
<1>4. QED BY <1>2, <1>3

\* Once the rows of a complete answer are filed, its new cursor holds.
LEMMA ImportHolds ==
  ASSUME TypeOK, NEW q \in Requests, Waiting(q), request[q].answer # NULL,
         Complete(request[q].link.since_id, request[q].answer.comm_history),
         Held(request[q].link.since_id),
         NEW c \in DOMAIN sessionOf, sessionOf[c] = session, c > start,
         c <= Past(NewSince(request[q]))
  PROVE  c \in thread \cup Rows(request[q].answer.comm_history) \cup Wordless
<1> DEFINE since == request[q].link.since_id
           ids   == request[q].answer.comm_history
           new   == NewSince(request[q])
<1>2. c \in Nat /\ Past(new) \in Nat /\ Past(since) \in Nat
  BY NewSinceIs, WaitingType DEF TypeOK
<1>3. CASE c <= Past(since)
  BY <1>3 DEF Held
<1>4. CASE c > Past(since)
  <2>1. Past(new) \in ids
    BY <1>2, <1>4, NewSinceIs
  <2>2. c \in ids
    BY <1>4, <2>1 DEF Complete
  <2>3. QED BY <2>2 DEF Rows
<1>5. QED BY <1>2, <1>3, <1>4

----------------------------------------------------------------------------
(* Every step keeps the invariant.                                         *)

\* It holds of a database with one unlinked flight.
LEMMA InitHolds ==
  Init => ImportInvariant
<1> SUFFICES ASSUME Init PROVE ImportInvariant
  OBVIOUS
<1>1. TypeOK
  <2>1. session = 1 /\ session \in Sessions
    BY BoundAssumption DEF Init, Sessions
  <2>2. sessionOf \in Seq(1..session) /\ Len(sessionOf) = 0
    BY DEF Init
  <2>3. request \in [Requests -> Request \cup {NULL}]
    BY DEF Init
  <2>4. links \in 0..MaxLink /\ kills \in 0..MaxKill /\ start \in 0..MaxComm
    BY BoundAssumption DEF Init
  <2>5. stored \in BOOLEAN /\ link = NULL /\ thread = {} /\ crossed \in BOOLEAN
    BY DEF Init
  <2>6. QED BY BoundAssumption, <2>1, <2>2, <2>3, <2>4, <2>5 DEF TypeOK
<1>2. NothingAhead /\ LinkHolds /\ SnapshotsHold /\ AnswersComplete /\ CountedOnce
  BY DEF Init, NothingAhead, LinkHolds, SnapshotsHold, AnswersComplete, CountedOnce, Waiting
<1>3. QED BY <1>1, <1>2 DEF ImportInvariant

\* A new entry is after every cursor and every answer.
LEMMA NewCommHolds ==
  ASSUME ImportInvariant, NewComm
  PROVE  ImportInvariant'
<1> USE DEF ImportInvariant
<1>1. /\ UNCHANGED <<stored, link, thread, request, session, links, kills, start, crossed>>
      /\ sessionOf' = Append(sessionOf, session) /\ Len(sessionOf) < MaxComm
  BY DEF NewComm
<1>2. /\ sessionOf \in Seq(Nat) /\ Len(sessionOf) \in Nat /\ Len(sessionOf') = Len(sessionOf) + 1
      /\ \A c \in DOMAIN sessionOf : sessionOf'[c] = sessionOf[c]
      /\ DOMAIN sessionOf = 1..Len(sessionOf) /\ DOMAIN sessionOf' = 1..(Len(sessionOf) + 1)
  BY <1>1 DEF TypeOK, Sessions
<1>3. TypeOK'
  BY <1>1, <1>2, BoundAssumption DEF TypeOK, Sessions
<1>4. NothingAhead'
  <2>1. link # NULL => Past(link.since_id) \in Nat
    BY BoundAssumption DEF TypeOK, LinkRow, Past
  <2>2. \A q \in Requests : Waiting(q) => Past(request[q].link.since_id) \in Nat
    BY WaitingType
  <2>3. QED BY <1>1, <1>2, <2>1, <2>2 DEF NothingAhead, Waiting, Past
<1>5. \A s : Held(s) /\ Past(s) <= Len(sessionOf) /\ Past(s) \in Nat => Held(s)'
  BY <1>1, <1>2 DEF Held, Past
<1>6. LinkHolds'
  <2>1. link # NULL => Past(link.since_id) \in Nat
    BY BoundAssumption DEF TypeOK, LinkRow, Past
  <2>2. QED BY <1>1, <1>5, <2>1 DEF LinkHolds, NothingAhead, Held, Past
<1>7. SnapshotsHold'
  BY <1>1, <1>5, WaitingType DEF SnapshotsHold, NothingAhead, Held, Past, Waiting
<1>8. AnswersComplete'
  BY <1>1, <1>2, WaitingType DEF AnswersComplete, NothingAhead, Complete, Past, Waiting
<1>9. CountedOnce'
  BY <1>1 DEF CountedOnce
<1>10. QED BY <1>3, <1>4, <1>6, <1>7, <1>8, <1>9

\* A new session has no entries yet.
LEMMA NewSessionHolds ==
  ASSUME ImportInvariant, NewSession
  PROVE  ImportInvariant'
<1> USE DEF ImportInvariant
<1>1. /\ UNCHANGED <<stored, link, thread, request, sessionOf, links, kills, start, crossed>>
      /\ session \in Nat /\ session' = session + 1 /\ session' \in Sessions
  BY BoundAssumption DEF NewSession, TypeOK, Sessions
<1>2. \A c \in DOMAIN sessionOf : sessionOf[c] # session'
  BY <1>1 DEF TypeOK
<1>3. sessionOf \in Seq(1..session')
  BY <1>1 DEF TypeOK
<1>4. TypeOK'
  BY <1>1, <1>3 DEF TypeOK
<1>5. NothingAhead'
  BY <1>1 DEF NothingAhead, Waiting, Past
<1>6. LinkHolds'
  BY <1>1, <1>2 DEF LinkHolds, Held, Past
<1>7. SnapshotsHold'
  BY <1>1, <1>2 DEF SnapshotsHold, Held, Past, Waiting
<1>8. AnswersComplete'
  BY <1>1, <1>2 DEF AnswersComplete, Complete, Past, Waiting
<1>9. CountedOnce'
  BY <1>1 DEF CountedOnce
<1>10. QED BY <1>4, <1>5, <1>6, <1>7, <1>8, <1>9

\* An answer has everything after the cursor it was asked with.
LEMMA AnsweredHolds ==
  ASSUME ImportInvariant, NEW q \in Requests, Answered(q)
  PROVE  ImportInvariant'
<1> USE DEF ImportInvariant
<1> DEFINE since == IF request[q].kind = "import" THEN Past(request[q].link.since_id) ELSE 0
<1>1. /\ request[q] # NULL /\ request[q].answer = NULL
      /\ UNCHANGED <<stored, link, thread, session, sessionOf, links, kills, start, crossed>>
  BY DEF Answered, upstream
<1>2. PICK named \in {session, NULL} :
        request' = [request EXCEPT ![q].answer =
                      [flight_id |-> named, comm_history |-> HistoryAfter(since)]]
  BY DEF Answered
<1>3. /\ request[q] \in Request
      /\ DOMAIN sessionOf \subseteq Comms /\ HistoryAfter(since) \subseteq DOMAIN sessionOf
  BY <1>1, BoundAssumption DEF TypeOK, HistoryAfter, Comms
<1>4. /\ request'[q] = [request[q] EXCEPT !.answer =
                        [flight_id |-> named, comm_history |-> HistoryAfter(since)]]
      /\ \A r \in Requests \ {q} : request'[r] = request[r]
      /\ request' \in [Requests -> Request \cup {NULL}]
  <2>1. [flight_id |-> named, comm_history |-> HistoryAfter(since)] \in Answer
    BY <1>3 DEF Answer, TypeOK
  <2>2. [request[q] EXCEPT !.answer = [flight_id |-> named, comm_history |-> HistoryAfter(since)]]
          \in Request
    BY <1>3, <2>1 DEF Request
  <2>3. QED BY <1>2, <2>2 DEF TypeOK
<1>5. /\ request'[q].kind = request[q].kind
      /\ request'[q].kind = "import" => request'[q].link = request[q].link
      /\ request'[q].answer.comm_history = HistoryAfter(since)
  BY <1>3, <1>4 DEF Request
<1>6. \A r \in Requests : Waiting(r)' => Waiting(r) /\ request'[r].link = request[r].link
  BY <1>1, <1>4, <1>5 DEF Waiting
<1>7. TypeOK'
  BY <1>1, <1>4 DEF TypeOK
<1>8. NothingAhead'
  <2>1. link' # NULL => Past(link.since_id)' <= Len(sessionOf)'
    BY <1>1 DEF NothingAhead, Past
  <2>2. ASSUME NEW r \in Requests, Waiting(r)'
        PROVE  Past(request[r].link.since_id)' <= Len(sessionOf)'
    BY <1>1, <1>6, <2>2 DEF NothingAhead, Past
  <2>3. ASSUME NEW r \in Requests, request'[r] # NULL, request'[r].answer # NULL
        PROVE  request'[r].answer.comm_history \subseteq DOMAIN sessionOf'
    <3>1. CASE r = q
      BY <1>1, <1>3, <1>5, <3>1
    <3>2. CASE r # q
      BY <1>1, <1>4, <2>3, <3>2 DEF NothingAhead
    <3>3. QED BY <3>1, <3>2
  <2>4. QED BY <2>1, <2>2, <2>3 DEF NothingAhead
<1>9. LinkHolds'
  BY <1>1 DEF LinkHolds, Held, Past
<1>10. SnapshotsHold'
  BY <1>1, <1>6 DEF SnapshotsHold, Held, Past
<1>11. AnswersComplete'
  <2> SUFFICES ASSUME NEW r \in Requests, Waiting(r)', request'[r].answer # NULL
               PROVE  Complete(request[r].link.since_id, request[r].answer.comm_history)'
    BY DEF AnswersComplete
  <2>1. CASE r = q
    <3>1. /\ since = Past(request[q].link.since_id) /\ request'[q].link = request[q].link
          /\ request'[q].answer.comm_history = HistoryAfter(since)
      BY <1>5, <1>6, <2>1 DEF Waiting
    <3>2. \A c \in DOMAIN sessionOf : c \in Nat
      BY <1>3, BoundAssumption DEF Comms
    <3>3. QED BY <1>1, <2>1, <3>1, <3>2 DEF Complete, Past, HistoryAfter
  <2>2. CASE r # q
    BY <1>1, <1>4, <1>6, <2>2 DEF AnswersComplete, Complete, Past, Waiting
  <2>3. QED BY <2>1, <2>2
<1>12. CountedOnce'
  BY <1>1 DEF CountedOnce
<1>13. QED BY <1>7, <1>8, <1>9, <1>10, <1>11, <1>12

\* Steps that drop requests, or keep them, and touch neither the link nor the
\* thread: a failed fetch, a death between requests, a stutter.
LEMMA DroppedHolds ==
  ASSUME ImportInvariant,
         UNCHANGED <<stored, link, thread, session, sessionOf, links, start, crossed>>,
         kills' \in 0..MaxKill,
         request' \in [Requests -> Request \cup {NULL}],
         \A q \in Requests : request'[q] \in {request[q], NULL}
  PROVE  ImportInvariant'
<1> USE DEF ImportInvariant
<1>1. TypeOK'
  BY DEF TypeOK
<1>2. \A q \in Requests : request'[q] # NULL => request'[q] = request[q]
  OBVIOUS
<1>3. NothingAhead'
  BY <1>2 DEF NothingAhead, Past, Waiting
<1>4. LinkHolds'
  BY DEF LinkHolds, Held, Past
<1>5. SnapshotsHold'
  BY <1>2 DEF SnapshotsHold, Held, Past, Waiting
<1>6. AnswersComplete'
  BY <1>2 DEF AnswersComplete, Complete, Past, Waiting
<1>7. CountedOnce'
  BY DEF CountedOnce
<1>8. QED BY <1>1, <1>3, <1>4, <1>5, <1>6, <1>7

\* A new request for a link waits for nothing an import knows.
LEMMA LinkRequestedHolds ==
  ASSUME ImportInvariant, NEW q \in Requests, LinkRequested(q)
  PROVE  ImportInvariant'
<1> USE DEF ImportInvariant
<1>1. PICK fromNow \in BOOLEAN :
        request' = [request EXCEPT ![q] = [kind |-> "link", fromNow |-> fromNow, answer |-> NULL]]
  BY DEF LinkRequested
<1>2. UNCHANGED <<stored, link, thread, session, sessionOf, links, kills, start, crossed>>
  BY DEF LinkRequested, upstream
<1>3. /\ request' \in [Requests -> Request \cup {NULL}]
      /\ request'[q].kind = "link" /\ request'[q].answer = NULL
      /\ \A r \in Requests \ {q} : request'[r] = request[r]
  BY <1>1 DEF TypeOK, Request
<1>4. \A r \in Requests : Waiting(r)' => r # q /\ Waiting(r)
  BY <1>3 DEF Waiting
<1>5. TypeOK'
  BY <1>2, <1>3 DEF TypeOK
<1>6. NothingAhead'
  BY <1>2, <1>3, <1>4 DEF NothingAhead, Past
<1>7. LinkHolds'
  BY <1>2 DEF LinkHolds, Held, Past
<1>8. SnapshotsHold'
  BY <1>2, <1>3, <1>4 DEF SnapshotsHold, Held, Past
<1>9. AnswersComplete'
  BY <1>2, <1>3, <1>4 DEF AnswersComplete, Complete, Past
<1>10. CountedOnce'
  BY <1>2 DEF CountedOnce
<1>11. QED BY <1>5, <1>6, <1>7, <1>8, <1>9, <1>10

\* An import takes the cursor of the link as it is.
LEMMA ImportRequestedHolds ==
  ASSUME ImportInvariant, NEW q \in Requests, ImportRequested(q)
  PROVE  ImportInvariant'
<1> USE DEF ImportInvariant
<1>1. request' = [request EXCEPT ![q] =
                   [kind |-> "import", answer |-> NULL,
                    link |-> [upstream_flight_id |-> link.upstream_flight_id,
                              since_id |-> link.since_id, linked_at |-> link.linked_at]]]
  BY DEF ImportRequested
<1>2. /\ link # NULL /\ link \in LinkRow
      /\ UNCHANGED <<stored, link, thread, session, sessionOf, links, kills, start, crossed>>
  BY DEF ImportRequested, upstream, TypeOK
<1>3. /\ request'[q] = [kind |-> "import", answer |-> NULL,
                        link |-> [upstream_flight_id |-> link.upstream_flight_id,
                                  since_id |-> link.since_id, linked_at |-> link.linked_at]]
      /\ \A r \in Requests \ {q} : request'[r] = request[r]
  BY <1>1 DEF TypeOK
<1>4. request'[q] \in Request
  BY <1>2, <1>3 DEF Request, Cursor, LinkRow
<1>5. request' \in [Requests -> Request \cup {NULL}]
  BY <1>1, <1>3, <1>4 DEF TypeOK
<1>6. /\ request'[q].answer = NULL
      /\ request'[q].link.since_id = link.since_id
      /\ request'[q].link.linked_at = link.linked_at
  BY <1>3
<1>7. TypeOK'
  BY <1>2, <1>5 DEF TypeOK
<1>8. NothingAhead'
  BY <1>2, <1>3, <1>6 DEF NothingAhead, Past, Waiting
<1>9. LinkHolds'
  BY <1>2 DEF LinkHolds, Held, Past
<1>10. SnapshotsHold'
  <2> SUFFICES ASSUME NEW r \in Requests, Waiting(r)'
               PROVE  /\ request'[r].link.linked_at <= links
                      /\ stored /\ ~crossed /\ request'[r].link.linked_at = links =>
                           Held(request[r].link.since_id)' /\ Past(request[r].link.since_id)' >= start
    BY <1>2 DEF SnapshotsHold
  <2>1. CASE r = q
    BY <1>2, <1>6, <2>1 DEF LinkHolds, Held, Past, TypeOK
  <2>2. CASE r # q
    BY <1>2, <1>3, <2>2 DEF SnapshotsHold, Held, Past, Waiting
  <2>3. QED BY <2>1, <2>2
<1>11. AnswersComplete'
  BY <1>2, <1>3, <1>6 DEF AnswersComplete, Complete, Past, Waiting
<1>12. CountedOnce'
  BY <1>2 DEF CountedOnce
<1>13. QED BY <1>7, <1>8, <1>9, <1>10, <1>11, <1>12

\* Every import begun before a new link is one of an earlier link, and a new
\* link's cursor covers nothing.
LEMMA LinkAnsweredHolds ==
  ASSUME ImportInvariant, NEW q \in Requests, LinkAnswered(q)
  PROVE  ImportInvariant'
<1> USE DEF ImportInvariant
<1> DEFINE answer   == request[q].answer
           baseline == MaxCommId(answer.comm_history, 0)
           Row      == [upstream_flight_id |-> answer.flight_id,
                        since_id           |-> LinkedSince(request[q].fromNow, baseline),
                        linked_at          |-> links + 1,
                        imported_count     |-> KeptCount]
<1>1. /\ request[q] # NULL /\ request[q].kind = "link" /\ answer # NULL
      /\ request' = [request EXCEPT ![q] = NULL]
      /\ UNCHANGED <<stored, thread, session, sessionOf, kills>>
  BY DEF LinkAnswered, upstream
<1>2. /\ request[q] \in [kind : {"link"}, fromNow : BOOLEAN, answer : Answer \cup {NULL}]
      /\ answer \in Answer
  BY <1>1 DEF TypeOK, Request
<1>3. /\ request' \in [Requests -> Request \cup {NULL}]
      /\ \A r \in Requests : request'[r] \in {request[r], NULL}
  BY <1>1 DEF TypeOK
<1>4. CASE UNCHANGED <<link, links, start, crossed>>
  BY <1>1, <1>3, <1>4, DroppedHolds DEF TypeOK
<1>5. CASE /\ links < MaxLink /\ stored
           /\ link' = Row /\ links' = links + 1
           /\ start' = IF request[q].fromNow THEN baseline ELSE 0
           /\ crossed' = FALSE
  <2>1. /\ answer.comm_history \subseteq Comms
        /\ answer.comm_history \subseteq DOMAIN sessionOf
    BY <1>1, <1>2 DEF Answer, NothingAhead
  <2>2. baseline \in 0..MaxComm /\ baseline \in answer.comm_history \cup {0}
    BY <2>1, BoundAssumption, MaxCommIdIsMax DEF Comms
  <2>3. baseline <= Len(sessionOf)
    BY <2>1, <2>2 DEF TypeOK
  <2>4. /\ link'.linked_at = links' /\ links' \in 1..MaxLink
        /\ start' \in 0..MaxComm
        /\ link'.since_id \in (0..MaxComm) \cup {NULL}
        /\ Past(link.since_id)' = start' /\ start' <= Len(sessionOf)
    BY <1>2, <1>5, <2>2, <2>3, BoundAssumption DEF LinkedSince, Past, TypeOK
  <2>5. KeptCount \in 0..MaxComm /\ KeptCount <= Cardinality(thread)
    BY ThreadIsFinite, BoundAssumption DEF KeptCount, TypeOK, CountedOnce, LinkRow
  <2>6. link' \in LinkRow
    BY <1>2, <1>5, <2>4, <2>5 DEF LinkRow, Answer
  <2>7. TypeOK'
    <3>1. stored' = TRUE /\ crossed' = FALSE
      BY <1>1, <1>5 DEF TypeOK
    <3>2. links' \in 0..MaxLink
      BY <2>4, BoundAssumption
    <3>3. QED BY <1>1, <1>3, <2>4, <2>6, <3>1, <3>2 DEF TypeOK
  <2>8. \A r \in Requests : request'[r] # NULL => request'[r] = request[r]
    BY <1>3
  <2>9. NothingAhead'
    BY <1>1, <2>4, <2>8 DEF NothingAhead, Past, Waiting
  <2>10. LinkHolds'
    <3>1. \A c \in DOMAIN sessionOf : ~(c > start' /\ c <= Past(link.since_id)')
      BY <2>4 DEF TypeOK
    <3>2. QED BY <1>1, <2>4, <3>1 DEF LinkHolds, Held, Past
  <2>11. SnapshotsHold'
    <3>1. \A r \in Requests : Waiting(r) => request[r].link.linked_at \in Nat
      BY WaitingType, BoundAssumption DEF Cursor
    <3>2. \A r \in Requests : Waiting(r) => /\ request[r].link.linked_at <= links'
                                            /\ request[r].link.linked_at # links'
      BY <1>5, <3>1 DEF SnapshotsHold, TypeOK
    <3>3. QED BY <2>8, <3>2 DEF SnapshotsHold, Waiting
  <2>12. AnswersComplete'
    BY <1>1, <2>8 DEF AnswersComplete, Complete, Past, Waiting
  <2>13. CountedOnce'
    BY <1>1, <1>5, <2>5 DEF CountedOnce
  <2>14. QED BY <2>7, <2>9, <2>10, <2>11, <2>12, <2>13
<1>6. QED BY <1>1, <1>4, <1>5 DEF LinkAnswered

\* Unlinking forgets the link; entries and counts stay.
LEMMA UnlinkHolds ==
  ASSUME ImportInvariant, Unlink
  PROVE  ImportInvariant'
<1> USE DEF ImportInvariant
<1>1. /\ link' = NULL
      /\ UNCHANGED <<stored, thread, request, session, sessionOf, links, kills, start, crossed>>
  BY DEF Unlink, upstream
<1>2. TypeOK' /\ LinkHolds' /\ CountedOnce'
  BY <1>1 DEF TypeOK, LinkHolds, CountedOnce
<1>3. NothingAhead' /\ SnapshotsHold'
  BY <1>1 DEF NothingAhead, SnapshotsHold, Held, Past, Waiting
<1>4. AnswersComplete'
  BY <1>1 DEF AnswersComplete, Complete, Past, Waiting
<1>5. QED BY <1>2, <1>3, <1>4

\* Deleting the flight takes its entries along.
LEMMA DeleteFlightHolds ==
  ASSUME ImportInvariant, DeleteFlight
  PROVE  ImportInvariant'
<1> USE DEF ImportInvariant
<1>1. /\ stored' = FALSE /\ link' = NULL /\ thread' = {}
      /\ UNCHANGED <<request, session, sessionOf, links, kills, start, crossed>>
  BY DEF DeleteFlight, CascadeFlight, upstream
<1>2. TypeOK' /\ LinkHolds' /\ CountedOnce'
  BY <1>1 DEF TypeOK, LinkHolds, CountedOnce
<1>3. NothingAhead' /\ SnapshotsHold'
  BY <1>1 DEF NothingAhead, SnapshotsHold, Held, Past, Waiting
<1>4. AnswersComplete'
  BY <1>1 DEF AnswersComplete, Complete, Past, Waiting
<1>5. QED BY <1>2, <1>3, <1>4

\* Filing rows of a complete answer keeps everything but the link.
LEMMA FiledHolds ==
  ASSUME ImportInvariant,
         NEW files \in SUBSET Comms, thread' = thread \cup files,
         stored, UNCHANGED <<stored, session, sessionOf, links, start>>,
         kills' \in 0..MaxKill,
         request' \in [Requests -> Request \cup {NULL}],
         \A q \in Requests : request'[q] \in {request[q], NULL},
         link' \in LinkRow \cup {NULL}, crossed' \in BOOLEAN, crossed => crossed'
  PROVE  TypeOK' /\ SnapshotsHold' /\ AnswersComplete'
<1> USE DEF ImportInvariant
<1>1. TypeOK'
  BY DEF TypeOK
<1>2. \A q \in Requests : request'[q] # NULL => request'[q] = request[q]
  OBVIOUS
<1>3. SnapshotsHold'
  BY <1>2 DEF SnapshotsHold, Held, Past, Waiting
<1>4. AnswersComplete'
  BY <1>2 DEF AnswersComplete, Complete, Past, Waiting
<1>5. QED BY <1>1, <1>3, <1>4

\* An import of the last link moves the cursor over what it has filed; one of
\* an earlier link leaves its mark in crossed.
LEMMA ImportAnsweredHolds ==
  ASSUME ImportInvariant, NEW q \in Requests, ImportAnswered(q)
  PROVE  ImportInvariant'
<1> USE DEF ImportInvariant
<1> DEFINE r   == request[q]
           ids == r.answer.comm_history
           new == NewSince(r)
<1>1. /\ Waiting(q) /\ r.answer # NULL
      /\ request' = [request EXCEPT ![q] = NULL]
      /\ UNCHANGED <<stored, session, sessionOf, links, kills, start>>
  BY DEF ImportAnswered, ImportReady, Waiting, upstream
<1>2. /\ request' \in [Requests -> Request \cup {NULL}]
      /\ \A p \in Requests : request'[p] \in {request[p], NULL}
      /\ kills' \in 0..MaxKill
  BY <1>1 DEF TypeOK
<1>3. CASE UNCHANGED <<thread, link, crossed>>
  BY <1>1, <1>2, <1>3, DroppedHolds
<1>4. CASE stored /\ thread' = thread \cup Rows(ids) /\ Advance(r)
  <2>1. /\ ids \subseteq Comms /\ ids \subseteq DOMAIN sessionOf
        /\ Rows(ids) \subseteq Comms
        /\ thread \subseteq Comms
        /\ r.answer \in Answer /\ r.link.linked_at \in Nat
    BY <1>1, WaitingType, BoundAssumption DEF NothingAhead, Rows, TypeOK, Waiting, Cursor
  <2>2. /\ new \in (0..MaxComm) \cup {NULL}
        /\ Past(new) \in 0..MaxComm
        /\ Past(new) = Past(r.link.since_id) \/ Past(new) \in ids
        /\ Past(new) >= Past(r.link.since_id)
    BY <1>1, NewSinceIs
  <2>3. Past(new) <= Len(sessionOf)
    BY <1>1, <2>1, <2>2 DEF NothingAhead, TypeOK
  <2>4. \A p \in Requests : request'[p] # NULL => request'[p] = request[p]
    BY <1>2
  <2>5. CASE link = NULL
    <3>1. UNCHANGED <<link, crossed>>
      BY <1>4, <2>5 DEF Advance
    <3>2. TypeOK' /\ SnapshotsHold' /\ AnswersComplete'
      BY <1>1, <1>2, <1>4, <2>1, <3>1, FiledHolds DEF TypeOK
    <3>3. NothingAhead' /\ LinkHolds' /\ CountedOnce'
      BY <1>1, <2>4, <2>5, <3>1 DEF NothingAhead, LinkHolds, CountedOnce, Past, Waiting
    <3>4. QED BY <3>2, <3>3
  <2>6. CASE link # NULL
    <3>1. /\ link \in LinkRow
          /\ link' = [link EXCEPT !.since_id = new,
                        !.imported_count = link.imported_count + Created(r),
                        !.upstream_flight_id = IF link.upstream_flight_id = NULL
                                               THEN r.answer.flight_id
                                               ELSE link.upstream_flight_id]
          /\ crossed' = Crossing(r)
      BY <1>4, <2>6 DEF Advance, TypeOK
    <3>2. /\ link'.since_id = new /\ link'.linked_at = link.linked_at
          /\ link'.imported_count = link.imported_count + Created(r)
      BY <3>1 DEF LinkRow
    <3>3. /\ Cardinality(thread') = Cardinality(thread) + Created(r)
          /\ Created(r) \in Nat /\ Cardinality(thread') \in 0..MaxComm
      <4>1. thread' \subseteq Comms /\ Rows(ids) \ thread \subseteq Comms
        BY <1>4, <2>1
      <4>2. /\ Created(r) = Cardinality(Rows(ids) \ thread)
            /\ thread' = thread \cup Rows(ids)
        BY <1>4 DEF Created
      <4>3. Cardinality(thread \cup Rows(ids)) = Cardinality(thread) + Cardinality(Rows(ids) \ thread)
        BY <2>1, CreatedCounts
      <4>4. Cardinality(thread') \in 0..MaxComm /\ Cardinality(Rows(ids) \ thread) \in 0..MaxComm
        BY <4>1, ThreadIsFinite
      <4>5. QED BY <4>2, <4>3, <4>4, BoundAssumption
    <3>4. /\ link.imported_count \in Nat /\ Cardinality(thread) \in Nat
          /\ link.imported_count <= Cardinality(thread)
      BY <2>1, <2>6, <3>1, ThreadIsFinite DEF LinkRow, CountedOnce
    <3>5. link'.imported_count \in 0..MaxComm /\ link'.imported_count <= Cardinality(thread')
      BY <3>2, <3>3, <3>4, BoundAssumption
    <3>6. link' \in LinkRow
      <4>1. r.answer.flight_id \in Sessions \cup {NULL}
        BY <2>1 DEF Answer
      <4>2. link.imported_count + Created(r) \in 0..MaxComm
        BY <3>2, <3>5
      <4>3. QED BY <2>2, <3>1, <4>1, <4>2 DEF LinkRow
    <3>7. crossed' \in BOOLEAN /\ (crossed => crossed')
      BY <3>1 DEF Crossing, TypeOK
    <3>8. TypeOK' /\ SnapshotsHold' /\ AnswersComplete'
      BY <1>1, <1>2, <1>4, <2>1, <3>6, <3>7, FiledHolds
    <3>9. NothingAhead'
      BY <1>1, <2>3, <2>4, <3>2 DEF NothingAhead, Past, Waiting
    <3>10. LinkHolds'
      <4> SUFFICES ASSUME ~crossed'
                   PROVE  Held(link.since_id)' /\ Past(link.since_id)' >= start
        BY <1>1, <2>6, <3>2 DEF LinkHolds
      <4>1. ~crossed /\ r.link.linked_at = links
        BY <2>6, <3>1 DEF Crossing, LinkHolds
      <4>2. Held(r.link.since_id) /\ Past(r.link.since_id) >= start
        BY <1>1, <1>4, <4>1 DEF SnapshotsHold
      <4>3. Complete(r.link.since_id, ids)
        BY <1>1 DEF AnswersComplete
      <4>4. \A c \in DOMAIN sessionOf :
              sessionOf[c] = session /\ c > start /\ c <= Past(new) => c \in thread' \cup Wordless
        BY <1>1, <1>4, <4>2, <4>3, ImportHolds
      <4>5. Held(link.since_id)'
        BY <1>1, <3>2, <4>4 DEF Held, Past
      <4>6. Past(new) >= start
        BY <1>1, <2>2, <4>2, WaitingType DEF TypeOK
      <4>7. QED BY <3>2, <4>5, <4>6 DEF Past
    <3>11. CountedOnce'
      BY <3>5 DEF CountedOnce
    <3>12. QED BY <3>8, <3>9, <3>10, <3>11
  <2>7. QED BY <2>5, <2>6
<1>5. QED BY <1>3, <1>4 DEF ImportAnswered

\* A death in the loop leaves rows and no new cursor.
LEMMA KilledInImportHolds ==
  ASSUME ImportInvariant, NEW q \in Requests, KilledInImport(q)
  PROVE  ImportInvariant'
<1> USE DEF ImportInvariant
<1> DEFINE ids == request[q].answer.comm_history
<1>1. PICK last \in ids : thread' = thread \cup Rows({c \in ids : c < last})
  BY DEF KilledInImport
<1>2. /\ Waiting(q) /\ request[q].answer # NULL /\ stored
      /\ UNCHANGED <<stored, link, session, sessionOf, links, start>>
      /\ kills' \in 0..MaxKill /\ request' = [r \in Requests |-> NULL]
      /\ crossed' = Crossing(request[q])
  BY BoundAssumption DEF KilledInImport, ImportReady, Waiting, CursorInLoop, upstream, TypeOK
<1>3. /\ Rows({c \in ids : c < last}) \subseteq Comms /\ thread \subseteq Comms
  BY <1>2, WaitingType DEF Rows, TypeOK
<1>4. crossed' \in BOOLEAN /\ (crossed => crossed')
  BY <1>2 DEF Crossing, TypeOK
<1>5. TypeOK' /\ SnapshotsHold' /\ AnswersComplete'
  BY <1>1, <1>2, <1>3, <1>4, FiledHolds DEF TypeOK
<1>6. NothingAhead'
  BY <1>2 DEF NothingAhead, Past, Waiting
<1>7. LinkHolds'
  BY <1>1, <1>2, <1>4 DEF LinkHolds, Held, Past
<1>8. CountedOnce'
  <2>1. thread' \subseteq Comms /\ thread \subseteq thread'
    BY <1>1, <1>3
  <2>2. /\ Cardinality(thread) <= Cardinality(thread')
        /\ Cardinality(thread) \in Nat /\ Cardinality(thread') \in Nat
    BY <2>1, <1>3, ThreadIsFinite, FS_Subset
  <2>3. link # NULL => link.imported_count \in Nat
    BY DEF TypeOK, LinkRow
  <2>4. QED BY <1>2, <2>2, <2>3 DEF CountedOnce
<1>9. QED BY <1>5, <1>6, <1>7, <1>8

\* So every step keeps it.
LEMMA StepHolds ==
  ASSUME ImportInvariant, [Next]_vars
  PROVE  ImportInvariant'
<1>1. CASE UNCHANGED vars
  BY <1>1, DroppedHolds DEF vars, ImportInvariant, TypeOK
<1>2. CASE Killed
  BY <1>2, DroppedHolds, BoundAssumption DEF Killed, upstream, ImportInvariant, TypeOK
<1>3. ASSUME NEW q \in Requests, Failed(q) PROVE ImportInvariant'
  BY <1>3, DroppedHolds DEF Failed, upstream, ImportInvariant, TypeOK
<1>4. QED
  BY <1>1, <1>2, <1>3, NewCommHolds, NewSessionHolds, AnsweredHolds, LinkRequestedHolds,
     LinkAnsweredHolds, ImportRequestedHolds, ImportAnsweredHolds, KilledInImportHolds,
     UnlinkHolds, DeleteFlightHolds DEF Next

----------------------------------------------------------------------------
(* The theorems.                                                           *)

\* Every cursor that may be written stands on rows that are filed.
THEOREM ImportIsInvariant ==
  Spec => []ImportInvariant
BY InitHolds, StepHolds, PTL DEF Spec

\* The tables keep their shape and nothing outlives a deleted flight, for
\* requests that answer after the deletion too (the cascades and the foreign
\* keys of sayintentions_links and acars_messages).
THEOREM ImportTypeOK ==
  Spec => []TypeOK
<1>1. ImportInvariant => TypeOK
  BY DEF ImportInvariant
<1>2. QED BY <1>1, ImportIsInvariant, PTL

\* The import never steps over an entry, whatever imports overlap, fail or die
\* (the cursor is advanced once, after the last row: POST .../import).
THEOREM NothingIsSteppedOver ==
  Spec => []CursorCovers
<1>1. ImportInvariant => CursorCovers
  BY DEF ImportInvariant, LinkHolds, CursorCovers, Missing, Held
<1>2. QED BY <1>1, ImportIsInvariant, PTL

\* imported_count never counts a row twice (created rows only: POST
\* .../import).
THEOREM RowsAreCountedOnce ==
  Spec => []CountedOnce
<1>1. ImportInvariant => CountedOnce
  BY DEF ImportInvariant
<1>2. QED BY <1>1, ImportIsInvariant, PTL

\* What an import files under its own link is after the link's start
\* (?from=now of POST .../link).
LEMMA FiledAfterStart ==
  ASSUME ImportInvariant, [Next]_vars, link # NULL, link' # NULL, ~crossed',
         NEW c \in thread' \ thread
  PROVE  c > start
<1> USE DEF ImportInvariant
<1>1. PICK q \in Requests : ImportAnswered(q) \/ KilledInImport(q)
  BY DEF Next, vars, NewComm, NewSession, Answered, Failed, LinkRequested, LinkAnswered,
     ImportRequested, Unlink, DeleteFlight, CascadeFlight, Killed
<1>2. /\ Waiting(q) /\ request[q].answer # NULL /\ stored
      /\ c \in request[q].answer.comm_history
      /\ crossed' = Crossing(request[q])
  BY <1>1 DEF ImportAnswered, KilledInImport, ImportReady, Waiting, Advance, CursorInLoop, Rows
<1>3. ~crossed /\ request[q].link.linked_at = links
  BY <1>2 DEF Crossing, LinkHolds
<1>4. Past(request[q].link.since_id) >= start
  BY <1>2, <1>3 DEF SnapshotsHold
<1>5. c > Past(request[q].link.since_id)
  BY <1>2 DEF AnswersComplete, Complete
<1>6. c \in Nat /\ start \in Nat /\ Past(request[q].link.since_id) \in Nat
  BY <1>2, WaitingType, BoundAssumption DEF TypeOK, Comms
<1>7. QED BY <1>4, <1>5, <1>6

\* ?from=now imports nothing that was there when the link was made.
THEOREM NowMeansNow ==
  Spec => NothingBeforeNow
<1>1. ImportInvariant /\ [Next]_vars =>
        [link # NULL /\ link' # NULL /\ ~crossed' => \A c \in thread' \ thread : c > start]_vars
  BY FiledAfterStart
<1>2. QED BY <1>1, ImportIsInvariant, PTL DEF Spec, NothingBeforeNow

=============================================================================
