--------------------------- MODULE SayIntentions ---------------------------
(***************************************************************************)
(* Linking a flight to a SayIntentions session and importing its comms     *)
(* (src/src/routes/sayIntentions.ts, src/src/db/sayIntentionsLinks.ts).    *)
(*                                                                         *)
(* Each request runs in three steps: the part before the await, which      *)
(* reads the link; the answer of the service, computed some time later;    *)
(* and the part after the await, which runs to its end unless the process  *)
(* dies in the loop over the entries.  Between them other requests of the  *)
(* same flight run.  A comms entry is its id: it stands for the one or two *)
(* rows mapCommEntryToRows() makes of it, none for a wordless one.         *)
(***************************************************************************)
EXTENDS Naturals, FiniteSets, Sequences, TLC

CONSTANTS
  NULL,
  MaxComm,      \* bound on the ids of comms entries
  MaxSession,   \* bound on the sessions of the upstream key
  MaxLink,      \* bound on the links made
  MaxKill,      \* bound on deaths of the process
  Requests,     \* requests that may wait for the service at once
  Wordless      \* the entries that have no text in either direction

ASSUME BoundAssumption ==
  /\ MaxComm \in Nat /\ MaxSession \in Nat \ {0} /\ MaxLink \in Nat /\ MaxKill \in Nat
  /\ Wordless \subseteq 1..MaxComm
  /\ NULL \notin Nat

VARIABLES
  stored,      \* the flight's row exists
  link,        \* its sayintentions_links row, or NULL
  thread,      \* the comms entries filed in the flight's ACARS thread
  request,     \* what each request keeps across its await, or NULL
  session,     \* external: the session the key holds now
  sessionOf,   \* external: the session of every comms entry so far
  links, kills,
  start,       \* history: the id after which the last link starts to import
  crossed      \* history: an import begun under an earlier link wrote under this one

vars == <<stored, link, thread, request, session, sessionOf, links, kills, start, crossed>>
upstream == <<session, sessionOf>>

Comms    == 1..MaxComm
Sessions == 1..MaxSession

\* linked_at is the number of the link; baseline_comm_id and last_import_at,
\* which are only shown, are left out.  An import reads a part of the row.
Cursor  == [upstream_flight_id : Sessions \cup {NULL}, since_id : (0..MaxComm) \cup {NULL},
            linked_at : 1..MaxLink]
LinkRow == [upstream_flight_id : Sessions \cup {NULL}, since_id : (0..MaxComm) \cup {NULL},
            linked_at : 1..MaxLink, imported_count : 0..MaxComm]
Answer  == [flight_id : Sessions \cup {NULL}, comm_history : SUBSET Comms]
Request == [kind : {"link"}, fromNow : BOOLEAN, answer : Answer \cup {NULL}]
           \cup [kind : {"import"}, link : Cursor, answer : Answer \cup {NULL}]

Past(s)    == IF s = NULL THEN 0 ELSE s
\* maxCommId()
MaxCommId(ids, initial) == CHOOSE m \in ids \cup {initial} : \A i \in ids \cup {initial} : i <= m
\* What an import writes of these entries.
Rows(ids)  == ids \ Wordless

Init ==
  /\ stored = TRUE /\ link = NULL /\ thread = {}
  /\ request = [q \in Requests |-> NULL]
  /\ session = 1 /\ sessionOf = << >>
  /\ links = 0 /\ kills = 0
  /\ start = 0 /\ crossed = FALSE

----------------------------------------------------------------------------
(* External: the service.                                                  *)

NewComm ==
  /\ Len(sessionOf) < MaxComm
  /\ sessionOf' = Append(sessionOf, session)
  /\ UNCHANGED <<stored, link, thread, request, session, links, kills, start, crossed>>

NewSession ==
  /\ session < MaxSession
  /\ session' = session + 1
  /\ UNCHANGED <<stored, link, thread, request, sessionOf, links, kills, start, crossed>>

\* getCommsHistory(): the session's entries after since_id, which is not sent
\* when it is 0 or absent.  The answer of a link request starts at the start.
HistoryAfter(since) == {c \in DOMAIN sessionOf : sessionOf[c] = session /\ c > since}

Answered(q) ==
  /\ request[q] # NULL /\ request[q].answer = NULL
  /\ LET since == IF request[q].kind = "import" THEN Past(request[q].link.since_id) ELSE 0 IN
     \E named \in {session, NULL} :
       request' = [request EXCEPT ![q].answer =
                     [flight_id |-> named, comm_history |-> HistoryAfter(since)]]
  /\ UNCHANGED <<stored, link, thread, upstream, links, kills, start, crossed>>

\* Any SayIntentionsFetchError: the handler responds and changes nothing.
Failed(q) ==
  /\ request[q] # NULL /\ request[q].answer = NULL
  /\ request' = [request EXCEPT ![q] = NULL]
  /\ UNCHANGED <<stored, link, thread, upstream, links, kills, start, crossed>>

----------------------------------------------------------------------------
(* POST .../sayintentions/link                                             *)

LinkRequested(q) ==
  /\ stored /\ request[q] = NULL
  /\ \E fromNow \in BOOLEAN :
       request' = [request EXCEPT ![q] = [kind |-> "link", fromNow |-> fromNow, answer |-> NULL]]
  /\ UNCHANGED <<stored, link, thread, upstream, links, kills, start, crossed>>

\* Mutant: every link starts at the start of the session.
SinceSessionStart(fromNow, baseline) == NULL

LinkedSince(fromNow, baseline) == IF fromNow THEN baseline ELSE NULL

KeptCount == IF link = NULL THEN 0 ELSE link.imported_count

\* upsertSayIntentionsLink(); for a flight deleted meanwhile the foreign key
\* fails, and a session with neither id nor comms is refused.
LinkAnswered(q) ==
  /\ request[q] # NULL /\ request[q].kind = "link" /\ request[q].answer # NULL
  /\ request' = [request EXCEPT ![q] = NULL]
  /\ LET answer   == request[q].answer
         baseline == MaxCommId(answer.comm_history, 0) IN
     IF stored /\ ~(answer.flight_id = NULL /\ answer.comm_history = {})
     THEN /\ links < MaxLink
          /\ link' = [upstream_flight_id |-> answer.flight_id,
                      since_id           |-> LinkedSince(request[q].fromNow, baseline),
                      linked_at          |-> links + 1,
                      imported_count     |-> KeptCount]
          /\ links' = links + 1
          /\ start' = IF request[q].fromNow THEN baseline ELSE 0
          /\ crossed' = FALSE
     ELSE UNCHANGED <<link, links, start, crossed>>
  /\ UNCHANGED <<stored, thread, upstream, kills>>

\* DELETE .../sayintentions/link
Unlink ==
  /\ link' = NULL
  /\ UNCHANGED <<stored, thread, request, upstream, links, kills, start, crossed>>

----------------------------------------------------------------------------
(* POST .../sayintentions/import                                           *)

ImportRequested(q) ==
  /\ stored /\ link # NULL /\ request[q] = NULL
  /\ request' = [request EXCEPT ![q] = 
                  [kind |-> "import", answer |-> NULL,
                   link |-> [upstream_flight_id |-> link.upstream_flight_id,
                             since_id |-> link.since_id, linked_at |-> link.linked_at]]]
  /\ UNCHANGED <<stored, link, thread, upstream, links, kills, start, crossed>>

\* SESSION_CHANGED, against the link as it was before the await.
SameSession(r) ==
  \/ r.link.upstream_flight_id = NULL
  \/ r.answer.flight_id = NULL
  \/ r.link.upstream_flight_id = r.answer.flight_id

NewSince(r) ==
  IF r.answer.comm_history = {} THEN r.link.since_id
  ELSE MaxCommId(r.answer.comm_history, Past(r.link.since_id))

\* Mutant: counts the entries that were already there.
CreatedOrSeen(r) == Cardinality(Rows(r.answer.comm_history))

Created(r) == Cardinality(Rows(r.answer.comm_history) \ thread)

Crossing(r) == crossed \/ (link # NULL /\ r.link.linked_at # link.linked_at)

\* advanceSayIntentionsCursor() on the row as it is now; without one the
\* handler fails, after the rows are filed.
Advance(r) ==
  IF link = NULL THEN UNCHANGED <<link, crossed>>
  ELSE /\ link' = [link EXCEPT !.since_id = NewSince(r),
                     !.imported_count = link.imported_count + Created(r),
                     !.upstream_flight_id = IF link.upstream_flight_id = NULL
                                            THEN r.answer.flight_id ELSE link.upstream_flight_id]
       /\ crossed' = Crossing(r)

ImportReady(q) ==
  /\ request[q] # NULL /\ request[q].kind = "import" /\ request[q].answer # NULL

\* A deleted flight has neither rows nor link to write: the foreign key fails.
ImportAnswered(q) ==
  /\ ImportReady(q)
  /\ request' = [request EXCEPT ![q] = NULL]
  /\ IF stored /\ SameSession(request[q])
     THEN /\ thread' = thread \cup Rows(request[q].answer.comm_history)
          /\ Advance(request[q])
     ELSE UNCHANGED <<thread, link, crossed>>
  /\ UNCHANGED <<stored, upstream, links, kills, start>>

----------------------------------------------------------------------------
(* Around the requests.                                                    *)

\* ON DELETE CASCADE of both tables.
CascadeFlight == link' = NULL /\ thread' = {}

DeleteFlight ==
  /\ stored
  /\ stored' = FALSE
  /\ CascadeFlight
  /\ UNCHANGED <<request, upstream, links, kills, start, crossed>>

Killed ==
  /\ kills < MaxKill
  /\ kills' = kills + 1
  /\ request' = [q \in Requests |-> NULL]
  /\ UNCHANGED <<stored, link, thread, upstream, links, start, crossed>>

\* Mutant: the cursor is written before the entries.
CursorBeforeEntries(r) == Advance(r)

\* What the loop has written of the link before its last entry: nothing.
CursorInLoop(r) == UNCHANGED link /\ crossed' = Crossing(r)

\* The process dies in the loop, which files the entries one at a time in the
\* order of their ids.
KilledInImport(q) ==
  /\ kills < MaxKill
  /\ ImportReady(q) /\ stored /\ SameSession(request[q])
  /\ \E last \in request[q].answer.comm_history :
       thread' = thread \cup Rows({c \in request[q].answer.comm_history : c < last})
  /\ CursorInLoop(request[q])
  /\ kills' = kills + 1
  /\ request' = [r \in Requests |-> NULL]
  /\ UNCHANGED <<stored, upstream, links, start>>

Next ==
  \/ NewComm \/ NewSession
  \/ \E q \in Requests :
       \/ Answered(q) \/ Failed(q)
       \/ LinkRequested(q) \/ LinkAnswered(q)
       \/ ImportRequested(q) \/ ImportAnswered(q) \/ KilledInImport(q)
  \/ Unlink \/ DeleteFlight \/ Killed

Spec == Init /\ [][Next]_vars

----------------------------------------------------------------------------
(* Properties.                                                             *)

\* The rows keep the shape of their tables, and nothing outlives the flight
\* (ON DELETE CASCADE and the foreign keys a late answer runs into).
TypeOK ==
  /\ stored \in BOOLEAN
  /\ link \in LinkRow \cup {NULL}
  /\ thread \subseteq Comms
  /\ request \in [Requests -> Request \cup {NULL}]
  /\ session \in Sessions /\ sessionOf \in Seq(1..session) /\ Len(sessionOf) <= MaxComm
  /\ links \in 0..MaxLink /\ kills \in 0..MaxKill
  /\ start \in 0..MaxComm /\ crossed \in BOOLEAN
  /\ ~stored => link = NULL /\ thread = {}

\* imported_count never counts a row twice, however the imports overlap, die
\* and are repeated: it is at most the number of rows the thread holds.
CountedOnce == link # NULL => link.imported_count <= Cardinality(thread)

Missing == {c \in DOMAIN sessionOf :
              sessionOf[c] = link.upstream_flight_id /\ c > start /\ c <= Past(link.since_id)}
           \ (thread \cup Wordless)

\* The import never steps over an entry: while the linked session is the
\* current one, every entry of it from the link's start up to since_id is in
\* the thread, whatever imports overlap or die, unless an import that began
\* under an earlier link has written the cursor of this one.
CursorCovers ==
  link # NULL /\ link.upstream_flight_id = session /\ ~crossed => Missing = {}

\* ?from=now imports nothing that was there when the link was made, as long
\* as no import of an earlier link ends under this one.
NothingBeforeNow ==
  [][link # NULL /\ link' # NULL /\ ~crossed' => \A c \in thread' \ thread : c > start]_vars

(* For TLC: no action tells one request from another. *)
Symmetry == Permutations(Requests)
=============================================================================
