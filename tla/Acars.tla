------------------------------- MODULE Acars -------------------------------
(* The ACARS thread of a flight and of the leg it is linked to: the rows of  *)
(* acars_messages, the requests of routes/acars.ts that file them, the cache *)
(* of weatherClient.ts behind the weather replies, and one browser page that *)
(* shows a thread: its initial load, its refetch on a live hint or a         *)
(* reconnect, and what it does with the answers to its own sends.            *)
(* The browser's connection appears as LiveEvents shows it: hints are lost   *)
(* while it is down and an open of it refetches.                             *)
EXTENDS Naturals, FiniteSets

CONSTANTS PageScope,        \* whose thread the page shows: "flight" or "leg"
          PairKinds,        \* what the leg's dispatch release allows: "loadsheet", "clearance"
          TTL,              \* WEATHER_CACHE_TTL_MS
          MaxClock,         \* bound: time
          MaxRows,          \* bound: rows ever filed
          MaxDisturbances   \* bound: drops, deaths, failures, deletions, relinks

Scopes == {"flight", "leg"}
Callers == {"page", "mcdu"}
ASSUME AcarsAssumption ==
  /\ PageScope \in Scopes /\ PairKinds \subseteq {"loadsheet", "clearance"}
  /\ TTL \in Nat \ {0} /\ MaxClock \in Nat /\ MaxRows \in Nat /\ MaxDisturbances \in Nat

VARIABLES
  clock,
  exists,        \* the scopes whose flight or leg is stored
  linked,        \* the flight holds the leg
  rows,          \* acars_messages, the dispatch release of the leg apart
  nextId,        \* AUTOINCREMENT
  cache,         \* of the weather of one ICAO: {} or one entry
  waiting,       \* the weather requests whose handler is past its await
  connected,     \* the page's event stream carries
  hints,         \* published, and no refetch of the page was answered since
  phase,         \* "loading", "ready"
  load,          \* the thread as the initial load read it: {} or one answer
  pageLeg,       \* the page knows the leg
  shown,         \* how often each row is on the page
  send,          \* the page's own send, if one is out: {} or one
  answer,        \* what the refetch brings: {} or one set of rows
  missed,        \* the last refetch failed
  loadedFrom,    \* the first row filed after the page had loaded
  disturbances

server == <<exists, linked, cache, waiting>>
thread == <<rows, nextId, hints>>
page == <<phase, load, pageLeg, shown, send, answer, missed, loadedFrom>>
vars == <<clock, server, thread, connected, page, disturbances>>

None == 0
Ids == 1 .. MaxRows
RequestOf == [loadsheet |-> "loadsheetRequest", clearance |-> "clearanceRequest", wx |-> "wxRequest"]
ReplyKinds == PairKinds \cup {"wx"}
Kinds == ReplyKinds \cup {RequestOf[k] : k \in ReplyKinds}
         \cup {"canned"}
\* at: when a weather request was sent, and when the weather of a reply was observed.
Rows == [id : Ids, scope : Scopes, kind : Kinds, correlation : Ids \cup {None}, at : 0 .. MaxClock]
Requests == [by : Callers, request : Ids, scope : Scopes, started : 0 .. MaxClock]
Entries == [until : 0 .. MaxClock + TTL, seen : 0 .. MaxClock]
Sends == [how : {"append", "merge"}, answered : BOOLEAN, brings : SUBSET Ids]
Answers == [ids : SUBSET Ids, leg : BOOLEAN]
AtMostOne(S) == \A x, y \in S : x = y

TypeOK ==
  /\ clock \in 0 .. MaxClock
  /\ exists \subseteq Scopes /\ linked \in BOOLEAN
  /\ rows \subseteq Rows /\ nextId \in 1 .. MaxRows + 1
  /\ cache \subseteq Entries /\ AtMostOne(cache)
  /\ waiting \subseteq Requests
  /\ connected \in BOOLEAN /\ hints \subseteq Scopes \cup {"reconnected"}
  /\ phase \in {"loading", "ready"} /\ load \subseteq Answers /\ AtMostOne(load)
  /\ pageLeg \in BOOLEAN
  /\ shown \in [Ids -> 0 .. 2]
  /\ send \subseteq Sends /\ AtMostOne(send)
  /\ answer \subseteq SUBSET Ids /\ AtMostOne(answer)
  /\ missed \in BOOLEAN /\ loadedFrom \in 1 .. MaxRows + 1
  /\ disturbances \in 0 .. MaxDisturbances

-----------------------------------------------------------------------------
(* Rows.                                                                     *)

Row(id, scope, kind, correlation, at) ==
  [id |-> id, scope |-> scope, kind |-> kind, correlation |-> correlation, at |-> at]

\* insertAcarsMessage, after the rows of the same call already in rs.
IdAfter(rs) == nextId + Cardinality(rs \ rows)
AfterInsert(rs, scope, kind, correlation, at) ==
  rs \cup {Row(IdAfter(rs), scope, kind, correlation, at)}

OfLeg(rs, kind) == {r \in rs : r.scope = "leg" /\ r.kind = kind}

\* insertAcarsMessageOnce: a key names the leg and what is filed for it.
AfterOnce(rs, kind, correlation) ==
  IF OfLeg(rs, kind) # {} THEN rs ELSE AfterInsert(rs, "leg", kind, correlation, 0)
TheId(rs, kind) == CHOOSE id \in {r.id : r \in OfLeg(rs, kind)} : TRUE

\* What the page's stream carries of new rows: one hint for each, by its scope.
Hinted(rs) == IF connected THEN hints \cup {r.scope : r \in rs \ rows} ELSE hints

\* The rows after an insert; a page without a stream hears nothing of it.
File(rs) ==
  /\ IdAfter(rs) <= MaxRows + 1
  /\ rows' = rs /\ nextId' = IdAfter(rs) /\ hints' = Hinted(rs)

NewIds(rs) == {r.id : r \in rs \ rows}

\* listAcarsMessagesForFlight and ...ForPlannedLeg.
Visible == {r \in rows : r.scope = PageScope \/ (PageScope = "flight" /\ linked /\ r.scope = "leg")}
VisibleIds == {r.id : r \in Visible}

-----------------------------------------------------------------------------
(* The page's sends: one at a time.                                          *)

MaySend(c) == c = "mcdu" \/ (phase = "ready" /\ send = {})
Sent(c, how, ids) ==
  send' = IF c = "page" THEN {[how |-> how, answered |-> TRUE, brings |-> ids]} ELSE send
MayReach(c, scope) == scope \in exists /\ (c = "mcdu" \/ scope = PageScope)
pageRest == <<phase, load, pageLeg, shown, answer, missed, loadedFrom>>

\* POST .../acars-messages: no key, so pressing twice files two rows.
Canned(c, scope) ==
  /\ MaySend(c) /\ MayReach(c, scope)
  /\ LET filed == AfterInsert(rows, scope, "canned", None, 0)
     IN File(filed) /\ Sent(c, "append", NewIds(filed))
  /\ UNCHANGED <<clock, server, connected, pageRest, disturbances>>

Fresh == {e \in cache : e.until > clock}

\* POST .../wx with weather in the cache: request and reply in one turn.
WxFromCache(c, scope) ==
  /\ MaySend(c) /\ MayReach(c, scope)
  /\ \E e \in Fresh :
       LET asking == AfterInsert(rows, scope, "wxRequest", None, clock)
           filed == AfterInsert(asking, scope, "wx", IdAfter(rows), e.seen)
       IN File(filed) /\ Sent(c, "append", NewIds(filed))
  /\ UNCHANGED <<clock, server, connected, pageRest, disturbances>>

\* Without: the request is filed and the handler waits for the upstream.
WxAsk(c, scope) ==
  /\ MaySend(c) /\ MayReach(c, scope)
  /\ Fresh = {} /\ \A w \in waiting : w.by # c
  /\ File(AfterInsert(rows, scope, "wxRequest", None, clock))
  /\ waiting' = waiting \cup {[by |-> c, request |-> nextId, scope |-> scope, started |-> clock]}
  /\ send' = IF c = "page" THEN {[how |-> "append", answered |-> FALSE, brings |-> {}]} ELSE send
  /\ UNCHANGED <<clock, exists, linked, cache, connected, pageRest, disturbances>>

\* Mutant: an entry lives from its answer on.
ExpiryFromAnswer(started) == clock + TTL

\* getCachedWeather: `now` is read before the fetch.
Expiry(started) == started + TTL

\* The page still waits for the answer to this request.
Awaited(w) == IF w.by = "page" THEN {s \in send : ~s.answered} ELSE {}

\* The upstream answers or fails, either is cached and filed; without the flight or
\* the leg the insert fails and the caller gets a 500.
WxAnswered(w, seen) ==
  /\ w \in waiting /\ seen \in w.started .. clock
  /\ cache' = {[until |-> Expiry(w.started), seen |-> seen]}
  /\ waiting' = waiting \ {w}
  /\ LET filed == AfterInsert(rows, w.scope, "wx", w.request, seen)
         brought == [how |-> "append", answered |-> TRUE, brings |-> {w.request} \cup NewIds(filed)]
     IN \/ w.scope \in exists /\ File(filed)
           /\ send' = IF Awaited(w) = {} THEN send ELSE {brought}
        \/ w.scope \notin exists /\ UNCHANGED thread
           /\ send' = send \ Awaited(w)
  /\ UNCHANGED <<clock, exists, linked, connected, pageRest, disturbances>>

\* What the two dedup keys leave of one call, up to the reply or up to the request.
WithRequest(kind) == AfterOnce(rows, RequestOf[kind], None)
WithPair(kind) == AfterOnce(WithRequest(kind), kind, TheId(WithRequest(kind), RequestOf[kind]))
PairOf(rs, kind) == {TheId(rs, RequestOf[kind]), TheId(rs, kind)}

\* The release is filed with the leg, in the turn that stores it, and decides which
\* kinds are possible: without it 409, and without its figures no load sheet.
MayPair(c, kind) ==
  /\ MaySend(c) /\ "leg" \in exists
  /\ c = "page" => PageScope = "leg" \/ pageLeg

\* POST .../loadsheet and .../clearance: filed once, whoever asks again gets the same pair.
Pair(c, kind) ==
  /\ MayPair(c, kind)
  /\ File(WithPair(kind)) /\ Sent(c, "merge", PairOf(WithPair(kind), kind))
  /\ UNCHANGED <<clock, server, connected, pageRest, disturbances>>

-----------------------------------------------------------------------------
(* What becomes of the rows.                                                 *)

Disturb == disturbances < MaxDisturbances /\ disturbances' = disturbances + 1

\* Rows go with their flight or leg; either takes the link with it.
Delete(scope) ==
  /\ Disturb /\ scope \in exists
  /\ exists' = exists \ {scope} /\ linked' = FALSE
  /\ rows' = {r \in rows : r.scope # scope}
  /\ UNCHANGED <<clock, nextId, hints, cache, waiting, connected, page>>

Relink ==
  /\ Disturb /\ exists = Scopes /\ linked' = ~linked
  /\ UNCHANGED <<clock, exists, cache, waiting, thread, connected, page>>

\* The server dies: what waits is lost, with the cache and the stream, and the
\* page's requests fail.
Dies ==
  /\ cache' = {} /\ waiting' = {} /\ connected' = FALSE
  /\ send' = {s \in send : s.answered}
  /\ UNCHANGED <<clock, exists, linked, pageRest>>

Restart == Disturb /\ Dies /\ UNCHANGED thread

\* Death between the two inserts of a pair.
RestartInPair(kind) ==
  /\ Disturb /\ MayPair("mcdu", kind)
  /\ IdAfter(WithRequest(kind)) <= MaxRows + 1
  /\ rows' = WithRequest(kind) /\ nextId' = IdAfter(WithRequest(kind)) /\ UNCHANGED hints
  /\ Dies

-----------------------------------------------------------------------------
(* The page.                                                                 *)

Appended(ids) == [id \in Ids |-> IF id \in ids /\ shown[id] < 2 THEN shown[id] + 1 ELSE shown[id]]

\* mergeById
Merged(ids) == [id \in Ids |-> IF id \in ids /\ shown[id] = 0 THEN 1 ELSE shown[id]]

\* The thread is read; the page still waits for the three other requests.
LoadRead ==
  /\ phase = "loading" /\ load = {} /\ PageScope \in exists
  /\ load' = {[ids |-> VisibleIds, leg |-> linked]}
  /\ UNCHANGED <<clock, server, thread, connected, phase, pageLeg, shown, send, answer, missed,
                 loadedFrom, disturbances>>

\* setMessages: whatever a refetch brought meanwhile is overwritten.
LoadArrives ==
  /\ phase = "loading"
  /\ \E l \in load : /\ shown' = [id \in Ids |-> IF id \in l.ids THEN 1 ELSE 0]
                     /\ pageLeg' = l.leg
  /\ load' = {} /\ phase' = "ready" /\ loadedFrom' = nextId
  /\ UNCHANGED <<clock, server, thread, connected, send, answer, missed, disturbances>>

\* isRelevantHint
Relevant(h) == h \in {PageScope, "reconnected"} \/ (h = "leg" /\ pageLeg)

\* The debounced handler passes over a batch without a relevant hint.
HintsIgnored ==
  /\ hints # {} /\ ~\E h \in hints : Relevant(h)
  /\ hints' = {}
  /\ UNCHANGED <<clock, server, rows, nextId, connected, page, disturbances>>

\* refresh(), from the batch that asks for it to the server's read.
MayRefresh == answer = {} /\ \E h \in hints : Relevant(h)
RefreshRead ==
  /\ MayRefresh /\ PageScope \in exists
  /\ hints' = {} /\ missed' = FALSE /\ answer' = {VisibleIds}
  /\ UNCHANGED <<clock, server, rows, nextId, connected, phase, load, pageLeg, shown, send, loadedFrom,
                 disturbances>>

\* 404, 500 or no connection: the error is shown, and nothing tries again.
RefreshFails ==
  /\ MayRefresh /\ Disturb
  /\ hints' = {} /\ missed' = TRUE
  /\ UNCHANGED <<clock, server, rows, nextId, connected, phase, load, pageLeg, shown, send, answer,
                 loadedFrom>>

RefreshArrives ==
  /\ \E ids \in answer : shown' = Merged(ids)
  /\ answer' = {}
  /\ UNCHANGED <<clock, server, thread, connected, phase, load, pageLeg, send, missed, loadedFrom,
                 disturbances>>

SendArrives ==
  /\ \E s \in send : s.answered /\ shown' = IF s.how = "append" THEN Appended(s.brings) ELSE Merged(s.brings)
  /\ send' = {}
  /\ UNCHANGED <<clock, server, thread, connected, phase, load, pageLeg, answer, missed, loadedFrom,
                 disturbances>>

\* The answer never comes; what was filed stays filed and the operator may press again.
SendLost ==
  /\ send # {} /\ Disturb
  /\ send' = {}
  /\ UNCHANGED <<clock, server, thread, connected, pageRest>>

\* The stream breaks; a hint that was under way may be lost with it.
Drop ==
  /\ connected /\ Disturb
  /\ connected' = FALSE
  /\ hints' \in {hints, {}}
  /\ UNCHANGED <<clock, server, rows, nextId, page>>

\* Mutant: an open of the stream refetches nothing.
HintsOnOpenLost == hints

\* triggerReconnectRefetch
HintsOnOpen == hints \cup {"reconnected"}
Reconnect ==
  /\ ~connected
  /\ connected' = TRUE /\ hints' = HintsOnOpen
  /\ UNCHANGED <<clock, server, rows, nextId, page, disturbances>>

Tick ==
  /\ clock < MaxClock
  /\ clock' = clock + 1
  /\ UNCHANGED <<server, thread, connected, page, disturbances>>

-----------------------------------------------------------------------------
Init ==
  /\ clock = 0 /\ exists = Scopes  /\ linked \in BOOLEAN
  /\ rows = {} /\ nextId = 1 /\ cache = {} /\ waiting = {}
  /\ connected = TRUE /\ hints = {}
  /\ phase = "loading" /\ load = {} /\ pageLeg = (PageScope = "leg")
  /\ shown = [id \in Ids |-> 0] /\ send = {}
  /\ answer = {} /\ missed = FALSE /\ loadedFrom = 1
  /\ disturbances = 0

WxAnswers == \E w \in waiting : \E seen \in w.started .. clock : WxAnswered(w, seen)

Next ==
  \/ \E c \in Callers :
       \/ \E scope \in Scopes : Canned(c, scope) \/ WxFromCache(c, scope) \/ WxAsk(c, scope)
       \/ \E kind \in PairKinds : Pair(c, kind)
  \/ WxAnswers
  \/ \E scope \in Scopes : Delete(scope)
  \/ Relink \/ Restart \/ \E kind \in PairKinds : RestartInPair(kind)
  \/ LoadRead \/ LoadArrives \/ HintsIgnored \/ RefreshRead \/ RefreshFails \/ RefreshArrives
  \/ SendArrives \/ SendLost \/ Drop \/ Reconnect \/ Tick

Spec == Init /\ [][Next]_vars

\* Requests have a time limit and the browser reconnects by itself (LiveEvents).
FairSpec ==
  /\ Spec
  /\ WF_vars(LoadRead) /\ WF_vars(LoadArrives) /\ WF_vars(HintsIgnored) /\ WF_vars(Reconnect)
  /\ WF_vars(RefreshRead) /\ WF_vars(RefreshArrives)

-----------------------------------------------------------------------------
(* Properties.                                                               *)

\* getCachedWeather: the weather a reply carries was observed less than the time to live
\* before it was asked for, whether it came from the cache, from a slow upstream, or
\* from a request that another one overtook.
ReplyIsFresh ==
  \A r, q \in rows : r.kind = "wx" /\ q.id = r.correlation => q.at < r.at + TTL

\* insertAcarsMessageOnce: the replies of a thread name their own requests - an earlier
\* row of the same scope that no other row replies to - and a leg has one load sheet and
\* one clearance, whoever asks how often, and whatever a death between the two inserts
\* left behind.
PairsAreWhole ==
  /\ \A r \in rows : r.kind \in ReplyKinds =>
       \E q \in rows : /\ q.id = r.correlation /\ q.id < r.id
                       /\ q.kind = RequestOf[r.kind] /\ q.scope = r.scope
  /\ \A r, s \in rows : r.correlation = s.correlation /\ r.correlation # None => r = s
  /\ \A kind \in PairKinds : \A k \in {kind, RequestOf[kind]} : AtMostOne(OfLeg(rows, k))

\* A reply answers its own request, and answers it with what was true then.
RepliesAnswer == ReplyIsFresh /\ PairsAreWhole

\* AcarsMessages.tsx: what is filed once the page has loaded ends up on it, whatever
\* hint, answer or connection is lost on the way; except after a refetch that failed,
\* and except for rows of a leg the flight was linked to later.
PageCatchesUp ==
  <>[](phase = "ready" /\ ~missed =>
         \A r \in Visible : r.id >= loadedFrom /\ (r.scope = PageScope \/ pageLeg) => shown[r.id] > 0)

\* AcarsMessages.tsx:204 of a weather request: "Every accepted WX call creates two
\* brand-new rows, so a plain append."
NoRowTwice == \A id \in Ids : shown[id] < 2
=============================================================================
