----------------------------- MODULE LiveEvents -----------------------------
(* The live connection from a stored row to a screen: the hub that coalesces *)
(* publishes until the next turn of the event loop, the streams of           *)
(* GET /api/events with their limit, and one browser tab: its EventSource    *)
(* and the timers and probes that bring it back, the registered refetch with *)
(* its debounce, and the navigation tree with its ticket.  The other         *)
(* consumers of the hub appear as streams that take slots.                   *)
EXTENDS Naturals, Sequences, FiniteSets

CONSTANTS Streams,          \* identities of responses
          Halves,           \* the requests of one tree fetch: "trips" and "loose"
          MaxStreams,       \* EVENTS_MAX_STREAMS
          MaxQueue,         \* EVENTS_MAX_BUFFERED_BYTES, in messages
          MaxVersion,       \* bound: changes of the stored state
          MaxDisturbances   \* bound: drops, refusals, failures, hidings, logouts

None == 0
Unread == 0                 \* a request the server has not answered yet
Failed == MaxVersion + 1    \* a request that ended in an error

ASSUME LimitsAssumption ==
  /\ MaxStreams \in Nat \ {0} /\ MaxQueue \in Nat /\ MaxVersion \in Nat \ {0}
  /\ MaxDisturbances \in Nat
  /\ Halves \subseteq {"trips", "loose"}
  /\ Streams \subseteq Nat \ {None} /\ IsFiniteSet(Streams)
  /\ Cardinality(Streams) = MaxStreams + 1   \* one more than can hold a slot: the one just lost

VARIABLES
  db,                \* version of what is stored; every change publishes
  pending,           \* EventHub.pending: the topics waiting, in insertion order
  flushScheduled,
  subscriptions,     \* EventHub.subscriptions: the streams that hold a slot
  response,          \* [Streams -> "free", "up" (it carries), "down" (destroyed or aborted)]
  others,            \* the streams other consumers opened
  session,           \* whether the tab's cookie still answers
  mounted,           \* the protected page, with the provider, is mounted
  hidden, hiddenTimer, closedForHidden,
  es,                \* "none", "connecting", "open"
  src,               \* the response the EventSource reads, or None
  queue,             \* what was written to it and is not read yet
  retryTimer, probeTimer,   \* closedRetryTimer, probeRetryTimer
  probes,            \* probes in flight: of the "current" epoch, of a "stale" one
  fireTimer,         \* the debounce of the registered refetch
  mutationTimer,     \* the debounce of the tab's own writes
  load,              \* the newest tree fetch: [trips, loose], or <<>>
  shown,             \* [flightState, trips, loose -> the version shown]
  missed,            \* the halves whose last fetch failed
  disturbances

hub == <<pending, flushScheduled, subscriptions, response, others>>
source == <<es, src, queue>>
comeback == <<retryTimer, probeTimer, probes>>
tabVisibility == <<hidden, hiddenTimer, closedForHidden>>
reader == <<fireTimer, mutationTimer, load, shown, missed>>
page == <<session, mounted>>
vars == <<db, hub, page, tabVisibility, source, comeback, reader, disturbances>>

Topics == {"flight-state", "flights-changed"}
Parts == Halves \cup {"flightState"}
Versions == 1 .. MaxVersion

TypeOK ==
  /\ db \in Versions
  /\ pending \in {<<>>, <<"flights-changed", "flight-state">>}
  /\ flushScheduled = (pending # <<>>)
  /\ subscriptions \subseteq Streams /\ others \subseteq Streams
  /\ response \in [Streams -> {"free", "up", "down"}]
  /\ session \in BOOLEAN /\ mounted \in BOOLEAN
  /\ hidden \in BOOLEAN /\ hiddenTimer \in BOOLEAN /\ closedForHidden \in BOOLEAN
  /\ es \in {"none", "connecting", "open"} /\ src \in Streams \cup {None}
  /\ queue \in Seq([topic : Topics \cup {"open"}, version : 0 .. MaxVersion])
  /\ retryTimer \in BOOLEAN /\ probeTimer \in BOOLEAN /\ probes \subseteq {"current", "stale"}
  /\ fireTimer \in BOOLEAN /\ mutationTimer \in BOOLEAN
  /\ load \in {<<>>} \cup [Halves -> 0 .. Failed]
  /\ shown \in [Parts -> 0 .. MaxVersion]
  /\ missed \subseteq Halves
  /\ disturbances \in 0 .. MaxDisturbances

-----------------------------------------------------------------------------
(* The hub.                                                                  *)

\* publishDeferred of one topic: a repeat keeps the place of the first.
PendingAfter(p, topic) == IF \E i \in DOMAIN p : p[i] = topic THEN p ELSE Append(p, topic)

\* The body is built when the flush reaches it, from the state of that moment.
Built(topic) == [topic |-> topic, version |-> IF topic = "flight-state" THEN db ELSE 0]

\* notifyFlightsChanged: flights-changed, then flight-state.
NotifyFlightsChanged ==
  /\ pending' = PendingAfter(PendingAfter(pending, "flights-changed"), "flight-state")
  /\ flushScheduled' = TRUE

\* A write of the server's, of the agent's ingest or of another tab.
Change ==
  /\ db < MaxVersion
  /\ db' = db + 1
  /\ NotifyFlightsChanged
  /\ UNCHANGED <<subscriptions, response, others, page, tabVisibility, source, comeback, reader,
                 disturbances>>

Listening == src \in subscriptions /\ response[src] = "up"
Overflows(messages) == Len(queue) + Len(messages) > MaxQueue

\* EventHub.flush: one message per pending topic to every subscriber; a stream
\* that does not drain is destroyed, and what it had not delivered with it.
Flush ==
  /\ flushScheduled
  /\ pending' = <<>> /\ flushScheduled' = FALSE
  /\ LET messages == [i \in DOMAIN pending |-> Built(pending[i])]
     IN \/ Listening /\ Overflows(messages)
           /\ response' = [response EXCEPT ![src] = "down"] /\ queue' = <<>>
        \/ Listening /\ ~Overflows(messages)
           /\ queue' = queue \o messages /\ UNCHANGED response
        \/ ~Listening /\ UNCHANGED <<queue, response>>
  /\ UNCHANGED <<db, subscriptions, others, page, tabVisibility, es, src, comeback, reader,
                 disturbances>>

-----------------------------------------------------------------------------
(* The streams.                                                              *)

HasSlot == Cardinality(subscriptions) < MaxStreams
\* A response is a new object each time; which identity it gets means nothing.
Fresh == CHOOSE s \in Streams : response[s] = "free" /\ s # src

\* The snapshot is read after subscribing, in the same turn.
Opening == <<[topic |-> "open", version |-> 0], [topic |-> "flight-state", version |-> db]>>

\* Mutant: a stream is struck off only when the tab reads it.
SubscriptionsOfReader(s) == IF s = src THEN subscriptions \ {s} ELSE subscriptions

\* res 'close': the only cleanup path.
SubscriptionsAfterClose(s) == subscriptions \ {s}

ResponseClosed(s) ==
  /\ response[s] = "down"
  /\ response' = [response EXCEPT ![s] = "free"]
  /\ subscriptions' = SubscriptionsAfterClose(s)
  /\ others' = others \ {s}
  /\ UNCHANGED <<db, pending, flushScheduled, page, tabVisibility, source, comeback, reader,
                 disturbances>>

Disturb == disturbances < MaxDisturbances /\ disturbances' = disturbances + 1

\* Another consumer of the hub; one slot is left for the tab.
OtherOpens ==
  /\ Disturb
  /\ HasSlot /\ Cardinality(others) < MaxStreams - 1
  /\ response' = [response EXCEPT ![Fresh] = "up"]
  /\ subscriptions' = subscriptions \cup {Fresh}
  /\ others' = others \cup {Fresh}
  /\ UNCHANGED <<db, pending, flushScheduled, page, tabVisibility, source, comeback, reader>>

\* A connection breaks, or another consumer leaves.  Either end learns of it later.
Drop(s) ==
  /\ Disturb
  /\ response[s] = "up"
  /\ response' = [response EXCEPT ![s] = "down"]
  /\ queue' = IF s = src THEN <<>> ELSE queue
  /\ UNCHANGED <<db, pending, flushScheduled, subscriptions, others, page, tabVisibility, es, src,
                 comeback, reader>>

-----------------------------------------------------------------------------
(* The tab's source.                                                         *)

\* disposeSource: the response, if there is one, is aborted.
ResponsesWithout(s) == [r \in Streams |-> IF r = s /\ response[r] = "up" THEN "down" ELSE response[r]]
DisposeSource(state) ==
  /\ es' = state /\ src' = None /\ queue' = <<>>
  /\ response' = ResponsesWithout(src)

\* Mutant: the epoch is not bumped.
SupersededNever(ps) == ps

\* invalidatePendingReconnect: what is in flight belongs to a past epoch.
Superseded(ps) == IF ps = {} THEN {} ELSE {"stale"}
InvalidatePendingReconnect(ps) ==
  /\ retryTimer' = FALSE /\ probeTimer' = FALSE
  /\ probes' = Superseded(ps)

\* connect(): whatever was under way to reconnect is over.
Connect(ps) == InvalidatePendingReconnect(ps) /\ DisposeSource("connecting")

\* onError with a source that will not come back by itself.
OnClosed ==
  /\ DisposeSource("none")
  /\ retryTimer' = TRUE
  /\ UNCHANGED <<probeTimer, probes>>

Requesting == es = "connecting" /\ src = None

\* GET /api/events, past requireAuth and the limit.
Accept ==
  /\ Requesting /\ session /\ HasSlot
  /\ subscriptions' = subscriptions \cup {Fresh}
  /\ response' = [response EXCEPT ![Fresh] = "up"]
  /\ src' = Fresh /\ queue' = Opening
  /\ UNCHANGED <<db, pending, flushScheduled, others, page, tabVisibility, es, comeback, reader,
                 disturbances>>

\* 401 or 503 closes the source for good.
Refuse ==
  /\ Requesting /\ (~session \/ ~HasSlot)
  /\ OnClosed
  /\ UNCHANGED <<db, pending, flushScheduled, subscriptions, others, page, tabVisibility, reader,
                 disturbances>>

\* So does any other answer than a stream, as of a proxy before a server that is down.
RefuseByProxy ==
  /\ Requesting /\ Disturb
  /\ OnClosed
  /\ UNCHANGED <<db, pending, flushScheduled, subscriptions, others, page, tabVisibility, reader>>

\* A broken connection: the browser itself asks again.
SourceLost ==
  /\ src # None /\ response[src] # "up"
  /\ es' = "connecting" /\ src' = None /\ queue' = <<>>
  /\ UNCHANGED <<db, hub, page, tabVisibility, comeback, reader, disturbances>>

\* Mutant: neither the open of a stream nor its snapshot refetches.
FireOnHintsOnly(topic) == topic = "flights-changed"

\* onOpen and the message listeners; every one of them arms the refetch.
FireOn(topic) == topic \in {"open", "flights-changed", "flight-state"}
Read ==
  /\ src # None /\ queue # <<>>
  /\ LET m == Head(queue)
     IN /\ es' = IF m.topic = "open" THEN "open" ELSE es
        /\ shown' = IF m.topic = "flight-state" THEN [shown EXCEPT !["flightState"] = m.version] ELSE shown
        /\ fireTimer' = (fireTimer \/ FireOn(m.topic))
  /\ queue' = Tail(queue)
  /\ UNCHANGED <<db, hub, page, tabVisibility, src, comeback, mutationTimer, load, missed, disturbances>>

\* The wait after a refusal, or after a failed probe, is over: probe().
RetryTimer ==
  /\ retryTimer \/ probeTimer
  /\ retryTimer' = FALSE /\ probeTimer' = FALSE
  /\ probes' = probes \cup {"current"}
  /\ UNCHANGED <<db, hub, page, tabVisibility, source, reader, disturbances>>

\* The cleanup of the provider, and the fetches of a page that is gone.
Unmount ==
  /\ mounted' = FALSE
  /\ DisposeSource("none")
  /\ retryTimer' = FALSE /\ probeTimer' = FALSE /\ probes' = {}
  /\ hiddenTimer' = FALSE /\ closedForHidden' = FALSE
  /\ fireTimer' = FALSE /\ mutationTimer' = FALSE /\ load' = <<>>
  /\ shown' = [p \in Parts |-> 0] /\ missed' = {}

\* The probe finds the server: a stream is opened, unless a newer attempt or the
\* hidden tab took over while it was away.
ProbeAnswered(p) ==
  /\ p \in probes /\ session
  /\ \/ p = "current" /\ Connect(probes \ {p})
     \/ p = "stale" /\ probes' = probes \ {p} /\ UNCHANGED <<source, response, retryTimer, probeTimer>>
  /\ UNCHANGED <<db, pending, flushScheduled, subscriptions, others, page, tabVisibility, reader,
                 disturbances>>

\* apiFetch redirects to the login on any 401, a stale one too.
ProbeUnauthorized ==
  /\ probes # {} /\ ~session
  /\ Unmount
  /\ UNCHANGED <<db, pending, flushScheduled, subscriptions, others, session, hidden, disturbances>>

ProbeFails(p) ==
  /\ p \in probes /\ Disturb
  /\ probes' = probes \ {p}
  /\ probeTimer' = (probeTimer \/ p = "current")
  /\ UNCHANGED <<db, hub, page, tabVisibility, source, retryTimer, reader>>

-----------------------------------------------------------------------------
(* The tree and its fetches.                                                 *)

\* load(): the ticket of an earlier fetch no longer counts, whatever it brings.
Fetching == [h \in Halves |-> Unread]

FireTimer ==
  /\ fireTimer
  /\ fireTimer' = FALSE /\ load' = Fetching
  /\ UNCHANGED <<db, hub, page, tabVisibility, source, comeback, mutationTimer, shown, missed,
                 disturbances>>

MutationTimer ==
  /\ mutationTimer
  /\ mutationTimer' = FALSE /\ load' = Fetching
  /\ UNCHANGED <<db, hub, page, tabVisibility, source, comeback, fireTimer, shown, missed,
                 disturbances>>

\* A change of route fetches at once.
Navigate ==
  /\ mounted /\ Disturb
  /\ load' = Fetching
  /\ UNCHANGED <<db, hub, page, tabVisibility, source, comeback, fireTimer, mutationTimer, shown,
                 missed>>

\* The server answers one of the two requests.
FetchHalf(h) ==
  /\ load # <<>> /\ load[h] = Unread /\ session
  /\ load' = [load EXCEPT ![h] = db]
  /\ UNCHANGED <<db, hub, page, tabVisibility, source, comeback, fireTimer, mutationTimer, shown,
                 missed, disturbances>>

FetchHalfFails(h) ==
  /\ load # <<>> /\ load[h] = Unread /\ Disturb
  /\ load' = [load EXCEPT ![h] = Failed]
  /\ UNCHANGED <<db, hub, page, tabVisibility, source, comeback, fireTimer, mutationTimer, shown,
                 missed>>

FetchUnauthorized ==
  /\ load # <<>> /\ (\E h \in Halves : load[h] = Unread) /\ ~session
  /\ Unmount
  /\ UNCHANGED <<db, pending, flushScheduled, subscriptions, others, session, hidden, disturbances>>

\* Mutant: a half that failed is blanked.
MergedBlank(half) == IF load[half] = Failed THEN 0 ELSE load[half]

\* setTree: a half that failed keeps what was shown.
Merged(half) == IF load[half] = Failed THEN shown[half] ELSE load[half]
TreeArrives ==
  /\ load # <<>> /\ \A h \in Halves : load[h] # Unread
  /\ shown' = [p \in Parts |-> IF p \in Halves THEN Merged(p) ELSE shown[p]]
  /\ missed' = {h \in Halves : load[h] = Failed}
  /\ load' = <<>>
  /\ UNCHANGED <<db, hub, page, tabVisibility, source, comeback, fireTimer, mutationTimer,
                 disturbances>>

\* A write of this tab's: answered, it also calls notifyMutation.
Write ==
  /\ mounted /\ session /\ db < MaxVersion
  /\ db' = db + 1
  /\ NotifyFlightsChanged
  /\ mutationTimer' = TRUE
  /\ UNCHANGED <<subscriptions, response, others, page, tabVisibility, source, comeback, fireTimer,
                 load, shown, missed, disturbances>>

-----------------------------------------------------------------------------
(* Visibility, login, restarts.                                              *)

BecomeHidden ==
  /\ ~hidden /\ Disturb
  /\ hidden' = TRUE
  /\ hiddenTimer' = mounted
  /\ UNCHANGED <<db, hub, page, closedForHidden, source, comeback, reader>>

HiddenTimer ==
  /\ hiddenTimer
  /\ hiddenTimer' = FALSE /\ closedForHidden' = TRUE
  /\ DisposeSource("none")
  /\ InvalidatePendingReconnect(probes)
  /\ UNCHANGED <<db, pending, flushScheduled, subscriptions, others, page, hidden, reader,
                 disturbances>>

\* Both the provider and the tree look again.
BecomeVisible ==
  /\ hidden
  /\ hidden' = FALSE /\ hiddenTimer' = FALSE /\ closedForHidden' = FALSE
  /\ load' = IF mounted THEN Fetching ELSE load
  /\ \/ closedForHidden /\ Connect(probes)
     \/ ~closedForHidden /\ UNCHANGED <<source, response, comeback>>
  /\ UNCHANGED <<db, pending, flushScheduled, subscriptions, others, page, fireTimer, mutationTimer,
                 shown, missed, disturbances>>

Expire ==
  /\ session /\ Disturb
  /\ session' = FALSE
  /\ UNCHANGED <<db, hub, mounted, tabVisibility, source, comeback, reader>>

Logout ==
  /\ mounted /\ Disturb
  /\ session' = FALSE
  /\ Unmount
  /\ UNCHANGED <<db, pending, flushScheduled, subscriptions, others, hidden>>

\* Login mounts the page anew; a tab already hidden arms its close timer.
Login ==
  /\ ~mounted
  /\ session' = TRUE /\ mounted' = TRUE
  /\ es' = "connecting" /\ load' = Fetching /\ hiddenTimer' = hidden
  /\ UNCHANGED <<db, hub, hidden, closedForHidden, src, queue, comeback, fireTimer, mutationTimer,
                 shown, missed, disturbances>>

\* The server process dies and starts again: the hub and every stream are gone, and
\* every request in flight fails.
Restart ==
  /\ Disturb
  /\ pending' = <<>> /\ flushScheduled' = FALSE
  /\ subscriptions' = {} /\ others' = {} /\ response' = [s \in Streams |-> "free"]
  /\ queue' = <<>>
  /\ probes' = {} /\ probeTimer' = (probeTimer \/ "current" \in probes)
  /\ load' = IF load = <<>> THEN load
             ELSE [h \in Halves |-> IF load[h] = Unread THEN Failed ELSE load[h]]
  /\ UNCHANGED <<db, page, tabVisibility, es, src, retryTimer, fireTimer, mutationTimer, shown, missed>>

-----------------------------------------------------------------------------
Init ==
  /\ db = 1 /\ pending = <<>> /\ flushScheduled = FALSE
  /\ subscriptions = {} /\ others = {} /\ response = [s \in Streams |-> "free"]
  /\ session = TRUE /\ mounted = TRUE
  /\ hidden = FALSE /\ hiddenTimer = FALSE /\ closedForHidden = FALSE
  /\ es = "connecting" /\ src = None /\ queue = <<>>
  /\ retryTimer = FALSE /\ probeTimer = FALSE /\ probes = {}
  /\ fireTimer = FALSE /\ mutationTimer = FALSE /\ load = Fetching
  /\ shown = [p \in Parts |-> 0] /\ missed = {}
  /\ disturbances = 0

\* What the event loops of the server and of the tab, and the network, do by themselves.
Server == Flush \/ Accept \/ \E s \in Streams : ResponseClosed(s)
Tab == \/ Refuse \/ SourceLost \/ Read \/ RetryTimer \/ ProbeUnauthorized \/ HiddenTimer
       \/ \E p \in {"current", "stale"} : ProbeAnswered(p)
       \/ FireTimer \/ MutationTimer \/ FetchUnauthorized \/ TreeArrives
       \/ \E h \in Halves : FetchHalf(h)
Environment ==
  \/ Change \/ Write \/ Navigate \/ BecomeHidden \/ BecomeVisible \/ Expire \/ Logout \/ Login
  \/ Restart \/ RefuseByProxy \/ OtherOpens
  \/ \E s \in Streams : Drop(s)
  \/ \E p \in {"current", "stale"} : ProbeFails(p)
  \/ \E h \in Halves : FetchHalfFails(h)

Next == Server \/ Tab \/ Environment

Fairness ==
  /\ WF_vars(Flush) /\ WF_vars(Refuse) /\ WF_vars(SourceLost) /\ WF_vars(Read)
  /\ \A s \in Streams : WF_vars(ResponseClosed(s))
  /\ WF_vars(Accept)
  /\ WF_vars(RetryTimer) /\ WF_vars(ProbeUnauthorized) /\ WF_vars(ProbeAnswered("current"))
  /\ WF_vars(FireTimer) /\ WF_vars(MutationTimer) /\ WF_vars(TreeArrives)
  /\ WF_vars(FetchUnauthorized) /\ \A h \in Halves : WF_vars(FetchHalf(h))

Spec == Init /\ [][Next]_vars
FairSpec == Spec /\ Fairness

-----------------------------------------------------------------------------
(* Properties.                                                               *)

\* The ways by which the tab has, or will have, a stream.
WaysBack == <<es # "none", retryTimer, probeTimer, "current" \in probes>>

\* LiveEventsProvider: a mounted page always has exactly one thing that holds or will
\* bring back its stream - the source, one of the two timers or one probe of the
\* current epoch - so that it is neither dead for good nor about to open a second
\* stream; a page closed for being hidden, or left, has none.
OneWayBack ==
  IF mounted /\ ~closedForHidden
  THEN \E i \in 1 .. 4 : WaysBack[i] /\ \A j \in 1 .. 4 : WaysBack[j] => j = i
  ELSE \A i \in 1 .. 4 : ~WaysBack[i]

\* routes/events.ts: the slots taken are the responses not yet closed, each given back
\* once, never more than the limit; and what the tab reads is one of them and not
\* another consumer's.
SlotsMatchResponses ==
  /\ subscriptions = {s \in Streams : response[s] # "free"}
  /\ Cardinality(subscriptions) <= MaxStreams
  /\ src \notin others
  /\ es = "none" => src = None

\* What is shown is a version the server had, and never older than what was shown.
View == INSTANCE LiveView 
ImplementsLiveView == View!Spec

\* Changes and disturbances over, a page that is not closed for being hidden shows the
\* stored state, whatever was dropped, refused, coalesced or lost with the server;
\* a half of the tree whose last fetch failed is the exception: nothing fetches it
\* again before the next event.
EventuallyCurrent ==
  <>[](mounted /\ ~closedForHidden =>
         /\ shown["flightState"] = db
         /\ \A h \in Halves : shown[h] = db \/ h \in missed)
=============================================================================
