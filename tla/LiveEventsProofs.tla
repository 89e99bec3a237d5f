-------------------------- MODULE LiveEventsProofs --------------------------
(* Proofs about the live connection: its types, the slots of the hub, the    *)
(* one way back of a mounted page, and that what is shown refines LiveView.  *)
EXTENDS LiveEvents, FiniteSetTheorems, TLAPS

(* TypeOK by the groups of variables that change together.                   *)
Messages == [topic : Topics \cup {"open"}, version : 0 .. MaxVersion]

HubTypes ==
  /\ db \in Versions
  /\ pending \in {<<>>, <<"flights-changed", "flight-state">>}
  /\ flushScheduled = (pending # <<>>)
  /\ subscriptions \subseteq Streams /\ others \subseteq Streams
  /\ response \in [Streams -> {"free", "up", "down"}]
PageTypes ==
  /\ session \in BOOLEAN /\ mounted \in BOOLEAN
  /\ hidden \in BOOLEAN /\ hiddenTimer \in BOOLEAN /\ closedForHidden \in BOOLEAN
  /\ disturbances \in 0 .. MaxDisturbances
SourceTypes ==
  /\ es \in {"none", "connecting", "open"} /\ src \in Streams \cup {None}
  /\ queue \in Seq(Messages)
ComebackTypes ==
  /\ retryTimer \in BOOLEAN /\ probeTimer \in BOOLEAN
  /\ probes \subseteq {"current", "stale"}
ReaderTypes ==
  /\ fireTimer \in BOOLEAN /\ mutationTimer \in BOOLEAN
  /\ load \in {<<>>} \cup [Halves -> 0 .. Failed]
  /\ shown \in [Parts -> 0 .. MaxVersion]
  /\ missed \subseteq Halves

\* The type invariant, group by group.
LEMMA TypesByGroup ==
  TypeOK <=> HubTypes /\ PageTypes /\ SourceTypes /\ ComebackTypes /\ ReaderTypes
BY DEF TypeOK, HubTypes, PageTypes, SourceTypes, ComebackTypes, ReaderTypes, Messages

(* What SlotsMatchResponses needs to be inductive: the other consumers hold  *)
(* slots of their own.                                                       *)
Slots == SlotsMatchResponses /\ others \subseteq subscriptions

\* While a slot is left there is an identity for a new response: one more exists than
\* can hold a slot, and the tab reads at most one.
LEMMA FreshExists ==
  ASSUME HubTypes, Slots, HasSlot
  PROVE  Fresh \in Streams /\ response[Fresh] = "free" /\ Fresh # src /\ Fresh \notin subscriptions
<1> DEFINE Unused == Streams \ subscriptions
<1>1. IsFiniteSet(Streams) /\ Cardinality(Streams) = MaxStreams + 1 /\ MaxStreams \in Nat
  BY LimitsAssumption
<1>2. subscriptions \subseteq Streams
  BY DEF HubTypes
<1>3. IsFiniteSet(subscriptions) /\ Cardinality(subscriptions) \in Nat
  BY <1>1, <1>2, FS_Subset, FS_CardinalityType
<1>4. IsFiniteSet(Unused) /\ Cardinality(Unused) = MaxStreams + 1 - Cardinality(subscriptions)
  <2>1. IsFiniteSet(Unused) /\ Cardinality(Unused) = Cardinality(Streams) - Cardinality(Streams \cap subscriptions)
    BY <1>1, FS_Difference
  <2>2. Streams \cap subscriptions = subscriptions
    BY <1>2
  <2>3. Cardinality(Streams \cap subscriptions) = Cardinality(subscriptions)
    BY <2>2
  <2> QED BY <2>1, <2>3, <1>1, <1>3
<1>5. Cardinality(Unused) >= 2
  BY <1>1, <1>3, <1>4 DEF HasSlot
<1>6. PICK s \in Unused : s # src
  <2> SUFFICES ASSUME Unused \subseteq {src} PROVE FALSE
    OBVIOUS
  <2>1. IsFiniteSet({src}) /\ Cardinality({src}) = 1
    BY FS_Singleton
  <2>2. Cardinality(Unused) <= 1
    BY <2>1, FS_Subset
  <2>3. Cardinality(Unused) \in Nat
    BY <1>4, FS_CardinalityType
  <2> QED BY <2>2, <2>3, <1>5
<1>7. s \in Streams /\ response[s] = "free" /\ s # src
  BY <1>6 DEF Slots, SlotsMatchResponses
<1>8. Fresh \in Streams /\ response[Fresh] = "free" /\ Fresh # src
  BY <1>7 DEF Fresh
<1> QED BY <1>8 DEF Slots, SlotsMatchResponses

\* A set of streams has a size, which a close does not raise and a new stream raises by one.
LEMMA SlotsAreCounted ==
  ASSUME NEW S, S \subseteq Streams
  PROVE  /\ Cardinality(S) \in Nat /\ IsFiniteSet(S)
         /\ \A s \in Streams : Cardinality(S \ {s}) <= Cardinality(S)
         /\ \A s : s \notin S => Cardinality(S \cup {s}) = Cardinality(S) + 1
<1>1. IsFiniteSet(Streams)
  BY LimitsAssumption
<1>2. IsFiniteSet(S) /\ Cardinality(S) \in Nat
  BY <1>1, FS_Subset, FS_CardinalityType
<1>3. \A s : Cardinality(S \ {s}) <= Cardinality(S)
  BY <1>2, FS_RemoveElement
<1>4. \A s : s \notin S => Cardinality(S \cup {s}) = Cardinality(S) + 1
  BY <1>2, FS_AddElement
<1> QED BY <1>2, <1>3, <1>4

-----------------------------------------------------------------------------
(* Types.                                                                    *)

\* A second topic behind the first.
LEMMA AppendIs ==
  ASSUME NEW S, NEW q \in Seq(S), NEW e \in S
  PROVE  /\ Append(q, e) \in Seq(S) /\ Len(Append(q, e)) = Len(q) + 1 /\ Append(q, e)[Len(q) + 1] = e
         /\ \A i \in 1 .. Len(q) : Append(q, e)[i] = q[i]
OBVIOUS

\* A sequence of two is its two elements.
LEMMA PairIs ==
  ASSUME NEW S, NEW q \in Seq(S), Len(q) = 2
  PROVE  q = <<q[1], q[2]>>
OBVIOUS

\* Appending to a sequence of one gives a pair.
LEMMA AppendsToOne ==
  ASSUME NEW a, NEW b
  PROVE  Append(<<a>>, b) = <<a, b>>
<1> DEFINE one == <<a>>
           S == {a, b}
<1>1. one \in Seq(S) /\ b \in S
  OBVIOUS
<1>2. Len(one) = 1 /\ one[1] = a
  OBVIOUS
<1> HIDE DEF one, S
<1> DEFINE two == Append(one, b)
<1>3. two \in Seq(S) /\ Len(two) = Len(one) + 1 /\ two[Len(one) + 1] = b /\ \A i \in 1 .. Len(one) : two[i] = one[i]
  BY <1>1, AppendIs
<1> HIDE DEF two
<1>4. Len(two) = 2 /\ two[1] = a /\ two[2] = b
  BY <1>2, <1>3
<1>5. two = <<two[1], two[2]>>
  BY <1>3, <1>4, PairIs
<1> QED BY <1>4, <1>5 DEF two, one

\* What every write publishes: both topics wait, in their order.
LEMMA BothWait ==
  ASSUME HubTypes, NotifyFlightsChanged
  PROVE  pending' = <<"flights-changed", "flight-state">> /\ flushScheduled' = TRUE
<1> DEFINE both == <<"flights-changed", "flight-state">>
<1>1. PendingAfter(<<>>, "flights-changed") = <<"flights-changed">>
  BY DEF PendingAfter
<1>2. PendingAfter(<<"flights-changed">>, "flight-state") = both
  <2>1. ~\E i \in DOMAIN <<"flights-changed">> : <<"flights-changed">>[i] = "flight-state"
    <3>1. DOMAIN <<"flights-changed">> = 1 .. 1 /\ <<"flights-changed">>[1] = "flights-changed"
      OBVIOUS
    <3>2. \A i \in 1 .. 1 : i = 1
      OBVIOUS
    <3>3. "flights-changed" # "flight-state"
      OBVIOUS
    <3> QED BY <3>1, <3>2, <3>3, Zenon
  <2>2. Append(<<"flights-changed">>, "flight-state") = both
    BY AppendsToOne
  <2> QED BY <2>1, <2>2, Zenon DEF PendingAfter
<1>3. PendingAfter(both, "flights-changed") = both /\ PendingAfter(both, "flight-state") = both
  <2>1. 1 \in DOMAIN both /\ 2 \in DOMAIN both /\ both[1] = "flights-changed" /\ both[2] = "flight-state"
    OBVIOUS
  <2>2. (\E i \in DOMAIN both : both[i] = "flights-changed") /\ (\E i \in DOMAIN both : both[i] = "flight-state")
    BY <2>1, Zenon
  <2> HIDE DEF both
  <2> QED BY <2>2, Zenon DEF PendingAfter
<1> QED BY <1>1, <1>2, <1>3 DEF NotifyFlightsChanged, HubTypes

\* What a flush writes: the hint and then the state of this moment.
LEMMA FlushWrites ==
  ASSUME HubTypes, flushScheduled
  PROVE  [i \in DOMAIN pending |-> Built(pending[i])]
           = <<[topic |-> "flights-changed", version |-> 0], [topic |-> "flight-state", version |-> db]>>
<1>1. pending = <<"flights-changed", "flight-state">>
  BY DEF HubTypes
<1>2. DOMAIN pending = 1 .. 2 /\ pending[1] = "flights-changed" /\ pending[2] = "flight-state"
  BY <1>1
<1>3. Built(pending[1]) = [topic |-> "flights-changed", version |-> 0]
      /\ Built(pending[2]) = [topic |-> "flight-state", version |-> db]
  BY <1>2 DEF Built
<1> QED BY <1>2, <1>3

\* A flush leaves the queue as it is, cuts the tab's response, or writes to it.
LEMMA FlushOutcomes ==
  ASSUME HubTypes, SourceTypes, Flush
  PROVE  LET messages == <<[topic |-> "flights-changed", version |-> 0],
                           [topic |-> "flight-state", version |-> db]>>
         IN /\ messages \in Seq(Messages)
            /\ \/ src \in subscriptions /\ response' = [response EXCEPT ![src] = "down"] /\ queue' = <<>>
                  /\ response[src] = "up"
               \/ queue' = queue \o messages /\ response' = response
               \/ queue' = queue /\ response' = response
<1> DEFINE messages == <<[topic |-> "flights-changed", version |-> 0], [topic |-> "flight-state", version |-> db]>>
<1>1. [i \in DOMAIN pending |-> Built(pending[i])] = messages
  BY FlushWrites DEF Flush
<1>2. messages \in Seq(Messages)
  BY LimitsAssumption DEF Messages, Topics, HubTypes, Versions
<1> HIDE DEF messages
<1>3. \/ src \in subscriptions /\ response' = [response EXCEPT ![src] = "down"] /\ queue' = <<>> /\ response[src] = "up"
      \/ queue' = queue \o messages /\ response' = response
      \/ queue' = queue /\ response' = response
  BY <1>1 DEF Flush, Listening
<1> QED BY <1>2, <1>3 DEF messages

\* The cleanup of a page resets everything of it.
LEMMA UnmountTypes ==
  ASSUME SourceTypes, Unmount
  PROVE  ComebackTypes' /\ ReaderTypes' /\ SourceTypes'
<1>1. ComebackTypes'
  BY DEF ComebackTypes, Unmount
<1>2. ReaderTypes'
  <2>1. [p \in Parts |-> 0] \in [Parts -> 0 .. MaxVersion]
    BY LimitsAssumption
  <2> QED BY <2>1 DEF ReaderTypes, Unmount
<1>3. SourceTypes'
  BY DEF SourceTypes, Unmount, DisposeSource
<1> QED BY <1>1, <1>2, <1>3

\* Closing the page's EventSource takes its response and its subscriptions
\* with it, and leaves those of the other consumers.
LEMMA HubAfterDispose ==
  ASSUME HubTypes, Slots, NEW state, DisposeSource(state),
         UNCHANGED <<db, pending, flushScheduled, subscriptions, others>>
  PROVE  HubTypes' /\ Slots'
<1>1. HubTypes'
  BY DEF HubTypes, DisposeSource, ResponsesWithout
<1>2. Slots'
  BY LimitsAssumption DEF HubTypes, Slots, SlotsMatchResponses, DisposeSource, ResponsesWithout, None
<1> QED BY <1>1, <1>2

\* The types and the slots are preserved together: a new stream is one of the identities
\* only while the slots are counted.
Safe == HubTypes /\ PageTypes /\ SourceTypes /\ ComebackTypes /\ ReaderTypes /\ Slots

\* A server with no page holds no slot.
LEMMA SafeInitially == Init => Safe
<1> SUFFICES ASSUME Init PROVE Safe
  OBVIOUS
<1> USE LimitsAssumption
<1>1. HubTypes
  <2>1. db \in Versions /\ response \in [Streams -> {"free", "up", "down"}]
    BY DEF Init, Versions
  <2>2. flushScheduled = (pending # <<>>)
    BY DEF Init
  <2> QED BY <2>1, <2>2 DEF Init, HubTypes
<1>2. PageTypes
  <2>1. disturbances \in 0 .. MaxDisturbances
    BY DEF Init
  <2> QED BY <2>1 DEF Init, PageTypes
<1>3. SourceTypes
  BY DEF Init, SourceTypes
<1>4. ComebackTypes
  BY DEF Init, ComebackTypes
<1>5. ReaderTypes
  <2>1. Fetching \in [Halves -> 0 .. Failed]
    BY DEF Fetching, Unread, Failed
  <2>2. [p \in Parts |-> 0] \in [Parts -> 0 .. MaxVersion]
    OBVIOUS
  <2> QED BY <2>1, <2>2 DEF Init, ReaderTypes
<1>6. Slots
  BY FS_EmptySet DEF Init, Slots, SlotsMatchResponses, None
<1> QED BY <1>1, <1>2, <1>3, <1>4, <1>5, <1>6 DEF Safe

\* What the server does on its own: a flush, a stream accepted, one closed.
LEMMA ServerKeepsTypes == Safe /\ Server => Safe'
<1> SUFFICES ASSUME Safe, Server PROVE Safe'
  OBVIOUS
<1> USE LimitsAssumption DEF Safe
<1>1. CASE Flush
  <2>1. HubTypes'
    <3>1. response' \in [Streams -> {"free", "up", "down"}]
      BY <1>1, FlushOutcomes DEF HubTypes
    <3> QED BY <1>1, <3>1 DEF Flush, HubTypes
  <2>2. SourceTypes'
    <3>1. queue' \in Seq(Messages)
      <4> DEFINE messages == <<[topic |-> "flights-changed", version |-> 0], [topic |-> "flight-state", version |-> db]>>
      <4>1. messages \in Seq(Messages) /\ (queue' = queue \o messages \/ queue' = queue \/ queue' = <<>>)
        BY <1>1, FlushOutcomes
      <4>2. queue \in Seq(Messages)
        BY DEF SourceTypes
      <4> HIDE DEF messages
      <4>3. queue \o messages \in Seq(Messages) /\ <<>> \in Seq(Messages)
        BY <4>1, <4>2
      <4> QED BY <4>1, <4>2, <4>3
    <3> QED BY <1>1, <3>1 DEF Flush, SourceTypes
  <2>3. PageTypes' /\ ComebackTypes' /\ ReaderTypes'
    BY <1>1 DEF Flush, page, tabVisibility, comeback, reader, PageTypes, ComebackTypes, ReaderTypes
  <2>4. Slots'
    BY <1>1, FlushOutcomes DEF Flush, HubTypes, Slots, SlotsMatchResponses
  <2> QED BY <2>1, <2>2, <2>3, <2>4
<1>2. CASE Accept
  <2>1. Fresh \in Streams /\ response[Fresh] = "free" /\ Fresh # src /\ Fresh \notin subscriptions
    BY <1>2, FreshExists DEF Accept
  <2>2. HubTypes'
    BY <1>2, <2>1 DEF Accept, HubTypes
  <2>3. SourceTypes'
    <3>1. Opening \in Seq(Messages)
      BY DEF Opening, Messages, Topics, HubTypes, Versions
    <3> QED BY <1>2, <2>1, <3>1 DEF Accept, SourceTypes
  <2>4. PageTypes' /\ ComebackTypes' /\ ReaderTypes'
    BY <1>2 DEF Accept, page, tabVisibility, comeback, reader, PageTypes, ComebackTypes, ReaderTypes
  <2>5. Slots'
    <3>1. Cardinality(subscriptions') = Cardinality(subscriptions) + 1 /\ Cardinality(subscriptions) \in Nat
      BY <1>2, <2>1, SlotsAreCounted DEF Accept, HubTypes
    <3>2. Cardinality(subscriptions') <= MaxStreams
      BY <1>2, <3>1 DEF Accept, HasSlot
    <3>3. subscriptions' = {s \in Streams : response'[s] # "free"}
      BY <1>2, <2>1 DEF Accept, HubTypes, Slots, SlotsMatchResponses
    <3> QED BY <1>2, <2>1, <3>2, <3>3 DEF Accept, Requesting, Slots, SlotsMatchResponses
  <2> QED BY <2>2, <2>3, <2>4, <2>5
<1>3. ASSUME NEW s \in Streams, ResponseClosed(s) PROVE Safe'
  <2>1. HubTypes'
    BY <1>3 DEF ResponseClosed, SubscriptionsAfterClose, HubTypes
  <2>2. PageTypes' /\ SourceTypes' /\ ComebackTypes' /\ ReaderTypes'
    BY <1>3 DEF ResponseClosed, page, tabVisibility, source, comeback, reader, PageTypes, SourceTypes,
                ComebackTypes, ReaderTypes
  <2>3. Slots'
    <3>1. Cardinality(subscriptions') <= Cardinality(subscriptions)
          /\ Cardinality(subscriptions) \in Nat /\ Cardinality(subscriptions') \in Nat
      BY <1>3, <2>1, SlotsAreCounted DEF ResponseClosed, SubscriptionsAfterClose, HubTypes
    <3>2. Cardinality(subscriptions') <= MaxStreams
      BY <3>1 DEF Slots, SlotsMatchResponses
    <3> QED BY <1>3, <3>2 DEF ResponseClosed, SubscriptionsAfterClose, HubTypes, Slots, SlotsMatchResponses, source
  <2> QED BY <2>1, <2>2, <2>3
<1> QED BY <1>1, <1>2, <1>3 DEF Server

\* What the tab does: its stream, probes, timers and loads.
LEMMA TabKeepsTypes == Safe /\ Tab => Safe'
<1> SUFFICES ASSUME Safe, Tab PROVE Safe'
  OBVIOUS
<1> USE LimitsAssumption DEF Safe
<1>1. CASE Refuse
  <2>1. HubTypes' /\ Slots'
    BY <1>1, HubAfterDispose DEF Refuse, OnClosed
  <2>2. SourceTypes' /\ ComebackTypes'
    BY <1>1 DEF Refuse, OnClosed, DisposeSource, SourceTypes, ComebackTypes
  <2>3. PageTypes' /\ ReaderTypes'
    BY <1>1 DEF Refuse, page, tabVisibility, reader, PageTypes, ReaderTypes
  <2> QED BY <2>1, <2>2, <2>3
<1>2. CASE SourceLost
  <2>1. SourceTypes'
    BY <1>2 DEF SourceLost, SourceTypes
  <2>2. HubTypes' /\ PageTypes'
    BY <1>2 DEF SourceLost, hub, page, tabVisibility, HubTypes, PageTypes
  <2>3. ComebackTypes' /\ ReaderTypes'
    BY <1>2 DEF SourceLost, comeback, reader, ComebackTypes, ReaderTypes
  <2>4. Slots'
    BY <1>2 DEF SourceLost, HubTypes, Slots, SlotsMatchResponses, hub, None
  <2> QED BY <2>1, <2>2, <2>3, <2>4
<1>3. CASE Read
  <2>1. Head(queue) \in Messages /\ queue' \in Seq(Messages)
    <3> queue \in Seq(Messages) /\ queue # <<>> /\ queue' = Tail(queue)
      BY <1>3 DEF Read, SourceTypes
    <3> HIDE DEF Messages
    <3> QED OBVIOUS
  <2>2. SourceTypes'
    BY <1>3, <2>1 DEF Read, SourceTypes
  <2>3. ReaderTypes'
    <3>1. shown' \in [Parts -> 0 .. MaxVersion]
      BY <1>3, <2>1 DEF Read, ReaderTypes, Messages
    <3> QED BY <1>3, <3>1 DEF Read, FireOn, ReaderTypes
  <2>4. HubTypes' /\ PageTypes' /\ ComebackTypes'
    BY <1>3 DEF Read, hub, page, tabVisibility, comeback, HubTypes, PageTypes, ComebackTypes
  <2>5. Slots'
    BY <1>3 DEF Read, Slots, SlotsMatchResponses, hub, None
  <2> QED BY <2>2, <2>3, <2>4, <2>5
<1>4. CASE RetryTimer
  <2>1. ComebackTypes'
    BY <1>4 DEF RetryTimer, ComebackTypes
  <2>2. HubTypes' /\ PageTypes' /\ SourceTypes' /\ ReaderTypes'
    BY <1>4 DEF RetryTimer, hub, page, tabVisibility, source, reader, HubTypes, PageTypes, SourceTypes, ReaderTypes
  <2>3. Slots'
    BY <1>4 DEF RetryTimer, Slots, SlotsMatchResponses, hub, source
  <2> QED BY <2>1, <2>2, <2>3
<1>5. CASE ProbeUnauthorized \/ FetchUnauthorized
  <2>1. Unmount /\ UNCHANGED <<db, pending, flushScheduled, subscriptions, others, session, hidden, disturbances>>
    BY <1>5 DEF ProbeUnauthorized, FetchUnauthorized
  <2>2. SourceTypes' /\ ComebackTypes' /\ ReaderTypes'
    BY <2>1, UnmountTypes
  <2>3. PageTypes'
    BY <2>1 DEF Unmount, PageTypes
  <2>4. HubTypes' /\ Slots'
    BY <2>1, HubAfterDispose DEF Unmount
  <2> QED BY <2>2, <2>3, <2>4
<1>6. CASE HiddenTimer
  <2>1. HubTypes' /\ Slots'
    BY <1>6, HubAfterDispose DEF HiddenTimer
  <2>2. SourceTypes'
    BY <1>6 DEF HiddenTimer, DisposeSource, SourceTypes
  <2>4. ComebackTypes'
    BY <1>6 DEF HiddenTimer, InvalidatePendingReconnect, Superseded, ComebackTypes
  <2>3. PageTypes' /\ ReaderTypes'
    BY <1>6 DEF HiddenTimer, page, reader, PageTypes, ReaderTypes
  <2> QED BY <2>1, <2>2, <2>3, <2>4
<1>7. ASSUME NEW p \in {"current", "stale"}, ProbeAnswered(p) PROVE Safe'
  <2>1. PageTypes' /\ ReaderTypes'
    BY <1>7 DEF ProbeAnswered, page, tabVisibility, reader, PageTypes, ReaderTypes
  <2>2. CASE Connect(probes \ {p})
    <3>1. HubTypes' /\ Slots'
      BY <1>7, <2>2, HubAfterDispose DEF ProbeAnswered, Connect
    <3>2. SourceTypes'
      BY <2>2 DEF Connect, DisposeSource, SourceTypes
    <3>3. ComebackTypes'
      BY <2>2 DEF Connect, InvalidatePendingReconnect, Superseded, ComebackTypes
    <3> QED BY <2>1, <3>1, <3>2, <3>3
  <2>3. CASE probes' = probes \ {p} /\ UNCHANGED <<source, response, retryTimer, probeTimer>>
    <3>1. HubTypes' /\ SourceTypes' /\ ComebackTypes'
      BY <1>7, <2>3 DEF ProbeAnswered, source, HubTypes, SourceTypes, ComebackTypes
    <3>2. Slots'
      BY <1>7, <2>3 DEF ProbeAnswered, source, Slots, SlotsMatchResponses
    <3> QED BY <2>1, <3>1, <3>2
  <2> QED BY <1>7, <2>2, <2>3 DEF ProbeAnswered
<1>8. CASE FireTimer \/ MutationTimer
  <2>1. ReaderTypes'
    <3>1. Fetching \in [Halves -> 0 .. Failed]
      BY DEF Fetching, Unread, Failed
    <3> QED BY <1>8, <3>1 DEF FireTimer, MutationTimer, ReaderTypes
  <2>2. HubTypes' /\ PageTypes' /\ SourceTypes' /\ ComebackTypes'
    <3>1. UNCHANGED <<db, hub, page, tabVisibility, source, comeback, disturbances>>
      BY <1>8 DEF FireTimer, MutationTimer
    <3>2. HubTypes' /\ PageTypes'
      BY <3>1 DEF hub, page, tabVisibility, HubTypes, PageTypes
    <3>3. SourceTypes' /\ ComebackTypes'
      BY <3>1 DEF source, comeback, SourceTypes, ComebackTypes
    <3> QED BY <3>2, <3>3
  <2>3. Slots'
    BY <1>8 DEF FireTimer, MutationTimer, Slots, SlotsMatchResponses, hub, source
  <2> QED BY <2>1, <2>2, <2>3
<1>9. CASE TreeArrives
  <2>1. ReaderTypes'
    <3>1. shown' \in [Parts -> 0 .. MaxVersion]
      <4>1. \A h \in Halves : Merged(h) \in 0 .. MaxVersion
        BY <1>9 DEF TreeArrives, Merged, Failed, ReaderTypes, Parts
      <4> QED BY <1>9, <4>1 DEF TreeArrives, ReaderTypes
    <3> QED BY <1>9, <3>1 DEF TreeArrives, ReaderTypes
  <2>2. HubTypes' /\ PageTypes' /\ SourceTypes' /\ ComebackTypes'
    BY <1>9 DEF TreeArrives, hub, page, tabVisibility, source, comeback, HubTypes, PageTypes, SourceTypes,
                ComebackTypes
  <2>3. Slots'
    BY <1>9 DEF TreeArrives, Slots, SlotsMatchResponses, hub, source
  <2> QED BY <2>1, <2>2, <2>3
<1>10. ASSUME NEW h \in Halves, FetchHalf(h) PROVE Safe'
  <2>1. ReaderTypes'
    <3>1. load' \in [Halves -> 0 .. Failed]
      BY <1>10 DEF FetchHalf, ReaderTypes, HubTypes, Versions, Failed
    <3> QED BY <1>10, <3>1 DEF FetchHalf, ReaderTypes
  <2>2. HubTypes' /\ PageTypes' /\ SourceTypes' /\ ComebackTypes'
    BY <1>10 DEF FetchHalf, hub, page, tabVisibility, source, comeback, HubTypes, PageTypes, SourceTypes,
                 ComebackTypes
  <2>3. Slots'
    BY <1>10 DEF FetchHalf, Slots, SlotsMatchResponses, hub, source
  <2> QED BY <2>1, <2>2, <2>3
<1> QED BY <1>1, <1>2, <1>3, <1>4, <1>5, <1>6, <1>7, <1>8, <1>9, <1>10 DEF Tab

\* What happens to both: writes, the viewer, the network, a restart.
LEMMA EnvironmentKeepsTypes == Safe /\ Environment => Safe'
<1> SUFFICES ASSUME Safe, Environment PROVE Safe'
  OBVIOUS
<1> USE LimitsAssumption DEF Safe
<1>1. CASE Change \/ Write
  <2>1. HubTypes'
    <3>1. db' \in Versions
      BY <1>1 DEF Change, Write, HubTypes, Versions
    <3>2. pending' = <<"flights-changed", "flight-state">> /\ flushScheduled' = TRUE
      BY <1>1, BothWait DEF Change, Write
    <3>3. flushScheduled' = (pending' # <<>>)
      BY <3>2
    <3> QED BY <1>1, <3>1, <3>2, <3>3 DEF Change, Write, HubTypes
  <2>2. PageTypes' /\ SourceTypes' /\ ComebackTypes'
    BY <1>1 DEF Change, Write, page, tabVisibility, source, comeback, PageTypes, SourceTypes, ComebackTypes
  <2>3. ReaderTypes'
    BY <1>1 DEF Change, Write, reader, ReaderTypes
  <2>4. Slots'
    BY <1>1 DEF Change, Write, Slots, SlotsMatchResponses, source
  <2> QED BY <2>1, <2>2, <2>3, <2>4
<1>2. CASE Navigate
  <2>1. ReaderTypes' /\ PageTypes'
    BY <1>2 DEF Navigate, Disturb, Fetching, Unread, Failed, ReaderTypes, page, tabVisibility, PageTypes
  <2>2. HubTypes' /\ SourceTypes' /\ ComebackTypes'
    BY <1>2 DEF Navigate, hub, source, comeback, HubTypes, SourceTypes, ComebackTypes
  <2>3. Slots'
    BY <1>2 DEF Navigate, Slots, SlotsMatchResponses, hub, source
  <2> QED BY <2>1, <2>2, <2>3
<1>3. CASE BecomeHidden \/ Expire
  <2>1. PageTypes'
    <3>1. disturbances' \in 0 .. MaxDisturbances
      BY <1>3 DEF BecomeHidden, Expire, Disturb, PageTypes
    <3> QED BY <1>3, <3>1 DEF BecomeHidden, Expire, page, tabVisibility, PageTypes
  <2>2. HubTypes' /\ SourceTypes' /\ ComebackTypes' /\ ReaderTypes'
    BY <1>3 DEF BecomeHidden, Expire, hub, source, comeback, reader, HubTypes, SourceTypes, ComebackTypes, ReaderTypes
  <2>3. Slots'
    BY <1>3 DEF BecomeHidden, Expire, Slots, SlotsMatchResponses, hub, source
  <2> QED BY <2>1, <2>2, <2>3
<1>4. CASE BecomeVisible
  <2>1. PageTypes'
    BY <1>4 DEF BecomeVisible, page, PageTypes
  <2>2. ReaderTypes'
    <3>1. load' \in {<<>>} \cup [Halves -> 0 .. Failed]
      BY <1>4 DEF BecomeVisible, Fetching, Unread, Failed, ReaderTypes
    <3> QED BY <1>4, <3>1 DEF BecomeVisible, ReaderTypes
  <2>3. CASE Connect(probes)
    <3>1. HubTypes' /\ Slots'
      BY <1>4, <2>3, HubAfterDispose DEF BecomeVisible, Connect
    <3>2. SourceTypes'
      BY <2>3 DEF Connect, DisposeSource, SourceTypes
    <3>3. ComebackTypes'
      BY <2>3 DEF Connect, InvalidatePendingReconnect, Superseded, ComebackTypes
    <3> QED BY <2>1, <2>2, <3>1, <3>2, <3>3
  <2>4. CASE UNCHANGED <<source, response, comeback>>
    <3>1. HubTypes' /\ SourceTypes' /\ ComebackTypes'
      BY <1>4, <2>4 DEF BecomeVisible, source, comeback, HubTypes, SourceTypes, ComebackTypes
    <3>2. Slots'
      BY <1>4, <2>4 DEF BecomeVisible, source, Slots, SlotsMatchResponses
    <3> QED BY <2>1, <2>2, <3>1, <3>2
  <2> QED BY <1>4, <2>3, <2>4 DEF BecomeVisible
<1>5. CASE Logout
  <2>1. SourceTypes' /\ ComebackTypes' /\ ReaderTypes'
    BY <1>5, UnmountTypes DEF Logout
  <2>2. PageTypes'
    <3>1. disturbances' \in 0 .. MaxDisturbances
      BY <1>5 DEF Logout, Disturb, PageTypes
    <3> QED BY <1>5, <3>1 DEF Logout, Unmount, PageTypes
  <2>3. HubTypes' /\ Slots'
    BY <1>5, HubAfterDispose DEF Logout, Unmount
  <2> QED BY <2>1, <2>2, <2>3
<1>6. CASE Login
  <2>1. PageTypes' /\ SourceTypes'
    BY <1>6 DEF Login, PageTypes, SourceTypes
  <2>2. ReaderTypes'
    BY <1>6 DEF Login, Fetching, Unread, Failed, ReaderTypes
  <2>3. HubTypes' /\ ComebackTypes'
    BY <1>6 DEF Login, hub, comeback, HubTypes, ComebackTypes
  <2>4. Slots'
    BY <1>6 DEF Login, Slots, SlotsMatchResponses, hub
  <2> QED BY <2>1, <2>2, <2>3, <2>4
<1>7. CASE Restart
  <2>1. HubTypes'
    BY <1>7 DEF Restart, HubTypes
  <2>5. PageTypes'
    BY <1>7 DEF Restart, Disturb, page, tabVisibility, PageTypes
  <2>2. SourceTypes' /\ ComebackTypes'
    BY <1>7 DEF Restart, SourceTypes, ComebackTypes
  <2>3. ReaderTypes'
    <3>1. load' \in {<<>>} \cup [Halves -> 0 .. Failed]
      BY <1>7 DEF Restart, Failed, ReaderTypes
    <3> QED BY <1>7, <3>1 DEF Restart, ReaderTypes
  <2>4. Slots'
    BY <1>7, FS_EmptySet DEF Restart, Slots, SlotsMatchResponses
  <2> QED BY <2>1, <2>2, <2>3, <2>4, <2>5
<1>8. CASE RefuseByProxy
  <2>1. HubTypes' /\ Slots'
    BY <1>8, HubAfterDispose DEF RefuseByProxy, OnClosed
  <2>2. SourceTypes' /\ ComebackTypes'
    BY <1>8 DEF RefuseByProxy, OnClosed, DisposeSource, SourceTypes, ComebackTypes
  <2>3. PageTypes' /\ ReaderTypes'
    BY <1>8 DEF RefuseByProxy, Disturb, page, tabVisibility, reader, PageTypes, ReaderTypes
  <2> QED BY <2>1, <2>2, <2>3
<1>9. CASE OtherOpens
  <2>1. Fresh \in Streams /\ response[Fresh] = "free" /\ Fresh # src /\ Fresh \notin subscriptions
    BY <1>9, FreshExists DEF OtherOpens
  <2>2. HubTypes'
    BY <1>9, <2>1 DEF OtherOpens, HubTypes
  <2>3. PageTypes' /\ SourceTypes' /\ ComebackTypes' /\ ReaderTypes'
    BY <1>9 DEF OtherOpens, Disturb, page, tabVisibility, source, comeback, reader, PageTypes, SourceTypes,
                ComebackTypes, ReaderTypes
  <2>4. Slots'
    <3>1. Cardinality(subscriptions') = Cardinality(subscriptions) + 1 /\ Cardinality(subscriptions) \in Nat
      BY <1>9, <2>1, SlotsAreCounted DEF OtherOpens, HubTypes
    <3>2. Cardinality(subscriptions') <= MaxStreams
      BY <1>9, <3>1 DEF OtherOpens, HasSlot
    <3>3. subscriptions' = {s \in Streams : response'[s] # "free"}
      BY <1>9, <2>1 DEF OtherOpens, HubTypes, Slots, SlotsMatchResponses
    <3> QED BY <1>9, <2>1, <3>2, <3>3 DEF OtherOpens, Slots, SlotsMatchResponses, source
  <2> QED BY <2>2, <2>3, <2>4
<1>10. ASSUME NEW s \in Streams, Drop(s) PROVE Safe'
  <2>1. HubTypes' /\ PageTypes'
    BY <1>10 DEF Drop, Disturb, page, tabVisibility, HubTypes, PageTypes
  <2>2. SourceTypes' /\ ComebackTypes' /\ ReaderTypes'
    BY <1>10 DEF Drop, comeback, reader, SourceTypes, ComebackTypes, ReaderTypes
  <2>3. Slots'
    BY <1>10 DEF Drop, HubTypes, Slots, SlotsMatchResponses
  <2> QED BY <2>1, <2>2, <2>3
<1>11. ASSUME NEW p \in {"current", "stale"}, ProbeFails(p) PROVE Safe'
  <2>1. ComebackTypes' /\ PageTypes'
    BY <1>11 DEF ProbeFails, Disturb, page, tabVisibility, ComebackTypes, PageTypes
  <2>2. HubTypes' /\ SourceTypes' /\ ReaderTypes'
    BY <1>11 DEF ProbeFails, hub, source, reader, HubTypes, SourceTypes, ReaderTypes
  <2>3. Slots'
    BY <1>11 DEF ProbeFails, Slots, SlotsMatchResponses, hub, source
  <2> QED BY <2>1, <2>2, <2>3
<1>12. ASSUME NEW h \in Halves, FetchHalfFails(h) PROVE Safe'
  <2>1. ReaderTypes'
    <3>1. load' \in [Halves -> 0 .. Failed]
      BY <1>12 DEF FetchHalfFails, ReaderTypes, Failed
    <3> QED BY <1>12, <3>1 DEF FetchHalfFails, ReaderTypes
  <2>2. HubTypes' /\ PageTypes' /\ SourceTypes' /\ ComebackTypes'
    BY <1>12 DEF FetchHalfFails, Disturb, hub, page, tabVisibility, source, comeback, HubTypes, PageTypes,
                 SourceTypes, ComebackTypes
  <2>3. Slots'
    BY <1>12 DEF FetchHalfFails, Slots, SlotsMatchResponses, hub, source
  <2> QED BY <2>1, <2>2, <2>3
<1> QED BY <1>1, <1>2, <1>3, <1>4, <1>5, <1>6, <1>7, <1>8, <1>9, <1>10, <1>11, <1>12 DEF Environment

\* A step that changes nothing.
LEMMA StutterKeepsTypes == Safe /\ UNCHANGED vars => Safe'
<1> SUFFICES ASSUME Safe, UNCHANGED vars PROVE Safe'
  OBVIOUS
<1> USE DEF Safe, vars
<1>1. HubTypes' /\ PageTypes'
  BY DEF hub, page, tabVisibility, HubTypes, PageTypes
<1>2. SourceTypes' /\ ComebackTypes' /\ ReaderTypes'
  BY DEF source, comeback, reader, SourceTypes, ComebackTypes, ReaderTypes
<1>3. Slots'
  BY DEF Slots, SlotsMatchResponses, hub, source
<1> QED BY <1>1, <1>2, <1>3

\* Types and slots hold in every reachable state.
LEMMA SafeAlways == Spec => []Safe
<1>1. Safe /\ [Next]_vars => Safe'
  BY ServerKeepsTypes, TabKeepsTypes, EnvironmentKeepsTypes, StutterKeepsTypes DEF Next
<1> QED BY <1>1, SafeInitially, PTL DEF Spec

\* Every variable keeps its type.
THEOREM LiveTypesHold == Spec => []TypeOK
<1>1. Safe => TypeOK
  BY TypesByGroup DEF Safe
<1> QED BY <1>1, SafeAlways, PTL

\* routes/events.ts: the slots taken are the responses not yet closed, never more than the
\* limit, however often streams are cut, closed and opened and the server dies.
THEOREM SlotsAreGivenBack == Spec => []SlotsMatchResponses
<1>1. Safe => SlotsMatchResponses
  BY DEF Safe, Slots
<1> QED BY <1>1, SafeAlways, PTL

-----------------------------------------------------------------------------
(* One way back.                                                             *)

\* OneWayBack case by case, and what makes it inductive: only a mounted page of a hidden
\* tab has the close timer or is closed for being hidden.
Ways ==
  IF mounted /\ ~closedForHidden
  THEN \/ es # "none" /\ ~retryTimer /\ ~probeTimer /\ "current" \notin probes
       \/ es = "none" /\ retryTimer /\ ~probeTimer /\ "current" \notin probes
       \/ es = "none" /\ ~retryTimer /\ probeTimer /\ "current" \notin probes
       \/ es = "none" /\ ~retryTimer /\ ~probeTimer /\ "current" \in probes
  ELSE es = "none" /\ ~retryTimer /\ ~probeTimer /\ "current" \notin probes
ClosedWhileHidden == hiddenTimer \/ closedForHidden => hidden /\ mounted
WaysInv == Ways /\ ClosedWhileHidden

\* The cases of Ways say that exactly one way back is left.
LEMMA WaysByCase == Ways => OneWayBack
<1> DEFINE w1 == es # "none"
           w4 == "current" \in probes
<1>1. WaysBack[1] = w1 /\ WaysBack[2] = retryTimer /\ WaysBack[3] = probeTimer /\ WaysBack[4] = w4
  BY DEF WaysBack
<1>2. \A i \in 1 .. 4 : i = 1 \/ i = 2 \/ i = 3 \/ i = 4
  OBVIOUS
<1>3. 1 \in 1 .. 4 /\ 2 \in 1 .. 4 /\ 3 \in 1 .. 4 /\ 4 \in 1 .. 4
  OBVIOUS
<1> SUFFICES ASSUME Ways PROVE OneWayBack
  OBVIOUS
<1>4. CASE mounted /\ ~closedForHidden
  <2>1. CASE w1 /\ ~retryTimer /\ ~probeTimer /\ ~w4
    <3>1. \A j \in 1 .. 4 : WaysBack[j] => j = 1
      BY <1>1, <1>2, <2>1, Zenon
    <3> QED BY <1>1, <1>3, <1>4, <2>1, <3>1, Zenon DEF OneWayBack
  <2>2. CASE ~w1 /\ retryTimer /\ ~probeTimer /\ ~w4
    <3>1. \A j \in 1 .. 4 : WaysBack[j] => j = 2
      BY <1>1, <1>2, <2>2, Zenon
    <3> QED BY <1>1, <1>3, <1>4, <2>2, <3>1, Zenon DEF OneWayBack
  <2>3. CASE ~w1 /\ ~retryTimer /\ probeTimer /\ ~w4
    <3>1. \A j \in 1 .. 4 : WaysBack[j] => j = 3
      BY <1>1, <1>2, <2>3, Zenon
    <3> QED BY <1>1, <1>3, <1>4, <2>3, <3>1, Zenon DEF OneWayBack
  <2>4. CASE ~w1 /\ ~retryTimer /\ ~probeTimer /\ w4
    <3>1. \A j \in 1 .. 4 : WaysBack[j] => j = 4
      BY <1>1, <1>2, <2>4, Zenon
    <3> QED BY <1>1, <1>3, <1>4, <2>4, <3>1, Zenon DEF OneWayBack
  <2> QED BY <1>4, <2>1, <2>2, <2>3, <2>4, Zenon DEF Ways
<1>5. CASE ~(mounted /\ ~closedForHidden)
  <2>1. \A i \in 1 .. 4 : ~WaysBack[i]
    BY <1>1, <1>2, <1>5, Zenon DEF Ways
  <2> QED BY <1>5, <2>1, Zenon DEF OneWayBack
<1> QED BY <1>4, <1>5

\* A page that goes, or has gone, has no way back.
LEMMA UnmountEndsWays == Unmount => WaysInv'
BY DEF Unmount, DisposeSource, WaysInv, Ways, ClosedWhileHidden

\* What the server does on its own touches no way back of the page.
LEMMA ServerKeepsWays == WaysInv /\ Server => WaysInv'
<1> SUFFICES ASSUME WaysInv, Server PROVE WaysInv'
  OBVIOUS
<1>1. UNCHANGED <<es, comeback, mounted, tabVisibility>>
  BY DEF Server, Flush, Accept, ResponseClosed, page, comeback, tabVisibility, source
<1> QED BY <1>1 DEF comeback, tabVisibility, WaysInv, Ways, ClosedWhileHidden

\* Every handler of the tab that gives up one way back opens another.
LEMMA TabKeepsWays == Safe /\ WaysInv /\ Tab => WaysInv'
<1> SUFFICES ASSUME Safe, WaysInv, Tab PROVE WaysInv'
  OBVIOUS
<1>1. CASE Refuse
  BY <1>1 DEF Refuse, Requesting, OnClosed, DisposeSource, page, tabVisibility, WaysInv, Ways, ClosedWhileHidden
<1>2. CASE SourceLost
  <2>1. es # "none"
    BY <1>2 DEF SourceLost, Safe, Slots, SlotsMatchResponses
  <2> QED BY <1>2, <2>1 DEF SourceLost, page, tabVisibility, comeback, WaysInv, Ways, ClosedWhileHidden
<1>3. CASE Read
  <2>1. es # "none" /\ es' # "none"
    BY <1>3 DEF Read, Safe, Slots, SlotsMatchResponses
  <2> QED BY <1>3, <2>1 DEF Read, page, tabVisibility, comeback, WaysInv, Ways, ClosedWhileHidden
<1>4. CASE RetryTimer
  BY <1>4 DEF RetryTimer, page, tabVisibility, source, WaysInv, Ways, ClosedWhileHidden
<1>5. CASE ProbeUnauthorized \/ FetchUnauthorized
  BY <1>5, UnmountEndsWays DEF ProbeUnauthorized, FetchUnauthorized
<1>6. CASE HiddenTimer
  BY <1>6 DEF HiddenTimer, DisposeSource, InvalidatePendingReconnect, Superseded, page, WaysInv, Ways,
              ClosedWhileHidden
<1>7. ASSUME NEW p \in {"current", "stale"}, ProbeAnswered(p) PROVE WaysInv'
  <2>1. CASE p = "current" /\ Connect(probes \ {p})
    BY <1>7, <2>1 DEF ProbeAnswered, Connect, DisposeSource, InvalidatePendingReconnect, Superseded, page,
                      tabVisibility, WaysInv, Ways, ClosedWhileHidden
  <2>2. CASE p = "stale" /\ probes' = probes \ {p} /\ UNCHANGED <<source, response, retryTimer, probeTimer>>
    BY <1>7, <2>2 DEF ProbeAnswered, source, page, tabVisibility, WaysInv, Ways, ClosedWhileHidden
  <2> QED BY <1>7, <2>1, <2>2 DEF ProbeAnswered
<1>8. CASE FireTimer \/ MutationTimer \/ TreeArrives \/ \E h \in Halves : FetchHalf(h)
  <2>1. UNCHANGED <<es, comeback, mounted, tabVisibility>>
    BY <1>8 DEF FireTimer, MutationTimer, TreeArrives, FetchHalf, page, comeback, tabVisibility, source
  <2> QED BY <2>1 DEF comeback, tabVisibility, WaysInv, Ways, ClosedWhileHidden
<1> QED BY <1>1, <1>2, <1>3, <1>4, <1>5, <1>6, <1>7, <1>8 DEF Tab

\* A lost stream, a hidden tab and a page that goes leave one way back, or
\* nothing to come back to.
LEMMA EnvironmentKeepsWays == Safe /\ WaysInv /\ Environment => WaysInv'
<1> SUFFICES ASSUME Safe, WaysInv, Environment PROVE WaysInv'
  OBVIOUS
<1>1. CASE \/ Change \/ Write \/ Navigate \/ Expire \/ OtherOpens
           \/ (\E s \in Streams : Drop(s)) \/ (\E h \in Halves : FetchHalfFails(h))
  <2>1. UNCHANGED <<es, comeback, mounted, tabVisibility>>
    BY <1>1 DEF Change, Write, Navigate, Expire, OtherOpens, Drop, FetchHalfFails, page, comeback, tabVisibility,
                source
  <2> QED BY <2>1 DEF comeback, tabVisibility, WaysInv, Ways, ClosedWhileHidden
<1>2. CASE BecomeHidden
  BY <1>2 DEF BecomeHidden, page, source, comeback, WaysInv, Ways, ClosedWhileHidden
<1>3. CASE BecomeVisible
  <2>1. CASE closedForHidden /\ Connect(probes)
    BY <1>3, <2>1 DEF BecomeVisible, Connect, DisposeSource, InvalidatePendingReconnect, Superseded, page, WaysInv,
                      Ways, ClosedWhileHidden
  <2>2. CASE ~closedForHidden /\ UNCHANGED <<source, response, comeback>>
    BY <1>3, <2>2 DEF BecomeVisible, source, comeback, page, WaysInv, Ways, ClosedWhileHidden
  <2> QED BY <1>3, <2>1, <2>2 DEF BecomeVisible
<1>4. CASE Logout
  BY <1>4, UnmountEndsWays DEF Logout
<1>5. CASE Login
  BY <1>5 DEF Login, comeback, WaysInv, Ways, ClosedWhileHidden
<1>6. CASE Restart
  BY <1>6 DEF Restart, page, tabVisibility, WaysInv, Ways, ClosedWhileHidden
<1>7. CASE RefuseByProxy
  BY <1>7 DEF RefuseByProxy, Requesting, OnClosed, DisposeSource, page, tabVisibility, WaysInv, Ways,
              ClosedWhileHidden
<1>8. ASSUME NEW p \in {"current", "stale"}, ProbeFails(p) PROVE WaysInv'
  <2>1. CASE p = "current"
    BY <1>8, <2>1 DEF ProbeFails, source, page, tabVisibility, WaysInv, Ways, ClosedWhileHidden
  <2>2. CASE p = "stale"
    BY <1>8, <2>2 DEF ProbeFails, source, page, tabVisibility, WaysInv, Ways, ClosedWhileHidden
  <2> QED BY <2>1, <2>2
<1> QED BY <1>1, <1>2, <1>3, <1>4, <1>5, <1>6, <1>7, <1>8 DEF Environment

\* LiveEventsProvider: a mounted page not closed for being hidden has exactly one thing
\* that holds or will bring back its stream; any other page has none.
THEOREM AlwaysOneWayBack == Spec => []OneWayBack
<1>1. Init => WaysInv
  BY DEF Init, WaysInv, Ways, ClosedWhileHidden
<1>2. Safe /\ WaysInv /\ [Next]_vars => WaysInv'
  <2>1. WaysInv /\ UNCHANGED vars => WaysInv'
    BY DEF vars, source, comeback, page, tabVisibility, WaysInv, Ways, ClosedWhileHidden
  <2> QED BY <2>1, ServerKeepsWays, TabKeepsWays, EnvironmentKeepsWays DEF Next
<1>3. WaysInv => OneWayBack
  BY WaysByCase DEF WaysInv
<1> QED BY <1>1, <1>2, <1>3, SafeAlways, PTL DEF Spec

-----------------------------------------------------------------------------
(* What is shown.                                                            *)

\* The states in a queue: none older than low or newer than high, and in order.
Ordered(q, low, high) ==
  \A i \in DOMAIN q : q[i].topic = "flight-state" =>
    /\ 1 <= q[i].version /\ low <= q[i].version /\ q[i].version <= high
    /\ \A j \in DOMAIN q : i <= j /\ q[j].topic = "flight-state" => q[i].version <= q[j].version

\* What is under way to the screen is a version the server has had, none older than
\* what is shown: in the queue of the stream and in the newest fetch of the tree.
Fetched(h) == load[h] \in {Unread, Failed} \/ (shown[h] <= load[h] /\ load[h] <= db)
Views ==
  /\ \A p \in Parts : shown[p] <= db
  /\ Ordered(queue, shown["flightState"], db)
  /\ load # <<>> => \A h \in Halves : Fetched(h)

\* Every message that waits carries a version.
LEMMA VersionsOfMessages ==
  ASSUME NEW q \in Seq(Messages)
  PROVE  \A i \in DOMAIN q : q[i].version \in Nat
<1>1. \A S : \A s \in Seq(S) : \A i \in DOMAIN s : s[i] \in S
  OBVIOUS
<1>2. \A m \in Messages : m.version \in Nat
  BY LimitsAssumption DEF Messages
<1>3. \A i \in DOMAIN q : q[i] \in Messages
  BY <1>1
<1> QED BY <1>2, <1>3

\* Where the elements of two joined sequences stand.
LEMMA ConcatIs ==
  ASSUME NEW S, NEW q \in Seq(S), NEW r \in Seq(S)
  PROVE  /\ DOMAIN (q \o r) = 1 .. Len(q) + Len(r)
         /\ \A i \in 1 .. Len(q) : (q \o r)[i] = q[i]
         /\ \A i \in 1 .. Len(r) : (q \o r)[Len(q) + i] = r[i]
OBVIOUS

\* An empty queue is in order.
LEMMA OrderedNothing == \A low, high : Ordered(<<>>, low, high)
BY DEF Ordered

\* What a new stream opens with is as new as the server.
LEMMA OrderedOpening ==
  ASSUME db \in Versions, NEW low \in Nat, low <= db
  PROVE  Ordered(Opening, low, db)
BY LimitsAssumption DEF Ordered, Opening, Versions

\* The server moves on.
LEMMA OrderedLater ==
  ASSUME NEW q \in Seq(Messages), NEW low \in Nat, NEW high \in Nat, NEW later \in Nat, high <= later,
         Ordered(q, low, high)
  PROVE  Ordered(q, low, later)
<1>1. \A v \in Nat : v <= high => v <= later
  OBVIOUS
<1> QED BY <1>1, VersionsOfMessages DEF Ordered

\* A flush writes the present state behind the older ones.
LEMMA OrderedWritten ==
  ASSUME NEW q \in Seq(Messages), NEW low \in Nat, NEW high \in Versions, low <= high, Ordered(q, low, high)
  PROVE  Ordered(q \o <<[topic |-> "flights-changed", version |-> 0], [topic |-> "flight-state", version |-> high]>>,
                 low, high)
<1> DEFINE m1 == [topic |-> "flights-changed", version |-> 0]
           m2 == [topic |-> "flight-state", version |-> high]
           ms == <<m1, m2>>
           r == q \o ms
<1>1. m1.topic = "flights-changed" /\ m2.topic = "flight-state" /\ m2.version = high
  OBVIOUS
<1> HIDE DEF m1, m2
<1>2. Len(ms) = 2 /\ ms[1] = m1 /\ ms[2] = m2
  OBVIOUS
<1>3. ms \in Seq(Messages)
  <2>1. m1 \in Messages /\ m2 \in Messages
    BY LimitsAssumption DEF Messages, Topics, Versions, m1, m2
  <2> QED BY <2>1
<1> HIDE DEF ms
<1>4. Len(q) \in Nat /\ DOMAIN q = 1 .. Len(q)
  OBVIOUS
<1>5. DOMAIN r = 1 .. Len(q) + 2
  <2>1. DOMAIN r = 1 .. Len(q) + Len(ms)
    BY <1>3, ConcatIs
  <2> QED BY <1>2, <2>1
<1>6. \A i \in 1 .. Len(q) : r[i] = q[i]
  BY <1>2, <1>3, ConcatIs
<1>7. r[Len(q) + 1] = m1 /\ r[Len(q) + 2] = m2
  <2>1. \A i \in 1 .. Len(ms) : r[Len(q) + i] = ms[i]
    BY <1>3, ConcatIs
  <2>2. 1 \in 1 .. 2 /\ 2 \in 1 .. 2
    OBVIOUS
  <2> QED BY <1>2, <2>1, <2>2
<1> HIDE DEF r
<1>8. \A i \in DOMAIN r : r[i].topic = "flight-state" => i \in 1 .. Len(q) \/ i = Len(q) + 2
  BY <1>1, <1>4, <1>5, <1>7
<1>9. \A i \in 1 .. Len(q) : q[i].version \in Nat
  BY <1>4, VersionsOfMessages
<1> SUFFICES ASSUME NEW i \in DOMAIN r, r[i].topic = "flight-state"
             PROVE  /\ 1 <= r[i].version /\ low <= r[i].version /\ r[i].version <= high
                    /\ \A j \in DOMAIN r : i <= j /\ r[j].topic = "flight-state" => r[i].version <= r[j].version
  BY DEF Ordered, r, ms, m1, m2
<1>10. CASE i \in 1 .. Len(q)
  <2>1. 1 <= q[i].version /\ low <= q[i].version /\ q[i].version <= high
    BY <1>4, <1>6, <1>10 DEF Ordered
  <2>2. ASSUME NEW j \in DOMAIN r, i <= j, r[j].topic = "flight-state" PROVE r[i].version <= r[j].version
    <3>1. CASE j \in 1 .. Len(q)
      BY <1>4, <1>6, <1>10, <2>2, <3>1 DEF Ordered
    <3>2. CASE j = Len(q) + 2
      BY <1>1, <1>6, <1>7, <1>10, <2>1, <3>2
    <3> QED BY <1>8, <2>2, <3>1, <3>2
  <2> QED BY <1>6, <1>10, <2>1, <2>2
<1>11. CASE i = Len(q) + 2
  <2>1. r[i].version = high
    BY <1>1, <1>7, <1>11
  <2>2. \A j \in DOMAIN r : i <= j => j = i
    BY <1>4, <1>5, <1>11
  <2>3. high \in Nat /\ 1 <= high
    BY LimitsAssumption DEF Versions
  <2> QED BY <2>1, <2>2, <2>3
<1> QED BY <1>8, <1>10, <1>11

\* The tab reads the oldest message: what stays is in order, and no older than it.
LEMMA OrderedRead ==
  ASSUME NEW q \in Seq(Messages), q # <<>>, NEW low \in Nat, NEW high \in Nat, Ordered(q, low, high)
  PROVE  /\ Head(q).topic = "flight-state" =>
              /\ 1 <= Head(q).version /\ low <= Head(q).version /\ Head(q).version <= high
              /\ Ordered(Tail(q), Head(q).version, high)
         /\ Ordered(Tail(q), low, high)
<1> DEFINE t == Tail(q)
<1>1. Len(q) \in Nat \ {0} /\ DOMAIN q = 1 .. Len(q) /\ Head(q) = q[1] /\ 1 \in DOMAIN q
  OBVIOUS
<1>2. DOMAIN t = 1 .. Len(q) - 1 /\ \A i \in DOMAIN t : t[i] = q[i + 1]
  BY <1>1
<1>3. \A i \in DOMAIN t : i + 1 \in DOMAIN q /\ 1 <= i + 1
  BY <1>1, <1>2
<1>4. \A i, j \in DOMAIN t : i <= j => i + 1 <= j + 1
  BY <1>2
<1> HIDE DEF t
<1>5. Ordered(t, low, high)
  BY <1>2, <1>3, <1>4 DEF Ordered
<1>6. ASSUME Head(q).topic = "flight-state"
      PROVE  /\ 1 <= Head(q).version /\ low <= Head(q).version /\ Head(q).version <= high
             /\ \A i \in DOMAIN t : t[i].topic = "flight-state" => Head(q).version <= t[i].version
  BY <1>1, <1>2, <1>3, <1>6 DEF Ordered
<1>7. ASSUME Head(q).topic = "flight-state" PROVE Ordered(t, Head(q).version, high)
  BY <1>5, <1>6, <1>7 DEF Ordered
<1> QED BY <1>5, <1>6, <1>7 DEF t

\* A step that shows nothing new: what is under way stays, is dropped or starts again.
LEMMA QuietKeepsViews ==
  ASSUME Safe, Views, UNCHANGED <<db, shown>>,
         queue' = queue \/ queue' = <<>>, load' = load \/ load' = Fetching \/ load' = <<>>
  PROVE  Views'
<1>1. Ordered(queue', shown'["flightState"], db')
  BY OrderedNothing DEF Views
<1>2. load' # <<>> => \A h \in Halves : Fetched(h)'
  <2>1. CASE load' = load
    BY <2>1 DEF Views, Fetched
  <2>2. CASE load' = Fetching
    BY <2>2 DEF Fetching, Fetched
  <2>3. CASE load' = <<>>
    BY <2>3
  <2> QED BY <2>1, <2>2, <2>3
<1>3. \A p \in Parts : shown'[p] <= db'
  BY DEF Views
<1> QED BY <1>1, <1>2, <1>3 DEF Views

\* A write makes a new version, which nothing under way can be ahead of.
LEMMA WriteKeepsViews ==
  ASSUME Safe, Views, db' = db + 1, UNCHANGED <<shown, queue, load>>
  PROVE  Views'
<1>1. db \in Nat /\ db + 1 \in Nat /\ "flightState" \in Parts
  BY LimitsAssumption DEF Safe, HubTypes, Versions, Parts
<1>2. \A p \in Parts : shown[p] \in Nat
  BY LimitsAssumption DEF Safe, ReaderTypes
<1>3. Ordered(queue', shown'["flightState"], db')
  BY <1>1, <1>2, OrderedLater DEF Safe, SourceTypes, Views
<1>4. load' # <<>> => \A h \in Halves : Fetched(h)'
  <2> SUFFICES ASSUME load # <<>>, NEW h \in Halves PROVE Fetched(h)'
    OBVIOUS
  <2>1. load[h] \in Nat /\ Fetched(h)
    BY LimitsAssumption DEF Safe, ReaderTypes, Views, Failed
  <2> QED BY <1>1, <2>1 DEF Fetched
<1>5. \A p \in Parts : shown'[p] <= db'
  BY <1>1, <1>2 DEF Views
<1> QED BY <1>3, <1>4, <1>5 DEF Views

\* A page that is left shows nothing, and nothing is under way to it.
LEMMA UnmountKeepsViews ==
  ASSUME Safe, Views, Unmount, UNCHANGED db
  PROVE  Views' /\ View!Forget
<1>1. db \in Nat
  BY LimitsAssumption DEF Safe, HubTypes, Versions
<1>2. Views'
  BY <1>1, OrderedNothing DEF Unmount, DisposeSource, Views
<1> QED BY <1>2 DEF Unmount, View!Forget, View!Nothing

\* Reading a message shows one that is no older than what is shown.
LEMMA ReadShows ==
  ASSUME Safe, Views, Read
  PROVE  Views' /\ [View!Next]_<<db, shown>>
<1> DEFINE m == Head(queue)
<1>1. queue \in Seq(Messages) /\ queue # <<>> /\ queue' = Tail(queue) /\ UNCHANGED <<db, load>>
  BY DEF Safe, SourceTypes, Read
<1>2. db \in Nat /\ db \in Versions /\ "flightState" \in Parts
  BY LimitsAssumption DEF Safe, HubTypes, Versions, Parts
<1>3. \A p \in Parts : shown[p] \in Nat
  BY LimitsAssumption DEF Safe, ReaderTypes
<1>4. Ordered(queue, shown["flightState"], db)
  BY DEF Views
<1>5. CASE m.topic = "flight-state"
  <2>1. /\ 1 <= m.version /\ shown["flightState"] <= m.version /\ m.version <= db
        /\ Ordered(queue', m.version, db)
    BY <1>1, <1>2, <1>3, <1>4, <1>5, OrderedRead
  <2>2. m.version \in Nat /\ m.version \in 1 .. db
    <3>1. m \in Messages
      BY <1>1
    <3>2. m.version \in Nat
      BY <3>1, LimitsAssumption DEF Messages
    <3> QED BY <1>2, <2>1, <3>2
  <2>3. shown' = [shown EXCEPT !["flightState"] = m.version] /\ shown \in [Parts -> Nat]
    BY <1>5, LimitsAssumption DEF Read, Safe, ReaderTypes
  <2>4. shown'["flightState"] = m.version /\ \A h \in Halves : shown'[h] = shown[h]
    <3>1. "flightState" \notin Halves /\ Halves \subseteq Parts
      BY LimitsAssumption DEF Parts
    <3> QED BY <1>2, <2>3, <3>1
  <2>5. Views'
    <3>1. \A p \in Parts : shown'[p] <= db'
      BY <1>1, <2>1, <2>3 DEF Views
    <3>2. load' # <<>> => \A h \in Halves : Fetched(h)'
      BY <1>1, <2>4 DEF Views, Fetched
    <3> QED BY <1>1, <2>1, <2>4, <3>1, <3>2 DEF Views
  <2>6. CASE m.version > shown["flightState"]
    <3>1. View!Show
      BY <1>1, <1>2, <2>2, <2>3, <2>6 DEF View!Show
    <3> QED BY <2>5, <3>1 DEF View!Next
  <2>7. CASE m.version = shown["flightState"]
    <3>1. shown' = shown
      BY <2>3, <2>7
    <3> QED BY <1>1, <2>5, <3>1
  <2> QED BY <1>2, <1>3, <2>1, <2>2, <2>6, <2>7
<1>6. CASE m.topic # "flight-state"
  <2>1. shown' = shown
    BY <1>6 DEF Read
  <2>2. Ordered(queue', shown["flightState"], db)
    BY <1>1, <1>2, <1>3, <1>4, OrderedRead
  <2>3. Views'
    BY <1>1, <2>1, <2>2 DEF Views, Fetched
  <2> QED BY <1>1, <2>1, <2>3
<1> QED BY <1>5, <1>6

\* The tree that arrives is no newer than the server's.
LEMMA TreeShows ==
  ASSUME Safe, Views, TreeArrives
  PROVE  Views' /\ [View!Next]_<<db, shown>>
<1>1. UNCHANGED <<db, queue>> /\ load' = <<>> /\ load # <<>> /\ \A h \in Halves : load[h] # Unread
  BY DEF TreeArrives, hub, source
<1>2. db \in Nat /\ Halves \subseteq {"trips", "loose"} /\ Halves \subseteq Parts /\ "flightState" \in Parts \ Halves
  BY LimitsAssumption DEF Safe, HubTypes, Versions, Parts
<1>3. shown \in [Parts -> Nat]
  BY LimitsAssumption DEF Safe, ReaderTypes
<1>4. \A h \in Halves : load[h] \in Nat
  BY <1>1, LimitsAssumption DEF Safe, ReaderTypes, Failed
<1>5. \A h \in Halves : Merged(h) \in Nat /\ Merged(h) <= db /\ shown[h] <= Merged(h)
  <2> SUFFICES ASSUME NEW h \in Halves PROVE Merged(h) \in Nat /\ Merged(h) <= db /\ shown[h] <= Merged(h)
    OBVIOUS
  <2>1. Fetched(h) /\ shown[h] <= db /\ shown[h] \in Nat
    BY <1>1, <1>2, <1>3 DEF Views
  <2>2. CASE load[h] = Failed
    BY <2>1, <2>2 DEF Merged
  <2>3. CASE load[h] # Failed
    BY <1>1, <1>4, <2>1, <2>3 DEF Merged, Fetched
  <2> QED BY <2>2, <2>3
<1>6. shown' = [p \in Parts |-> IF p \in Halves THEN Merged(p) ELSE shown[p]]
  BY DEF TreeArrives
<1>7. Views'
  <2>1. \A p \in Parts : shown'[p] <= db
    BY <1>5, <1>6 DEF Views
  <2>2. shown'["flightState"] = shown["flightState"]
    BY <1>2, <1>6
  <2> QED BY <1>1, <2>1, <2>2 DEF Views
<1> DEFINE Later(h) == h \in Halves /\ Merged(h) > shown[h]
<1>8. \A h \in Parts : ~Later(h) => shown'[h] = shown[h]
  BY <1>2, <1>3, <1>5, <1>6
<1>9. \A h \in Halves : Later(h) => Merged(h) \in 1 .. db
  BY <1>2, <1>3, <1>5
<1>10. \A h \in Parts : Later(h) => shown'[h] = Merged(h) /\ h \in {"trips", "loose"}
  BY <1>2, <1>6
<1>11. CASE Later("trips") /\ Later("loose")
  <2>1. shown' = [shown EXCEPT !["trips"] = Merged("trips"), !["loose"] = Merged("loose")]
    BY <1>2, <1>3, <1>6, <1>8, <1>10, <1>11
  <2>2. View!ShowTwo
    BY <1>1, <1>2, <1>9, <1>11, <2>1 DEF View!ShowTwo
  <2> QED BY <1>7, <2>2 DEF View!Next
<1>12. CASE Later("trips") /\ ~Later("loose")
  <2>1. shown' = [shown EXCEPT !["trips"] = Merged("trips")]
    BY <1>2, <1>3, <1>6, <1>8, <1>10, <1>12
  <2>2. View!Show
    BY <1>1, <1>2, <1>9, <1>12, <2>1 DEF View!Show
  <2> QED BY <1>7, <2>2 DEF View!Next
<1>13. CASE ~Later("trips") /\ Later("loose")
  <2>1. shown' = [shown EXCEPT !["loose"] = Merged("loose")]
    BY <1>2, <1>3, <1>6, <1>8, <1>10, <1>13
  <2>2. View!Show
    BY <1>1, <1>2, <1>9, <1>13, <2>1 DEF View!Show
  <2> QED BY <1>7, <2>2 DEF View!Next
<1>14. CASE ~Later("trips") /\ ~Later("loose")
  <2>1. shown' = shown
    BY <1>2, <1>3, <1>6, <1>8, <1>10, <1>14
  <2> QED BY <1>1, <1>7, <2>1
<1> QED BY <1>11, <1>12, <1>13, <1>14

\* The server shows nothing; it moves on.
LEMMA ServerShows == Safe /\ Views /\ Server => Views' /\ [View!Next]_<<db, shown>>
<1> SUFFICES ASSUME Safe, Views, Server PROVE Views' /\ UNCHANGED <<db, shown>>
  OBVIOUS
<1>0. db \in Versions /\ db \in Nat /\ queue \in Seq(Messages) /\ shown["flightState"] \in Nat
      /\ shown["flightState"] <= db
  <2>1. "flightState" \in Parts
    BY DEF Parts
  <2> QED BY <2>1, LimitsAssumption DEF Safe, HubTypes, Versions, SourceTypes, ReaderTypes, Views
<1>1. CASE Flush
  <2>1. UNCHANGED <<db, load, shown>>
    BY <1>1 DEF Flush, reader
  <2> DEFINE messages == <<[topic |-> "flights-changed", version |-> 0], [topic |-> "flight-state", version |-> db]>>
  <2>2. queue' = queue \o messages \/ queue' = queue \/ queue' = <<>>
    BY <1>1, FlushOutcomes DEF Safe
  <2>3. CASE queue' = queue \o messages
    <3>1. Ordered(queue', shown["flightState"], db)
      BY <1>0, <2>3, OrderedWritten DEF Views
    <3> QED BY <2>1, <3>1 DEF Views, Fetched
  <2>4. CASE queue' = queue \/ queue' = <<>>
    BY <2>1, <2>4, QuietKeepsViews
  <2> QED BY <2>1, <2>2, <2>3, <2>4
<1>2. CASE Accept
  <2>1. UNCHANGED <<db, load, shown>> /\ queue' = Opening
    BY <1>2 DEF Accept, reader
  <2>2. Ordered(queue', shown["flightState"], db)
    BY <1>0, <2>1, OrderedOpening
  <2> QED BY <2>1, <2>2 DEF Views, Fetched
<1>3. ASSUME NEW s \in Streams, ResponseClosed(s) PROVE Views' /\ UNCHANGED <<db, shown>>
  <2>1. UNCHANGED <<db, queue, load, shown>>
    BY <1>3 DEF ResponseClosed, source, reader
  <2> QED BY <2>1, QuietKeepsViews
<1> QED BY <1>1, <1>2, <1>3 DEF Server

\* What the tab shows is a step of LiveView.
LEMMA TabShows == Safe /\ Views /\ Tab => Views' /\ [View!Next]_<<db, shown>>
<1> SUFFICES ASSUME Safe, Views, Tab PROVE Views' /\ [View!Next]_<<db, shown>>
  OBVIOUS
<1>1. CASE Refuse \/ SourceLost \/ HiddenTimer \/ \E p \in {"current", "stale"} : ProbeAnswered(p)
  <2>1. UNCHANGED <<db, load, shown>> /\ (queue' = queue \/ queue' = <<>>)
    BY <1>1 DEF Refuse, SourceLost, HiddenTimer, ProbeAnswered, Connect, OnClosed, DisposeSource, source, reader
  <2> QED BY <2>1, QuietKeepsViews
<1>2. CASE Read
  BY <1>2, ReadShows
<1>3. CASE RetryTimer \/ FireTimer \/ MutationTimer
  <2>1. UNCHANGED <<db, queue, shown>> /\ (load' = load \/ load' = Fetching)
    BY <1>3 DEF RetryTimer, FireTimer, MutationTimer, source, reader
  <2> QED BY <2>1, QuietKeepsViews
<1>4. CASE ProbeUnauthorized \/ FetchUnauthorized
  BY <1>4, UnmountKeepsViews DEF ProbeUnauthorized, FetchUnauthorized, View!Next
<1>5. CASE TreeArrives
  BY <1>5, TreeShows
<1>6. ASSUME NEW h \in Halves, FetchHalf(h) PROVE Views' /\ [View!Next]_<<db, shown>>
  <2>1. UNCHANGED <<db, queue, shown>> /\ load # <<>> /\ load' = [load EXCEPT ![h] = db]
    BY <1>6 DEF FetchHalf, source
  <2>2. \A g \in Halves : Fetched(g)'
    <3>1. \A g \in Halves : Fetched(g) /\ shown[g] <= db /\ load \in [Halves -> 0 .. Failed] /\ db \in Nat
      BY <2>1, LimitsAssumption DEF Views, Parts, Safe, ReaderTypes, HubTypes, Versions
    <3> QED BY <2>1, <3>1 DEF Fetched
  <2> QED BY <2>1, <2>2 DEF Views
<1> QED BY <1>1, <1>2, <1>3, <1>4, <1>5, <1>6 DEF Tab

\* A page that goes forgets; nothing else is shown.
LEMMA EnvironmentShows == Safe /\ Views /\ Environment => Views' /\ [View!Next]_<<db, shown>>
<1> SUFFICES ASSUME Safe, Views, Environment PROVE Views' /\ [View!Next]_<<db, shown>>
  OBVIOUS
<1>1. CASE Change \/ Write
  <2>1. db' = db + 1 /\ UNCHANGED <<shown, queue, load>>
    BY <1>1 DEF Change, Write, source, reader
  <2> QED BY <2>1, WriteKeepsViews DEF View!Next, View!Change
<1>2. CASE \/ Navigate \/ BecomeHidden \/ BecomeVisible \/ Expire \/ Login \/ RefuseByProxy \/ OtherOpens
           \/ (\E s \in Streams : Drop(s)) \/ (\E p \in {"current", "stale"} : ProbeFails(p))
  <2>1. UNCHANGED <<db, shown>> /\ (queue' = queue \/ queue' = <<>>) /\ (load' = load \/ load' = Fetching)
    BY <1>2 DEF Navigate, BecomeHidden, BecomeVisible, Expire, Login, RefuseByProxy, OtherOpens, Drop, ProbeFails,
                Connect, OnClosed, DisposeSource, source, reader
  <2> QED BY <2>1, QuietKeepsViews
<1>3. CASE Logout
  BY <1>3, UnmountKeepsViews DEF Logout, View!Next
<1>4. CASE Restart
  <2>1. UNCHANGED <<db, shown>> /\ queue' = <<>>
        /\ load' = IF load = <<>> THEN load ELSE [h \in Halves |-> IF load[h] = Unread THEN Failed ELSE load[h]]
    BY <1>4 DEF Restart
  <2>2. load' # <<>> => \A h \in Halves : Fetched(h)'
    BY <2>1 DEF Views, Fetched
  <2> QED BY <2>1, <2>2, OrderedNothing DEF Views
<1>5. ASSUME NEW h \in Halves, FetchHalfFails(h) PROVE Views' /\ [View!Next]_<<db, shown>>
  <2>1. UNCHANGED <<db, queue, shown>> /\ load # <<>> /\ load' = [load EXCEPT ![h] = Failed]
    BY <1>5 DEF FetchHalfFails, source
  <2>2. \A g \in Halves : Fetched(g)'
    <3>1. \A g \in Halves : Fetched(g) /\ load \in [Halves -> 0 .. Failed]
      BY <2>1 DEF Views, Safe, ReaderTypes
    <3> QED BY <2>1, <3>1 DEF Fetched
  <2> QED BY <2>1, <2>2 DEF Views
<1> QED BY <1>1, <1>2, <1>3, <1>4, <1>5 DEF Environment

\* What is shown is a version the server had, and never older than what was shown: the
\* queue of the stream brings the states in order, and a fetch that a newer one overtook
\* no longer counts, so every step shows later versions, forgets, or shows nothing new.
THEOREM LiveEventsImplementLiveView == Spec => ImplementsLiveView
<1>1. Init => Views /\ View!Init
  <2> SUFFICES ASSUME Init PROVE Views /\ View!Init
    OBVIOUS
  <2>1. View!Init
    BY DEF Init, View!Init, View!Nothing
  <2>2. Views
    BY OrderedNothing DEF Init, Views, Fetching, Fetched
  <2> QED BY <2>1, <2>2
<1>2. Safe /\ Views /\ [Next]_vars => Views' /\ [View!Next]_<<db, shown>>
  <2>1. Safe /\ Views /\ UNCHANGED vars => Views' /\ UNCHANGED <<db, shown>>
    <3> SUFFICES ASSUME Safe, Views, UNCHANGED vars PROVE Views' /\ UNCHANGED <<db, shown>>
      OBVIOUS
    <3>1. UNCHANGED <<db, queue, load, shown>>
      BY DEF vars, source, reader
    <3> QED BY <3>1, QuietKeepsViews
  <2> QED BY <2>1, ServerShows, TabShows, EnvironmentShows DEF Next
<1> QED BY <1>1, <1>2, SafeAlways, PTL DEF Spec, ImplementsLiveView, View!Spec

=============================================================================
