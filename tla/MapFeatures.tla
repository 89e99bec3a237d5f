----------------------------- MODULE MapFeatures -----------------------------
(***************************************************************************)
(* The navdata a map draws: the poll of the replica's status, the ticked   *)
(* kinds, and the requests for what is in view                             *)
(* (client/src/hooks/useNavdataStatus.ts, useNavdataFeatures.ts,           *)
(* client/src/components/maps/NavdataControls.tsx).  A view is the number  *)
(* of moves that led to it.  A timer fires whenever it is armed: the       *)
(* lengths of the debounce and of Retry-After are left out.                *)
(***************************************************************************)
EXTENDS Integers, FiniteSets

CONSTANTS NULL,
          Kinds,         \* the kinds of features
          MaxActions     \* bound: what the viewer does

VARIABLES
  status, poll,          \* the last answer of the poll; "asked", "armed" or "over"
  visible, view,         \* the ticked kinds; where the map is
  debounce, retry,       \* the timers the effect holds
  lost, stray,           \* retries still armed that nothing holds: of this effect, of disposed ones
  request, aborted,      \* the request in flight; those given up that still end
  data, loading, error,
  stuck,                 \* a disposed effect set loading after the last live answer
  acted

featureVars == <<debounce, retry, lost, stray, request, aborted, data, loading, error, stuck>>
mapVars     == <<status, poll, visible, view, featureVars, acted>>

Init ==
  /\ status = NULL /\ poll = "asked" /\ visible = {} /\ view = 0 /\ acted = 0
  /\ debounce = FALSE /\ retry = FALSE /\ lost = 0 /\ stray = 0
  /\ request = NULL /\ aborted = {}
  /\ data = NULL /\ loading = FALSE /\ error = FALSE /\ stuck = FALSE

\* The overlay is there only while the last status told of a replica.
Mounted == status = "present"

\* The effect of the hook has a request to make.
Live == Mounted /\ visible # {}

GivenUp == aborted \cup ({request} \ {NULL})

-----------------------------------------------------------------------------
(* useNavdataStatus(): asked on mount and a while after every end.          *)

\* The overlay goes with all its state; what it left armed sets nothing.
Unmount ==
  /\ visible' = {} /\ debounce' = FALSE /\ retry' = FALSE /\ lost' = 0 /\ stray' = 0
  /\ request' = NULL /\ aborted' = {}
  /\ data' = NULL /\ loading' = FALSE /\ error' = FALSE /\ stuck' = FALSE

StatusAnswered ==
  /\ poll = "asked" /\ poll' = "armed"
  /\ status' \in {"present", "absent"}
  /\ IF status' = "absent" THEN Unmount ELSE UNCHANGED <<visible, featureVars>>
  /\ UNCHANGED <<view, acted>>

\* The last known status is kept.
StatusFails == poll = "asked" /\ poll' = "armed" /\ UNCHANGED <<status, visible, view, featureVars, acted>>

PollAgain == poll = "armed" /\ poll' = "asked" /\ UNCHANGED <<status, visible, view, featureVars, acted>>

Leave ==
  /\ poll # "over" /\ poll' = "over" /\ status' = NULL
  /\ Unmount
  /\ UNCHANGED <<view, acted>>

-----------------------------------------------------------------------------
(* The viewer. *)

Viewer == poll # "over" /\ acted < MaxActions /\ acted' = acted + 1

Schedule == debounce' = TRUE /\ retry' = FALSE

Move ==
  /\ Viewer /\ view' = view + 1
  /\ IF Live THEN Schedule ELSE UNCHANGED <<debounce, retry>>
  /\ UNCHANGED <<status, poll, visible, lost, stray, request, aborted, data, loading, error, stuck>>

\* The effect is disposed of and started for the kinds now ticked; without
\* any, what was drawn goes.
Toggle(k) ==
  /\ Viewer /\ Mounted
  /\ visible' = IF k \in visible THEN visible \ {k} ELSE visible \cup {k}
  /\ stray' = stray + lost /\ lost' = 0 /\ request' = NULL /\ aborted' = GivenUp
  /\ retry' = FALSE /\ debounce' = (visible' # {})
  /\ IF visible' = {} THEN data' = NULL /\ loading' = FALSE /\ error' = FALSE /\ stuck' = FALSE
     ELSE UNCHANGED <<data, loading, error, stuck>>
  /\ UNCHANGED <<status, poll, view>>

-----------------------------------------------------------------------------
(* load() and what comes of it. *)

Load(again) ==
  /\ request' = [view |-> view, kinds |-> visible, again |-> again]
  /\ aborted' = GivenUp /\ loading' = TRUE /\ error' = FALSE
  /\ UNCHANGED <<status, poll, visible, view, data, stuck, acted>>

DebounceFires == debounce /\ debounce' = FALSE /\ Load(TRUE) /\ UNCHANGED <<retry, lost, stray>>

RetryFires == retry /\ retry' = FALSE /\ Load(FALSE) /\ UNCHANGED <<debounce, lost, stray>>

LostFires == lost > 0 /\ lost' = lost - 1 /\ Load(FALSE) /\ UNCHANGED <<debounce, retry, stray>>

\* load() of a disposed effect sets loading, and returns before it unsets it.
StrayFires ==
  /\ stray > 0 /\ stray' = stray - 1
  /\ loading' = TRUE /\ error' = FALSE /\ stuck' = TRUE
  /\ UNCHANGED <<status, poll, visible, view, debounce, retry, lost, request, aborted, data, acted>>

Settled == request' = NULL /\ loading' = FALSE /\ stuck' = FALSE

Answered ==
  /\ request # NULL /\ Settled
  /\ data' = [view |-> request.view, kinds |-> request.kinds] /\ error' = FALSE
  /\ UNCHANGED <<status, poll, visible, view, debounce, retry, lost, stray, aborted, acted>>

Fails ==
  /\ request # NULL /\ Settled /\ error' = TRUE
  /\ UNCHANGED <<status, poll, visible, view, debounce, retry, lost, stray, aborted, data, acted>>

\* A replica that is being swapped is asked once more; a retry armed before by
\* the request of an earlier view stays armed, and nothing holds it.
Busy ==
  /\ request # NULL
  /\ IF request.again
       THEN /\ retry' = TRUE /\ lost' = lost + (IF retry THEN 1 ELSE 0)
            /\ request' = NULL /\ UNCHANGED <<loading, error, stuck>>
       ELSE Settled /\ error' = TRUE /\ UNCHANGED <<retry, lost>>
  /\ UNCHANGED <<status, poll, visible, view, debounce, stray, aborted, data, acted>>

\* Mutant: the answer to a request that was given up is drawn.
AbortedIsDrawn(r) ==
  /\ aborted' = aborted \ {r}
  /\ data' = [view |-> r.view, kinds |-> r.kinds]
  /\ UNCHANGED <<status, poll, visible, view, debounce, retry, lost, stray, request, loading, error, stuck, acted>>

AbortedEnds(r) ==
  /\ aborted' = aborted \ {r}
  /\ UNCHANGED <<status, poll, visible, view, debounce, retry, lost, stray, request, data, loading, error, stuck, acted>>

-----------------------------------------------------------------------------
Loads == DebounceFires \/ RetryFires \/ LostFires
Ends  == Answered \/ Fails \/ Busy

Next ==
  \/ StatusAnswered \/ StatusFails \/ PollAgain \/ Leave
  \/ Move \/ \E k \in Kinds : Toggle(k)
  \/ Loads \/ StrayFires \/ Ends \/ \E r \in aborted : AbortedEnds(r)

Spec == Init /\ [][Next]_mapVars

\* Timers fire and requests end.
FairSpec == Spec /\ WF_mapVars(Loads \/ StrayFires) /\ WF_mapVars(Ends)

-----------------------------------------------------------------------------
\* What is drawn is of the kinds now asked for when it comes, and never of an
\* earlier view than what it replaces (load's disposed and aborted).
NewerIsDrawn ==
  [][data' # data /\ data' # NULL =>
       /\ data'.kinds = visible
       /\ data # NULL => data.view <= data'.view]_mapVars

\* A spinner that turns has a request or a timer that will end it, unless a
\* disposed effect set it.
SpinnerIsHonest == Live /\ loading => request # NULL \/ debounce \/ retry \/ lost > 0 \/ stuck

\* Left alone, the map shows what is in view or an error: a busy replica, a
\* lost retry or a burst of moves leaves no older view behind.
MapSettles ==
  <>[](Live /\ ~stuck => ~loading /\ (error \/ data = [view |-> view, kinds |-> visible]))
=============================================================================
