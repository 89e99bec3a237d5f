----------------------------- MODULE ReplayClock -----------------------------
(***************************************************************************)
(* The clock of a replay (client/src/hooks/useReplayClock.ts) and what the *)
(* panel around it shows: frames of the browser, the viewer's buttons and  *)
(* slider, a flight that grows while it is watched, and leaving the page.  *)
(* Time is counted in steps of the smallest frame.                         *)
(***************************************************************************)
EXTENDS Integers, FiniteSets, FiniteSetsExt

CONSTANTS NULL,
          MaxFrame,      \* MAX_FRAME_DT_SEC
          LongFrame,     \* bound: the longest a frame may be late
          Speeds,        \* the speeds of the panel
          Durations,     \* bound: lengths a timeline may have
          MaxActions     \* bound: what the viewer does

VARIABLES duration, speed,           \* the options of the hook
          virtual, playing, finished,
          handle, last,              \* handleRef; whether a frame has been seen
          outstanding,               \* frames the browser will still deliver
          shown,                     \* the position the panel shows
          mounted, actions

clockVars == <<duration, speed, virtual, playing, finished, handle, last, outstanding, shown, mounted, actions>>

Init ==
  /\ duration \in Durations /\ speed \in Speeds
  /\ virtual = 0 /\ playing = FALSE /\ finished = FALSE
  /\ handle = NULL /\ last = FALSE /\ outstanding = {}
  /\ shown = 0 /\ mounted = TRUE /\ actions = 0

FreshHandle == Min(1..3 \ (outstanding \cup {handle}))

CancelFrame == outstanding \ {handle}

(* finish(). *)
Finish ==
  /\ virtual' = duration /\ shown' = duration
  /\ playing' = FALSE /\ finished' = TRUE
  /\ outstanding' = CancelFrame /\ handle' = NULL

Viewer == mounted /\ actions < MaxActions /\ actions' = actions + 1

-----------------------------------------------------------------------------
(* What the viewer does. *)

StartPlaying(from) ==
  IF duration <= 0 THEN Finish /\ UNCHANGED last
  ELSE /\ virtual' = from /\ shown' = from /\ finished' = FALSE
       /\ last' = FALSE /\ playing' = TRUE
       /\ \E h \in {FreshHandle} : handle' = h /\ outstanding' = CancelFrame \cup {h}

Play ==
  /\ Viewer /\ ~playing
  /\ StartPlaying(IF finished THEN 0 ELSE virtual)
  /\ UNCHANGED <<duration, speed, mounted>>

Pause ==
  /\ Viewer /\ playing
  /\ outstanding' = CancelFrame /\ handle' = NULL /\ playing' = FALSE /\ shown' = virtual
  /\ UNCHANGED <<duration, speed, virtual, finished, last, mounted>>

(* seekTo and seekBy: the slider, the arrows, Home and End. *)
SeekTo(x) ==
  /\ Viewer
  /\ virtual' = Max({0, Min({x, duration})}) /\ shown' = virtual'
  /\ finished' = (finished /\ virtual' >= duration)
  /\ UNCHANGED <<duration, speed, playing, handle, last, outstanding, mounted>>

(* restart(): the button of a replay that has ended. *)
Restart ==
  /\ Viewer /\ finished /\ ~playing
  /\ StartPlaying(0)
  /\ UNCHANGED <<duration, speed, mounted>>

SetSpeed ==
  /\ Viewer /\ speed' \in Speeds \ {speed}
  /\ UNCHANGED <<duration, virtual, playing, finished, handle, last, outstanding, shown, mounted>>

(* The page fetches the flight again and its timeline is longer. *)
Grow ==
  /\ Viewer /\ duration' \in {d \in Durations : d > duration}
  /\ shown' = virtual
  /\ UNCHANGED <<speed, virtual, playing, finished, handle, last, outstanding, mounted>>

\* Mutant: leaving the page cancels nothing.
UnmountOnly ==
  /\ Viewer /\ mounted' = FALSE
  /\ UNCHANGED <<duration, speed, virtual, playing, finished, handle, last, outstanding, shown>>

Unmount ==
  /\ Viewer /\ mounted' = FALSE
  /\ outstanding' = CancelFrame /\ handle' = NULL
  /\ UNCHANGED <<duration, speed, virtual, playing, finished, last, shown>>

-----------------------------------------------------------------------------
(* A frame, late by any number of steps; the panel repaints few of them.    *)

Counted(late) == IF ~last THEN 0 ELSE Min({late, MaxFrame})

Advance(late) ==
  LET next == virtual + Counted(late) * speed
  IN  IF next >= duration THEN Finish
      ELSE /\ virtual' = next /\ shown' \in {shown, next}
           /\ \E h \in {FreshHandle} : handle' = h /\ outstanding' = (outstanding \ {handle}) \cup {h}
           /\ UNCHANGED <<playing, finished>>

Frame ==
  /\ handle \in outstanding
  /\ IF playing THEN last' = TRUE /\ \E late \in 1..LongFrame : Advance(late)
     ELSE /\ outstanding' = outstanding \ {handle} /\ handle' = NULL
          /\ UNCHANGED <<virtual, playing, finished, last, shown>>
  /\ UNCHANGED <<duration, speed, mounted, actions>>

Next ==
  \/ Play \/ Pause \/ Restart \/ SetSpeed \/ Grow \/ Unmount \/ Frame
  \/ \E x \in {-1, 0, virtual - 1, virtual + 1, duration} : SeekTo(x)

Spec == Init /\ [][Next]_clockVars

\* The browser delivers the frames it was asked for while the page is shown.
FairSpec == Spec /\ WF_clockVars(Frame)

-----------------------------------------------------------------------------
\* A clock that plays has one frame outstanding, the one it would cancel; one
\* that does not, or whose page was left, has none (cancelFrame, play, frame).
OneFrameLoop ==
  /\ outstanding \subseteq {handle} \ {NULL}
  /\ (outstanding # {}) = (playing /\ mounted)

\* A replay that stands still shows where it stands, inside the flight
\* (onTick's reasons in ReplayPanel.applySample).
ReadoutIsThePosition ==
  /\ virtual \in 0..duration
  /\ mounted /\ ~playing => shown = virtual

\* Left alone, a replay comes to its end, however late its frames are.
ReplayEnds == playing /\ mounted ~> (~playing \/ ~mounted)
=============================================================================
