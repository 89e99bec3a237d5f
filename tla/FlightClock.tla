---------------------------- MODULE FlightClock ----------------------------
(***************************************************************************)
(* Flight time, points and position reports of one flight: what            *)
(* startFlight, writePoint, setPaused, endFlight and resumeFlight of the   *)
(* flight manager do with the wall clock.  Time is counted in ticks; a     *)
(* restart loses the manager's memory and keeps the rows it wrote.         *)
(***************************************************************************)
EXTENDS Integers, Sequences, Functions

CONSTANTS NULL,
          RecordInterval,   \* RECORD_INTERVAL_MS
          MaxCountedGap,    \* MAX_COUNTED_GAP_MS
          ReportInterval,   \* positionReportIntervalMs; 0 when reports are off
          MaxTime,          \* bound: the last tick
          MaxRestarts       \* bound: restarts of the server

VARIABLES
  now,          \* the wall clock
  frozen,       \* whether the simulator is paused, whatever the server believes
  flight,       \* the row: NULL, or [start, points, reports, duration, linked, paused]; duration NULL
                \* while it is open, paused whether it started in a pause (seen by no code)
  memory,       \* the manager: NULL when idle, or [last, active, interrupted, count, window]
  isPaused,     \* the manager's isPaused
  restarts,     \* how often the server restarted
  stopped,      \* ticks of the flight the simulator spent paused (seen by no code)
  unwatched,    \* ticks of the flight no server ran for (seen by no code)
  banked        \* active when the last point was written (seen by no code)

vars == <<now, frozen, flight, memory, isPaused, restarts, stopped, unwatched, banked>>

Open == flight # NULL /\ flight.duration = NULL

-----------------------------------------------------------------------------
(* writePoint, with the report it may file.  f and m are the row and the   *)
(* memory before; the answer is the pair after.                            *)

\* Mutant: a gap that a pause interrupted still counts when it is short.
CountsShort(m, gap) == gap <= MaxCountedGap

Counts(m, gap) == ~m.interrupted /\ gap <= MaxCountedGap

(* maybeFilePositionReport: at most one per window, and fileAcarsMessageOnce *)
(* refuses a window that already has its row.                               *)
Report(f, m) ==
  LET window == (now - f.start) \div ReportInterval
  IN  IF ReportInterval = 0 \/ ~f.linked THEN <<f, m>>
      ELSE IF window < 1 \/ window <= m.window THEN <<f, m>>
      ELSE <<IF window \in Range(f.reports) THEN f ELSE [f EXCEPT !.reports = Append(@, window)],
             [m EXCEPT !.window = window]>>

WritePoint(f, m) ==
  LET gap    == now - m.last
      active == IF m.count > 0 /\ Counts(m, gap) THEN m.active + gap ELSE m.active
  IN  Report([f EXCEPT !.points = Append(@, now)],
             [m EXCEPT !.active = active, !.last = now, !.count = @ + 1, !.interrupted = FALSE])

Record(f, m) ==
  LET written == WritePoint(f, m)
  IN  flight' = written[1] /\ memory' = written[2]

-----------------------------------------------------------------------------
(* The handlers. *)

Init ==
  /\ now = 0 /\ frozen = FALSE /\ flight = NULL /\ memory = NULL /\ isPaused = FALSE
  /\ restarts = 0 /\ stopped = 0 /\ unwatched = 0 /\ banked = 0

(* startFlight: the row, the accumulators and the first point. *)
StartFlight ==
  /\ flight = NULL /\ memory = NULL
  /\ \E linked \in BOOLEAN :
       Record([start |-> now, points |-> <<>>, reports |-> <<>>, duration |-> NULL, linked |-> linked,
               paused |-> frozen],
              [last |-> now, active |-> 0, interrupted |-> FALSE, count |-> 0, window |-> 0])
  /\ banked' = memory'.active
  /\ UNCHANGED <<now, frozen, isPaused, restarts, stopped, unwatched>>

(* onFrame in FLYING: a slewing or paused frame only marks the interruption. *)
Frame ==
  /\ memory # NULL
  /\ \E slewing \in BOOLEAN :
       IF slewing \/ isPaused
       THEN memory' = [memory EXCEPT !.interrupted = TRUE] /\ UNCHANGED <<flight, banked>>
       ELSE now - memory.last >= RecordInterval /\ Record(flight, memory) /\ banked' = memory'.active
  /\ UNCHANGED <<now, frozen, isPaused, restarts, stopped, unwatched>>

(* setPaused from a pause event of the agent. *)
Pause ==
  /\ frozen' = ~frozen
  /\ isPaused' = frozen'
  /\ memory' = IF frozen' /\ memory # NULL THEN [memory EXCEPT !.interrupted = TRUE] ELSE memory
  /\ UNCHANGED <<now, flight, restarts, stopped, unwatched, banked>>

EndFlight ==
  /\ memory # NULL
  /\ LET tail == now - memory.last
     IN  flight' = [flight EXCEPT !.duration = IF Counts(memory, tail) THEN memory.active + tail ELSE memory.active]
  /\ memory' = NULL
  /\ UNCHANGED <<now, frozen, isPaused, restarts, stopped, unwatched, banked>>

(* The process ends and is started again; the agent's last pause is unknown *)
(* to the new one.                                                         *)
Restart ==
  /\ restarts < MaxRestarts /\ Open /\ restarts' = restarts + 1
  /\ memory' = NULL /\ isPaused' = FALSE
  /\ UNCHANGED <<now, frozen, flight, stopped, unwatched, banked>>

(* resumeFlight: the accumulators are rebuilt from the points of the row. *)
CountedGap(gap) == IF gap > 0 /\ gap <= MaxCountedGap THEN gap ELSE 0

Rebuilt(points) ==
  LET total[n \in 0..Len(points)] == IF n < 2 THEN 0 ELSE total[n - 1] + CountedGap(points[n] - points[n - 1])
  IN  total[Len(points)]

ResumeFlight ==
  /\ memory = NULL /\ Open
  /\ Record(flight, [last |-> now, active |-> Rebuilt(flight.points), interrupted |-> TRUE,
                     count |-> Len(flight.points), window |-> 0])
  /\ UNCHANGED <<now, frozen, isPaused, restarts, stopped, unwatched, banked>>

Tick ==
  /\ now < MaxTime /\ now' = now + 1
  /\ stopped' = IF Open /\ frozen THEN stopped + 1 ELSE stopped
  /\ unwatched' = IF Open /\ memory = NULL THEN unwatched + 1 ELSE unwatched
  /\ UNCHANGED <<frozen, flight, memory, isPaused, restarts, banked>>

Next == StartFlight \/ Frame \/ Pause \/ EndFlight \/ Restart \/ ResumeFlight \/ Tick

Spec == Init /\ [][Next]_vars

-----------------------------------------------------------------------------
(* As long as the server that saw the takeoff runs, no tick of a pause that *)
(* began in the flight is flight time, neither in the running total nor in  *)
(* the row; and no flight is longer than the wall clock, restarts or no.    *)
PausesAreNotFlown ==
  flight # NULL =>
    LET counted == IF flight.duration # NULL THEN flight.duration ELSE IF memory # NULL THEN memory.active ELSE 0
    IN  /\ restarts = 0 /\ ~flight.paused => counted + stopped <= now - flight.start
        /\ counted <= now - flight.start

(* A restart takes nothing of the flight time already counted at the last   *)
(* point, and the row of a window is filed once however often the server    *)
(* starts over.                                                             *)
RestartKeepsTheFlight ==
  /\ memory # NULL => memory.active >= banked /\ memory.count = Len(flight.points)
  /\ flight # NULL => IsInjective(flight.reports)
=============================================================================
