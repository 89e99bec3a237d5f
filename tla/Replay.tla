------------------------------- MODULE Replay -------------------------------
(***************************************************************************)
(* The replay of a flight (client/src/utils/replay.ts and geo.ts): the     *)
(* timeline built from the recorded points, the sample shown at a moment   *)
(* of it, and the way back from a moment of the flight to the timeline.    *)
(* Times are whole seconds, places and readings integers; a sample's       *)
(* reading is <<n, d>>, the fraction n / d.                                *)
(***************************************************************************)
EXTENDS Integers, Sequences, FiniteSets, SequencesExt, FiniteSetsExt

CONSTANTS NULL,
          Gap,         \* GAP_THRESHOLD_SEC
          Collapsed    \* COLLAPSED_GAP_SEC

-----------------------------------------------------------------------------
(* unwrapLonChain: each longitude by whole turns within half a turn of the  *)
(* one before it; unwrapLonChains does so across chains drawn one by one.   *)

Near(lon, before) ==
  LET d == lon - before
  IN  IF d > 180 THEN lon - 360 * ((d - 180 + 359) \div 360)
      ELSE IF d < -180 THEN lon + 360 * ((-180 - d + 359) \div 360)
      ELSE lon

UnwrapLonChain(lons) ==
  LET At[i \in DOMAIN lons] == IF i = 1 THEN lons[1] ELSE Near(lons[i], At[i - 1])
  IN  At

UnwrapLonChains(chains) ==
  LET all      == UnwrapLonChain(FlattenSeq(chains))
      Before(k) == FoldLeft(LAMBDA n, c : n + Len(c), 0, SubSeq(chains, 1, k - 1))
  IN  [k \in DOMAIN chains |-> SubSeq(all, Before(k) + 1, Before(k) + Len(chains[k]))]

-----------------------------------------------------------------------------
(* buildTimeline.  A point is [ts, lat, lon, alt, heading, ground], a field *)
(* NULL when it is no number.                                               *)

Segments(times) ==
  LET real(i)  == times[i + 1] - times[i]
      shown(i) == IF real(i) > Gap THEN Collapsed ELSE real(i)
      Start[i \in DOMAIN times] == IF i = 1 THEN 0 ELSE Start[i - 1] + shown(i - 1)
  IN  [i \in 1..(Len(times) - 1) |->
         [start |-> Start[i], duration |-> shown(i), gap |-> real(i) > Gap, real |-> real(i)]]

\* Points in time order, those without a time or a place left out, and of
\* several at one time the one that was recorded first.
BuildTimeline(points) ==
  LET usable(i) == points[i].ts # NULL /\ points[i].lat # NULL /\ points[i].lon # NULL
      kept  == {i \in DOMAIN points : usable(i) /\ ~\E j \in 1..(i - 1) : usable(j) /\ points[j].ts = points[i].ts}
      order == SetToSortSeq(kept, LAMBDA i, j : points[i].ts < points[j].ts)
      norm  == [k \in DOMAIN order |-> points[order[k]]]
      segs  == Segments([k \in DOMAIN norm |-> norm[k].ts])
  IN  [points |-> norm, lons |-> UnwrapLonChain([k \in DOMAIN norm |-> norm[k].lon]), segments |-> segs,
       duration |-> IF segs = <<>> THEN 0 ELSE Last(segs).start + Last(segs).duration,
       gaps |-> Cardinality({i \in DOMAIN segs : segs[i].gap})]

-----------------------------------------------------------------------------
(* sample. *)

Fin(x) == IF x = NULL THEN 0 ELSE x

Lerp(x, y, f) == <<Fin(x) * f[2] + (Fin(y) - Fin(x)) * f[1], f[2]>>

ClampVirtual(timeline, v) == IF v < 0 THEN 0 ELSE IF v > timeline.duration THEN timeline.duration ELSE v

\* The last segment that starts at or before v.
FindSegment(timeline, v) == Max({1} \cup {i \in DOMAIN timeline.segments : timeline.segments[i].start <= v})

\* The shorter way round, in [-180, 180).
Turn(from, to) == ((to - from + 540) % 360) - 180

Progress(seg, v) ==
  LET done == IF v - seg.start > seg.duration THEN seg.duration ELSE v - seg.start
  IN  IF seg.gap THEN <<IF done >= seg.duration THEN 1 ELSE 0, 1>> ELSE <<done, seg.duration>>

Sample(timeline, virtual) ==
  LET v    == ClampVirtual(timeline, virtual)
      i    == FindSegment(timeline, v)
      seg  == timeline.segments[i]
      f    == Progress(seg, v)
      a    == timeline.points[i]
      b    == timeline.points[i + 1]
      over == f[1] = f[2]
  IN  IF timeline.points = <<>> THEN NULL
      ELSE IF timeline.segments = <<>>
      THEN LET p == timeline.points[1]
           IN  [lat |-> <<p.lat, 1>>, lon |-> <<timeline.lons[1], 1>>, alt |-> <<Fin(p.alt), 1>>,
                heading |-> <<Fin(p.heading) % 360, 1>>, ground |-> p.ground, point |-> 1, inGap |-> FALSE,
                real |-> <<p.ts, 1>>, virtual |-> v]
      ELSE [lat |-> Lerp(a.lat, b.lat, f), lon |-> Lerp(timeline.lons[i], timeline.lons[i + 1], f),
            alt |-> Lerp(a.alt, b.alt, f),
            heading |-> <<(Fin(a.heading) * f[2] + Turn(Fin(a.heading), Fin(b.heading)) * f[1]) % (360 * f[2]), f[2]>>,
            ground |-> IF over THEN b.ground ELSE a.ground, point |-> IF over THEN i + 1 ELSE i,
            inGap |-> seg.gap /\ ~over, real |-> Lerp(a.ts, b.ts, f), virtual |-> v]

RealFromVirtual(timeline, v) == Sample(timeline, v).real

(* virtualFromRealMs: NULL outside the flight, the start of a gap inside it. *)
VirtualFromReal(timeline, real) ==
  LET n   == Len(timeline.points)
      at  == Max({1} \cup {k \in DOMAIN timeline.segments : timeline.points[k].ts <= real})
      seg == timeline.segments[at]
  IN  IF n = 0 THEN NULL
      ELSE IF real < timeline.points[1].ts \/ real > timeline.points[n].ts THEN NULL
      ELSE IF n = 1 THEN 0
      ELSE seg.start + IF seg.gap THEN 0 ELSE real - timeline.points[at].ts

-----------------------------------------------------------------------------
(* What the replay shows was recorded: it runs from the first point to the  *)
(* last and never back, stands on every point it passes, stays between the  *)
(* two points it is between and on the first of them across a gap, turns    *)
(* the short way, and never jumps across the map at the dateline.           *)
AtMost(p, q) == p[1] * q[2] <= q[1] * p[2]

Between(x, p, y) == \/ AtMost(<<Fin(x), 1>>, p) /\ AtMost(p, <<Fin(y), 1>>)
                    \/ AtMost(<<Fin(y), 1>>, p) /\ AtMost(p, <<Fin(x), 1>>)

ReplayFollowsTheFlight(points) ==
  LET timeline == BuildTimeline(points)
      At(v)    == Sample(timeline, v)
      n        == Len(timeline.points)
      times    == {points[i].ts : i \in {j \in DOMAIN points : points[j].lat # NULL /\ points[j].lon # NULL}} \ {NULL}
  IN  /\ n = Cardinality(times)
      /\ n > 0 => At(-1).real[1] = Min(times) * At(-1).real[2] /\ At(timeline.duration + 1).point = n
      /\ n > 0 => At(timeline.duration).real[1] = Max(times) * At(timeline.duration).real[2]
      /\ n > 1 => \A v \in 0..timeline.duration :
           LET s == At(v)
               i == FindSegment(timeline, v)
               a == timeline.points[i]
               b == timeline.points[i + 1]
           IN  /\ v > 0 => AtMost(At(v - 1).real, s.real)
               /\ Between(a.alt, s.alt, b.alt) /\ Between(a.lat, s.lat, b.lat)
               /\ s.inGap => s.lat = <<a.lat, 1>> /\ s.real = <<a.ts, 1>> /\ b.ts - a.ts > Gap
               /\ LET off == (s.heading[1] - Fin(a.heading) * s.heading[2] + 900 * s.heading[2]) % (360 * s.heading[2])
                      way == Turn(Fin(a.heading), Fin(b.heading))
                  IN  (off - 180 * s.heading[2]) * (off - 180 * s.heading[2]) <= way * way * s.heading[2] * s.heading[2]
               /\ s.real[1] % s.real[2] = 0 =>
                    VirtualFromReal(timeline, s.real[1] \div s.real[2]) = IF timeline.segments[i].gap THEN timeline.segments[i].start ELSE v
      /\ \A k \in 1..(n - 1) : timeline.lons[k + 1] - timeline.lons[k] \in -180..180
      /\ \A k \in DOMAIN timeline.lons : (timeline.lons[k] - timeline.points[k].lon) % 360 = 0

(* Chains drawn one by one lie on the map as the one route they are: every  *)
(* place is itself by whole turns, and nothing is half a turn from what     *)
(* comes before it, in its own chain or in the one before.                  *)
ChainsMakeOneRoute(chains) ==
  LET out == UnwrapLonChains(chains)
      all == FlattenSeq(out)
  IN  /\ \A k \in DOMAIN chains : Len(out[k]) = Len(chains[k])
      /\ \A i \in DOMAIN all : (all[i] - FlattenSeq(chains)[i]) % 360 = 0
      /\ \A i \in 1..(Len(all) - 1) : all[i + 1] - all[i] \in -180..180
=============================================================================
