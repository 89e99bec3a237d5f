------------------------------ MODULE Traffic ------------------------------
(***************************************************************************)
(* The other aircraft around the user's: how the ingest router reads a     *)
(* batch, which of it the TrafficStore keeps, and for how long it is shown.*)
(* Angles and places are integers; one stands for whichever unit the code  *)
(* rounds to.                                                              *)
(***************************************************************************)
EXTENDS Integers, Sequences, FiniteSets, SequencesExt

CONSTANTS NULL,
          MaxBatch,      \* MAX_BATCH_OBJECTS
          MaxRetained,   \* MAX_RETAINED_OBJECTS
          Stale          \* TRAFFIC_STALE_MS

(* isValidTrafficElement; a field is a number, or NULL when it is not one. *)
Valid(o) ==
  /\ o.id # NULL /\ o.id >= 0
  /\ o.lat # NULL /\ o.lat \in -90..90
  /\ o.lon # NULL /\ o.lon \in -180..180
  /\ o.altitude # NULL /\ o.heading # NULL

(* normHeading, in tenths of a degree. *)
NormHeading(tenths) == ((tenths % 3600) + 3600) % 3600

Normalized(o) == [id |-> o.id, lat |-> o.lat, lon |-> o.lon, altitude |-> o.altitude,
                  heading |-> NormHeading(o.heading), onGround |-> o.onGround = "true"]

(* buildTrafficObjects: one object per id, where the id first came and as   *)
(* it last came; NULL when any of the batch is wrong.                       *)
Built(batch) ==
  LET Put(list, o) ==
        LET i == SelectInSeq(list, LAMBDA p : p.id = o.id)
        IN  IF i = 0 THEN Append(list, Normalized(o)) ELSE [list EXCEPT ![i] = Normalized(o)]
  IN  IF Len(batch) > MaxBatch \/ \E i \in DOMAIN batch : ~Valid(batch[i]) THEN NULL
      ELSE FoldLeft(Put, <<>>, batch)

(* distanceM, of which only the order is used. *)
Distance(p, q) ==
  LET abs(n) == IF n < 0 THEN -n ELSE n
  IN  abs(p.lat - q.lat) + abs(p.lon - q.lon)

(* applyRetentionCap: the nearest to the user's aircraft, ties by id; the   *)
(* first of the batch when no frame has come yet.                           *)
Retained(objects, frame) ==
  LET Nearer(a, b) == \/ Distance(frame, a) < Distance(frame, b)
                      \/ Distance(frame, a) = Distance(frame, b) /\ a.id < b.id
  IN  IF Len(objects) <= MaxRetained THEN objects
      ELSE SubSeq(IF frame = NULL THEN objects ELSE SortSeq(objects, Nearer), 1, MaxRetained)

(* The store: replaced whole, emptied by the first read that finds it old. *)
Replace(objects, at) == [objects |-> objects, receivedAt |-> at]

(* POST /traffic: a switched-off channel takes the batch and drops it, a    *)
(* wrong one is refused, and neither touches what is stored.                *)
Post(store, enabled, batch, frame, at) ==
  IF ~enabled THEN [status |-> 204, store |-> store]
  ELSE IF Built(batch) = NULL THEN [status |-> 400, store |-> store]
  ELSE [status |-> 204, store |-> Replace(Retained(Built(batch), frame), at)]

Read(store, at) == IF store.objects # <<>> /\ at - store.receivedAt > Stale THEN [store EXCEPT !.objects = <<>>]
                   ELSE store

(* A batch with one wrong object changes nothing; an accepted one shows each aircraft once, as the batch last described  *)
(* it, leaves out none that is nearer than one it shows, and is shown up to *)
(* and including the moment it is Stale ticks old, but not after.           *)
TrafficAsSent(batch, frame, age) ==
  LET built == Built(batch)
      empty == Replace(<<>>, 0)
      kept  == Post(empty, TRUE, batch, frame, 1).store.objects
      shown == Read(Post(empty, TRUE, batch, frame, 1).store, 1 + age).objects
      ids   == {batch[i].id : i \in DOMAIN batch}
      LastOf(id) == Normalized(batch[SelectLastInSeq(batch, LAMBDA o : o.id = id)])
  IN  IF built = NULL THEN Post(empty, TRUE, batch, frame, 1) = [status |-> 400, store |-> empty]
      ELSE
        /\ {kept[i].id : i \in DOMAIN kept} \subseteq ids /\ IsInjective([i \in DOMAIN kept |-> kept[i].id])
        /\ \A i \in DOMAIN kept : kept[i] = LastOf(kept[i].id)
        /\ Len(kept) = IF Cardinality(ids) < MaxRetained THEN Cardinality(ids) ELSE MaxRetained
        /\ frame # NULL => \A id \in ids \ {kept[i].id : i \in DOMAIN kept} :
             \A i \in DOMAIN kept : Distance(frame, kept[i]) <= Distance(frame, LastOf(id))
        /\ shown = IF age <= Stale THEN kept ELSE <<>>
=============================================================================
