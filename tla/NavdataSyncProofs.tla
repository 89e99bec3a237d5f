------------------------- MODULE NavdataSyncProofs -------------------------
(***************************************************************************)
(* Proofs about NavdataSync, for any rows, revisions, bulk extractions,    *)
(* uploads and deaths, whenever clients leave: the hold always has an      *)
(* owner; an import is held against batches unless a client left between   *)
(* its last byte and the handler; and the replica lacks no acknowledged    *)
(* row unless it was swapped in by an import so exposed.                   *)
(***************************************************************************)
EXTENDS NavdataSync, TLAPS

----------------------------------------------------------------------------
(* The inductive invariant behind them.                                    *)

\* Nothing is of a bulk extraction that is still to come, and no revision is
\* ahead of the sidecar's.
RevsKnown ==
  /\ \A r \in Rows : store[r] <= head
  /\ acked # NULL => acked <= head
  /\ batch # NULL =>
       /\ batch.snapshotId <= epoch
       /\ batch.snapshotId = epoch => batch.fromRev <= batch.toRev /\ batch.toRev <= head
  /\ disk # NULL =>
       /\ disk.snapshotId <= epoch
       /\ disk.snapshotId = epoch => disk.rev <= head

\* The snapshots on their way are the sidecar's, and cover its rows up to
\* their revision.
SnapshotsKnown ==
  \A u \in Uploads : ~InPhase(u, "none") =>
    /\ upload[u].snapshot \in Snapshot
    /\ upload[u].snapshot.snapshotId <= epoch
    /\ upload[u].snapshot.snapshotId = epoch =>
         /\ upload[u].snapshot.rev <= head
         /\ \A r \in Rows : store[r] <= upload[u].snapshot.rev => upload[u].snapshot.rows[r] = store[r]

\* An upload holds the replica from its first byte, and alone, unless a client
\* left early.
OneUpload ==
  ~exposed => \A u \in Uploads : ~InPhase(u, "none") =>
    importing /\ \A v \in Uploads \ {u} : InPhase(v, "none")

\* So nothing beyond its snapshot was acknowledged since it began.
Covers(snapshot) ==
  /\ acked # NULL => acked <= snapshot.rev
  /\ batch # NULL /\ batch.snapshotId = epoch => batch.fromRev <= snapshot.rev

SnapshotsCover ==
  ~exposed => \A u \in Uploads :
    ~InPhase(u, "none") /\ upload[u].snapshot.snapshotId = epoch => Covers(upload[u].snapshot)

\* A row of the batch under way is the sidecar's, or the sidecar's has
\* changed since beyond every revision that anyone holds.
Overtaken(r) ==
  /\ store[r] > batch.toRev
  /\ acked # NULL => store[r] > acked
  /\ disk # NULL /\ disk.snapshotId = epoch => store[r] > disk.rev
  /\ \A u \in Uploads : ~InPhase(u, "none") /\ upload[u].snapshot.snapshotId = epoch =>
       store[r] > upload[u].snapshot.rev

BatchFits ==
  batch # NULL /\ batch.snapshotId = epoch =>
    \A r \in Rows :
      /\ store[r] \in (batch.fromRev + 1)..batch.toRev => batch.rows[r] = store[r]
      /\ batch.rows[r] # 0 => batch.rows[r] = store[r] \/ Overtaken(r)

\* The replica has the rows the batch does not repeat.
BatchFollows ==
  ~tainted /\ batch # NULL /\ batch.snapshotId = epoch /\ disk # NULL /\ disk.snapshotId = epoch =>
    \A r \in Rows : store[r] <= batch.fromRev => disk.rows[r] = store[r]

SyncInvariant ==
  /\ TypeOK /\ RevsKnown /\ SnapshotsKnown /\ OneUpload /\ SnapshotsCover
  /\ BatchFits /\ BatchFollows /\ ReplicaHasNoHoles /\ HoldHasOwner

USE DEF InPhase, Revs

\* It holds of an empty replica and a sidecar that sent nothing.
LEMMA InvariantInit == Init => SyncInvariant
<1> SUFFICES ASSUME Init PROVE SyncInvariant
  OBVIOUS
<1> USE DEF Init
<1>1. TypeOK
  <2>1. upload \in [Uploads -> [phase : Phases, gone : BOOLEAN, snapshot : Snapshot \cup {NULL}]]
    BY DEF NoUpload, Phases
  <2>2. epoch \in 1..MaxEpoch /\ head \in Revs /\ store \in Store /\ kills \in 0..MaxKill
    BY BoundAssumption DEF Everything, Store
  <2>3. QED BY <2>1, <2>2 DEF TypeOK
<1>2. RevsKnown /\ BatchFits /\ BatchFollows /\ ReplicaHasNoHoles
  BY DEF RevsKnown, BatchFits, BatchFollows, ReplicaHasNoHoles, NoHoles, Everything
<1>3. SnapshotsKnown /\ OneUpload /\ SnapshotsCover /\ HoldHasOwner
  BY DEF SnapshotsKnown, OneUpload, SnapshotsCover, HoldHasOwner, NoUpload
<1>4. QED BY <1>1, <1>2, <1>3 DEF SyncInvariant

----------------------------------------------------------------------------
(* The sidecar.                                                            *)

\* A changed row takes a revision no batch carries.
LEMMA RowChangesKeeps ==
  ASSUME SyncInvariant, NEW r \in Rows, RowChanges(r)
  PROVE  SyncInvariant'
<1> USE DEF SyncInvariant, RowChanges, history
<1>1. TypeOK'
  BY BoundAssumption DEF TypeOK, Store
<1>2. \A q \in Rows : store'[q] = IF q = r THEN head + 1 ELSE store[q]
  BY DEF TypeOK, Store
<1>3. RevsKnown'
  BY <1>2 DEF TypeOK, RevsKnown, Store, Batch, Snapshot
<1>4. OneUpload' /\ HoldHasOwner'
  BY DEF OneUpload, HoldHasOwner
<1>5. SnapshotsKnown' /\ SnapshotsCover'
  BY <1>2 DEF TypeOK, SnapshotsKnown, SnapshotsCover, Covers, Store, Snapshot
<1>6. BatchFits'
  BY <1>2 DEF TypeOK, BatchFits, Overtaken, RevsKnown, SnapshotsKnown, Store, Batch, Snapshot
<1>7. BatchFollows' /\ ReplicaHasNoHoles'
  BY <1>2 DEF TypeOK, BatchFollows, ReplicaHasNoHoles, NoHoles, RevsKnown, Store, Batch, Snapshot
<1>8. QED BY <1>1, <1>3, <1>4, <1>5, <1>6, <1>7

\* A new epoch leaves all the server holds to an older one.
LEMMA NewEpochKeeps ==
  ASSUME SyncInvariant, NewEpoch
  PROVE  SyncInvariant'
<1> USE DEF SyncInvariant, NewEpoch, history
<1>1. TypeOK'
  BY BoundAssumption DEF TypeOK, Store, Everything, Nothing
<1>2. RevsKnown'
  BY DEF TypeOK, RevsKnown, Store, Batch, Snapshot, Everything, Nothing
<1>3. OneUpload' /\ HoldHasOwner'
  BY DEF OneUpload, HoldHasOwner
<1>4. SnapshotsKnown' /\ SnapshotsCover'
  BY DEF TypeOK, SnapshotsKnown, SnapshotsCover, Snapshot
<1>5. BatchFits' /\ BatchFollows'
  BY DEF TypeOK, BatchFits, BatchFollows, RevsKnown, Batch
<1>6. ReplicaHasNoHoles'
  BY DEF TypeOK, ReplicaHasNoHoles, NoHoles, RevsKnown, Snapshot
<1>7. QED BY <1>1, <1>2, <1>3, <1>4, <1>5, <1>6

\* A batch in flight carries rows of its own epoch.
LEMMA SendBatchKeeps ==
  ASSUME SyncInvariant, SendBatch
  PROVE  SyncInvariant'
<1> USE DEF SyncInvariant, history
<1>1. PICK to \in (acked + 1)..head :
        batch' = [snapshotId |-> epoch, fromRev |-> acked, toRev |-> to,
                  rows |-> [r \in Rows |-> IF store[r] \in (acked + 1)..to THEN store[r] ELSE 0]]
  BY DEF SendBatch
<1>2. /\ batch = NULL /\ acked # NULL /\ acked \in Nat
      /\ UNCHANGED <<sidecar, acked, disk, isOpen, importing, upload, kills, history>>
  BY DEF SendBatch, TypeOK
<1>3. batch' \in Batch
  BY <1>1, <1>2, BoundAssumption DEF TypeOK, Batch, Store
<1>4. TypeOK'
  BY <1>2, <1>3 DEF TypeOK, sidecar
<1>5. RevsKnown'
  BY <1>1, <1>2 DEF RevsKnown, sidecar, TypeOK
<1>6. OneUpload' /\ HoldHasOwner' /\ ReplicaHasNoHoles' /\ SnapshotsKnown'
  BY <1>2 DEF OneUpload, HoldHasOwner, ReplicaHasNoHoles, NoHoles, SnapshotsKnown, sidecar
<1>7. SnapshotsCover'
  BY <1>1, <1>2 DEF SnapshotsCover, Covers, sidecar
<1>8. BatchFits' /\ BatchFollows'
  BY <1>1, <1>2 DEF BatchFits, BatchFollows, ReplicaHasNoHoles, NoHoles, TypeOK, Store, sidecar
<1>9. QED BY <1>4, <1>5, <1>6, <1>7, <1>8

\* The batch is gone and nothing was applied; what was acknowledged may be
\* forgotten.
LEMMA BatchGoneKeeps ==
  ASSUME SyncInvariant, batch' = NULL, acked' \in {acked, NULL},
         UNCHANGED <<sidecar, disk, isOpen, importing, upload, kills, history>>
  PROVE  SyncInvariant'
BY DEF SyncInvariant, TypeOK, RevsKnown, SnapshotsKnown, OneUpload, SnapshotsCover, Covers, BatchFits,
       BatchFollows, ReplicaHasNoHoles, NoHoles, HoldHasOwner, sidecar, history

----------------------------------------------------------------------------
(* A batch.                                                                *)

\* Applying a batch leaves no hole below the replica's revision.
LEMMA BatchAppliedKeeps ==
  ASSUME SyncInvariant, BatchApplied
  PROVE  SyncInvariant'
<1> USE DEF SyncInvariant, history
<1>1. /\ batch # NULL /\ batch \in Batch /\ ~importing /\ disk # NULL /\ disk \in Snapshot
      /\ disk.snapshotId = batch.snapshotId
      /\ batch' = NULL
      /\ UNCHANGED <<sidecar, isOpen, importing, upload, kills, history>>
  BY DEF BatchApplied, RowsRefused, TypeOK
<1>2. disk' = [snapshotId |-> batch.snapshotId, rev |-> batch.toRev, rows |-> Merged(disk.rows, batch.rows)]
  BY <1>1 DEF BatchApplied, Snapshot
<1>3. disk' \in Snapshot
  BY <1>1, <1>2 DEF Snapshot, Batch, Merged, Store
<1>4. acked' \in {acked, batch.toRev} /\ (batch.snapshotId # epoch => acked' = acked)
  BY DEF BatchApplied, Acknowledged
<1>5. TypeOK'
  <2>1. acked' \in Nat \cup {NULL} /\ (acked' = acked \/ acked' \in Revs)
    BY <1>1, <1>4 DEF TypeOK, Batch
  <2>2. disk' # NULL
    BY <1>3, NullAssumption
  <2>3. QED BY <1>1, <1>3, <2>1, <2>2 DEF TypeOK, sidecar
<1>6. ~exposed => \A u \in Uploads : InPhase(u, "none")
  BY <1>1 DEF OneUpload
<1>7. OneUpload' /\ HoldHasOwner' /\ SnapshotsKnown' /\ SnapshotsCover'
  BY <1>1, <1>6 DEF OneUpload, HoldHasOwner, SnapshotsKnown, SnapshotsCover, sidecar
<1>8. BatchFits' /\ BatchFollows'
  BY <1>1 DEF BatchFits, BatchFollows
<1>9. RevsKnown'
  BY <1>1, <1>2, <1>4 DEF RevsKnown, sidecar
<1>10. ReplicaHasNoHoles'
  <2> SUFFICES ASSUME ~tainted, disk'.snapshotId = epoch', NEW r \in Rows,
                      store'[r] <= disk'.rev \/ (acked' # NULL /\ store'[r] <= acked')
               PROVE  disk'.rows[r] = store'[r]
    BY <1>1 DEF ReplicaHasNoHoles, NoHoles
  <2>1. batch.snapshotId = epoch /\ disk.snapshotId = epoch /\ store' = store
    BY <1>1, <1>2 DEF sidecar
  <2>2. store[r] \in Nat /\ batch.fromRev \in Nat /\ batch.toRev \in Nat
    BY <1>1 DEF TypeOK, Store, Batch
  <2>3. disk'.rows[r] = IF batch.rows[r] # 0 THEN batch.rows[r] ELSE disk.rows[r]
    BY <1>2 DEF Merged
  <2>4. store[r] <= batch.toRev \/ (acked # NULL /\ store[r] <= acked)
    BY <1>2, <1>4, <2>1
  <2>5. CASE batch.rows[r] # 0
    <3>1. batch.rows[r] = store[r] \/ Overtaken(r)
      BY <1>1, <2>1, <2>5 DEF BatchFits
    <3>2. ~Overtaken(r)
      BY <1>1, <2>2, <2>4 DEF Overtaken, TypeOK
    <3>3. QED BY <2>1, <2>3, <2>5, <3>1, <3>2
  <2>6. CASE batch.rows[r] = 0
    <3>1. store[r] \notin (batch.fromRev + 1)..batch.toRev
      <4>1. store[r] \in (batch.fromRev + 1)..batch.toRev => batch.rows[r] = store[r]
        BY <1>1, <2>1 DEF BatchFits
      <4>2. QED BY <2>2, <2>6, <4>1
    <3>2. store[r] <= batch.fromRev => disk.rows[r] = store[r]
      BY <1>1, <2>1 DEF BatchFollows
    <3>3. acked # NULL /\ store[r] <= acked => disk.rows[r] = store[r]
      BY <1>1, <2>1 DEF ReplicaHasNoHoles, NoHoles
    <3>4. QED BY <2>1, <2>2, <2>3, <2>4, <2>6, <3>1, <3>2, <3>3
  <2>7. QED BY <2>5, <2>6
<1>11. QED BY <1>5, <1>7, <1>8, <1>9, <1>10

----------------------------------------------------------------------------
(* Uploads.                                                                *)

\* An upload begins by taking the hold.
LEMMA UploadBeginsKeeps ==
  ASSUME SyncInvariant, NEW u \in Uploads, UploadBegins(u)
  PROVE  SyncInvariant'
<1> USE DEF SyncInvariant, history
<1> DEFINE s == [snapshotId |-> epoch, rev |-> head, rows |-> store]
<1>1. /\ ~exposed => \A v \in Uploads : InPhase(v, "none")
      /\ batch = NULL /\ importing' = TRUE
      /\ UNCHANGED <<sidecar, acked, batch, disk, isOpen, kills, history>>
  BY DEF UploadBegins, OneUpload
<1>2. s \in Snapshot
  BY DEF TypeOK, Snapshot
<1>3. /\ upload'[u] = [phase |-> "receiving", gone |-> FALSE, snapshot |-> s]
      /\ \A v \in Uploads \ {u} : upload'[v] = upload[v]
  BY DEF UploadBegins, TypeOK
<1>4. TypeOK'
  <2>1. upload' \in [Uploads -> [phase : Phases, gone : BOOLEAN, snapshot : Snapshot \cup {NULL}]]
    BY <1>2 DEF UploadBegins, TypeOK, Phases
  <2>2. QED BY <1>1, <2>1 DEF TypeOK, sidecar
<1>5. RevsKnown' /\ ReplicaHasNoHoles'
  BY <1>1 DEF RevsKnown, ReplicaHasNoHoles, NoHoles, sidecar
<1>6. OneUpload' /\ HoldHasOwner'
  BY <1>1, <1>3 DEF OneUpload, HoldHasOwner
<1>7. SnapshotsKnown'
  BY <1>1, <1>2, <1>3 DEF SnapshotsKnown, sidecar, TypeOK
<1>8. SnapshotsCover'
  <2> SUFFICES ASSUME ~exposed', NEW v \in Uploads, ~InPhase(v, "none")'
               PROVE  Covers(upload[v].snapshot)'
    BY DEF SnapshotsCover
  <2>1. v = u
    BY <1>1, <1>3
  <2>2. upload'[v].snapshot.rev = head
    BY <1>3, <2>1
  <2>3. QED BY <1>1, <2>2 DEF Covers, RevsKnown
<1>9. BatchFits' /\ BatchFollows'
  BY <1>1 DEF BatchFits, BatchFollows
<1>10. QED BY <1>4, <1>5, <1>6, <1>7, <1>8, <1>9

\* An upload under way moves on with its snapshot, and the hold is given back
\* only to an early departure.
LEMMA UploadMovesKeeps ==
  ASSUME SyncInvariant,
         upload' \in [Uploads -> [phase : Phases, gone : BOOLEAN, snapshot : Snapshot \cup {NULL}]],
         \A v \in Uploads : /\ upload'[v].snapshot = upload[v].snapshot
                            /\ InPhase(v, "none")' <=> InPhase(v, "none"),
         UNCHANGED <<importing, exposed>> \/ (importing' = FALSE /\ exposed' = TRUE),
         UNCHANGED <<sidecar, acked, batch, disk, isOpen, kills, tainted>>
  PROVE  SyncInvariant'
<1> USE DEF SyncInvariant
<1>1. TypeOK'
  BY DEF TypeOK, sidecar
<1>2. OneUpload' /\ HoldHasOwner'
  BY DEF OneUpload, HoldHasOwner
<1>3. SnapshotsKnown' /\ SnapshotsCover'
  BY DEF SnapshotsKnown, SnapshotsCover, Covers, sidecar
<1>4. BatchFits' /\ BatchFollows'
  BY DEF BatchFits, BatchFollows, Overtaken, sidecar
<1>5. RevsKnown' /\ ReplicaHasNoHoles'
  BY DEF RevsKnown, ReplicaHasNoHoles, NoHoles, sidecar
<1>6. QED BY <1>1, <1>2, <1>3, <1>4, <1>5

\* When an upload ends and no client had left early, none is left under way;
\* else those that are left stay exposed.
LEMMA UploadEnded ==
  ASSUME SyncInvariant, NEW u \in Uploads, ~InPhase(u, "none"),
         upload' = [upload EXCEPT ![u] = NoUpload], StillExposed
  PROVE  /\ upload' \in [Uploads -> [phase : Phases, gone : BOOLEAN, snapshot : Snapshot \cup {NULL}]]
         /\ exposed' \in BOOLEAN
         /\ \A v \in Uploads : ~InPhase(v, "none")' => v # u /\ upload'[v] = upload[v]
         /\ ~exposed' => \A v \in Uploads : InPhase(v, "none")'
<1> USE DEF SyncInvariant
<1>1. upload' \in [Uploads -> [phase : Phases, gone : BOOLEAN, snapshot : Snapshot \cup {NULL}]]
  BY DEF TypeOK, NoUpload, Phases
<1>2. \A v \in Uploads : ~InPhase(v, "none")' => v # u /\ upload'[v] = upload[v]
  BY DEF TypeOK, NoUpload
<1>3. ASSUME ~exposed PROVE \A v \in Uploads : InPhase(v, "none")'
  BY <1>2, <1>3 DEF OneUpload
<1>4. exposed' = (exposed /\ \E v \in Uploads : ~InPhase(v, "none")')
  BY DEF StillExposed
<1>5. exposed' \in BOOLEAN
  BY <1>4 DEF TypeOK
<1>6. ~exposed' => \A v \in Uploads : InPhase(v, "none")'
  BY <1>3, <1>4
<1>7. QED BY <1>1, <1>2, <1>5, <1>6

\* An upload ends without a trace and lets the replica go; a failed swap
\* closes the handle, too.
LEMMA UploadGivenUpKeeps ==
  ASSUME SyncInvariant, NEW u \in Uploads, ~InPhase(u, "none"),
         upload' = [upload EXCEPT ![u] = NoUpload], importing' = FALSE, StillExposed,
         isOpen' \in {isOpen, FALSE},
         UNCHANGED <<sidecar, acked, batch, disk, kills, tainted>>
  PROVE  SyncInvariant'
<1> USE DEF SyncInvariant
<1>1. /\ upload' \in [Uploads -> [phase : Phases, gone : BOOLEAN, snapshot : Snapshot \cup {NULL}]]
      /\ exposed' \in BOOLEAN
      /\ \A v \in Uploads : ~InPhase(v, "none")' => upload'[v] = upload[v]
      /\ ~exposed' => \A v \in Uploads : InPhase(v, "none")'
  BY UploadEnded
<1>2. TypeOK'
  <2>1. CASE isOpen' = isOpen
    BY <1>1, <2>1 DEF TypeOK, sidecar
  <2>2. CASE isOpen' = FALSE
    BY <1>1, <2>2 DEF TypeOK, sidecar
  <2>3. QED BY <2>1, <2>2
<1>3. OneUpload' /\ HoldHasOwner' /\ SnapshotsCover'
  BY <1>1 DEF OneUpload, HoldHasOwner, SnapshotsCover
<1>4. SnapshotsKnown'
  BY <1>1 DEF SnapshotsKnown, sidecar
<1>5. BatchFits' /\ BatchFollows'
  BY <1>1 DEF BatchFits, BatchFollows, Overtaken, sidecar
<1>6. RevsKnown' /\ ReplicaHasNoHoles'
  BY DEF RevsKnown, ReplicaHasNoHoles, NoHoles, sidecar
<1>7. QED BY <1>2, <1>3, <1>4, <1>5, <1>6

\* The import ends with the uploaded snapshot as the replica.
LEMMA ImportDoneKeeps ==
  ASSUME SyncInvariant, NEW u \in Uploads, ImportDone(u)
  PROVE  SyncInvariant'
<1> USE DEF SyncInvariant
<1> DEFINE s == upload[u].snapshot
<1>1. /\ ~InPhase(u, "none") /\ disk' = s /\ importing' = FALSE
      /\ upload' = [upload EXCEPT ![u] = NoUpload]
      /\ StillExposed /\ tainted' = exposed
      /\ UNCHANGED <<sidecar, batch, kills>>
  BY DEF ImportDone
<1>2. acked' \in {acked, s.rev} /\ (s.snapshotId # epoch => acked' = acked)
  BY DEF ImportDone, Acknowledged
<1>3. /\ s \in Snapshot /\ s # NULL /\ s.snapshotId <= epoch
      /\ s.snapshotId = epoch =>
           s.rev <= head /\ \A r \in Rows : store[r] <= s.rev => s.rows[r] = store[r]
  BY <1>1, NullAssumption DEF SnapshotsKnown
<1>4. ~exposed /\ s.snapshotId = epoch => Covers(s)
  BY <1>1 DEF SnapshotsCover
<1>5. /\ upload' \in [Uploads -> [phase : Phases, gone : BOOLEAN, snapshot : Snapshot \cup {NULL}]]
      /\ exposed' \in BOOLEAN
      /\ \A v \in Uploads : ~InPhase(v, "none")' => upload'[v] = upload[v]
      /\ ~exposed' => \A v \in Uploads : InPhase(v, "none")'
  BY <1>1, UploadEnded
<1>6. TypeOK'
  <2>1. acked' \in Revs \cup {NULL}
    BY <1>2, <1>3 DEF TypeOK, Snapshot
  <2>2. isOpen' = TRUE
    BY DEF ImportDone
  <2>3. QED BY <1>1, <1>3, <1>5, <2>1, <2>2 DEF TypeOK, sidecar
<1>7. OneUpload' /\ HoldHasOwner' /\ SnapshotsCover'
  BY <1>1, <1>5 DEF OneUpload, HoldHasOwner, SnapshotsCover
<1>8. SnapshotsKnown'
  BY <1>1, <1>5 DEF SnapshotsKnown, sidecar
<1>9. RevsKnown'
  BY <1>1, <1>2, <1>3 DEF RevsKnown, sidecar, TypeOK
<1>10. BatchFits'
  <2> SUFFICES ASSUME batch # NULL, batch.snapshotId = epoch, NEW r \in Rows
               PROVE  /\ store[r] \in (batch.fromRev + 1)..batch.toRev => batch.rows[r] = store[r]
                      /\ batch.rows[r] # 0 => batch.rows[r] = store[r] \/ Overtaken(r)'
    BY <1>1 DEF BatchFits, sidecar
  <2>1. store[r] \in (batch.fromRev + 1)..batch.toRev => batch.rows[r] = store[r]
    BY DEF BatchFits
  <2>2. ASSUME Overtaken(r) PROVE Overtaken(r)'
    BY <1>1, <1>2, <1>5, <2>2 DEF Overtaken, sidecar
  <2>3. batch.rows[r] # 0 => batch.rows[r] = store[r] \/ Overtaken(r)
    BY DEF BatchFits
  <2>4. QED BY <2>1, <2>2, <2>3
<1>11. BatchFollows'
  BY <1>1, <1>3, <1>4 DEF BatchFollows, Covers, sidecar, TypeOK, Store, Batch, Snapshot
<1>12. ReplicaHasNoHoles'
  BY <1>1, <1>2, <1>3, <1>4 DEF ReplicaHasNoHoles, NoHoles, Covers, sidecar, TypeOK, Store, Snapshot
<1>13. QED BY <1>6, <1>7, <1>8, <1>9, <1>10, <1>11, <1>12

\* A restart forgets the uploads and what they held.
LEMMA RestartKeeps ==
  ASSUME SyncInvariant, Restart
  PROVE  SyncInvariant'
<1> USE DEF SyncInvariant
<1>1. /\ disk' \in {disk, NULL} /\ isOpen' = (disk' # NULL) /\ importing' = FALSE
      /\ kills' \in 0..MaxKill
      /\ upload' = [u \in Uploads |-> NoUpload]
      /\ exposed' = FALSE /\ tainted' = (tainted /\ disk' # NULL)
      /\ UNCHANGED <<sidecar, acked, batch>>
  BY BoundAssumption DEF Restart, OpenIfThere, TypeOK
<1>2. \A v \in Uploads : InPhase(v, "none")'
  BY <1>1 DEF NoUpload
<1>3. TypeOK'
  BY <1>1 DEF TypeOK, sidecar, NoUpload, Phases
<1>4. OneUpload' /\ HoldHasOwner' /\ SnapshotsKnown' /\ SnapshotsCover'
  BY <1>1, <1>2 DEF OneUpload, HoldHasOwner, SnapshotsKnown, SnapshotsCover
<1>5. BatchFits' /\ BatchFollows'
  BY <1>1, <1>2 DEF BatchFits, BatchFollows, Overtaken, sidecar
<1>6. RevsKnown' /\ ReplicaHasNoHoles'
  BY <1>1 DEF RevsKnown, ReplicaHasNoHoles, NoHoles, sidecar
<1>7. QED BY <1>3, <1>4, <1>5, <1>6

----------------------------------------------------------------------------

\* So every step keeps it.
LEMMA InvariantKept == SyncInvariant /\ [Next]_vars => SyncInvariant'
<1> SUFFICES ASSUME SyncInvariant, [Next]_vars PROVE SyncInvariant'
  OBVIOUS
<1>1. ASSUME NEW r \in Rows, RowChanges(r) PROVE SyncInvariant'
  BY <1>1, RowChangesKeeps
<1>2. CASE NewEpoch
  BY <1>2, NewEpochKeeps
<1>3. CASE SendBatch
  BY <1>3, SendBatchKeeps
<1>4. CASE BatchLost \/ BatchBusy \/ BatchMismatch
  BY <1>4, BatchGoneKeeps DEF BatchLost, BatchBusy, BatchMismatch
<1>5. CASE BatchApplied
  BY <1>5, BatchAppliedKeeps
<1>6. ASSUME NEW u \in Uploads, UploadBegins(u) PROVE SyncInvariant'
  BY <1>6, UploadBeginsKeeps
<1>7. ASSUME NEW u \in Uploads, UploadReceived(u) \/ ClientLeaves(u) \/ HandlerStarts(u)
      PROVE  SyncInvariant'
  <2>1. ~InPhase(u, "none") /\ UNCHANGED <<sidecar, acked, batch, disk, isOpen, kills, tainted>>
    BY <1>7 DEF UploadReceived, ClientLeaves, HandlerStarts, history
  <2>2. \/ \E p \in {"received", "importing"} : upload' = [upload EXCEPT ![u].phase = p]
        \/ upload' = [upload EXCEPT ![u].gone = TRUE]
    BY <1>7 DEF UploadReceived, ClientLeaves, HandlerStarts
  <2>3. upload' \in [Uploads -> [phase : Phases, gone : BOOLEAN, snapshot : Snapshot \cup {NULL}]]
    <3>0. upload \in [Uploads -> [phase : Phases, gone : BOOLEAN, snapshot : Snapshot \cup {NULL}]]
      BY DEF SyncInvariant, TypeOK
    <3>1. ASSUME NEW p \in {"received", "importing"}
          PROVE  [upload[u] EXCEPT !.phase = p] \in [phase : Phases, gone : BOOLEAN, snapshot : Snapshot \cup {NULL}]
      BY <3>0 DEF Phases
    <3>2. [upload[u] EXCEPT !.gone = TRUE] \in [phase : Phases, gone : BOOLEAN, snapshot : Snapshot \cup {NULL}]
      BY <3>0
    <3> QED BY <2>2, <3>0, <3>1, <3>2
  <2>4. \A v \in Uploads : /\ upload'[v].snapshot = upload[v].snapshot
                           /\ InPhase(v, "none")' <=> InPhase(v, "none")
    BY <2>1, <2>2 DEF SyncInvariant, TypeOK
  <2>5. UNCHANGED <<importing, exposed>> \/ (importing' = FALSE /\ exposed' = TRUE)
    <3>1. CASE UploadReceived(u) \/ HandlerStarts(u)
      BY <3>1 DEF UploadReceived, HandlerStarts, history
    <3>2. CASE ClientLeaves(u) /\ InPhase(u, "importing")
      BY <3>2 DEF ClientLeaves, ReleasedOnClose, SyncInvariant, TypeOK
    <3>3. CASE ClientLeaves(u) /\ ~InPhase(u, "importing")
      BY <3>3 DEF ClientLeaves, ReleasedOnClose
    <3>4. QED BY <1>7, <3>1, <3>2, <3>3
  <2>6. QED BY <2>1, <2>3, <2>4, <2>5, UploadMovesKeeps
<1>8. ASSUME NEW u \in Uploads, UploadBreaksOff(u) \/ ImportRefused(u) \/ SwapFails(u)
      PROVE  SyncInvariant'
  <2>1. /\ ~InPhase(u, "none") /\ importing' = FALSE /\ isOpen' \in {isOpen, FALSE}
        /\ upload' = [upload EXCEPT ![u] = NoUpload] /\ StillExposed
        /\ UNCHANGED <<sidecar, acked, batch, disk, kills, tainted>>
    BY <1>8 DEF UploadBreaksOff, ImportRefused, SwapFails, ReleasedOnClose, ReleasedOnFailure
  <2>2. QED BY <2>1, UploadGivenUpKeeps
<1>9. ASSUME NEW u \in Uploads, ImportDone(u) PROVE SyncInvariant'
  BY <1>9, ImportDoneKeeps
<1>10. CASE Restart
  BY <1>10, RestartKeeps
<1>11. CASE UNCHANGED vars
  BY <1>11 DEF vars, sidecar, history, SyncInvariant, TypeOK, RevsKnown, SnapshotsKnown, OneUpload,
               SnapshotsCover, Covers, BatchFits, BatchFollows, Overtaken, ReplicaHasNoHoles, NoHoles,
               HoldHasOwner
<1>12. QED
  BY <1>1, <1>2, <1>3, <1>4, <1>5, <1>6, <1>7, <1>8, <1>9, <1>10, <1>11 DEF Next, UploadEnds

\* Every reachable state satisfies the invariant, whenever clients leave.
THEOREM SyncIsInvariant == Spec => []SyncInvariant
BY InvariantInit, InvariantKept, PTL DEF Spec

\* The replica has no holes: no row that was acknowledged, or that the
\* replica's revision covers, is lost in a swap, unless the swap ended an
\* import that a client which left early had exposed (navdataSync.ts,
\* beginImport).
THEOREM NothingAcknowledgedIsLost == Spec => []ReplicaHasNoHoles
<1>1. SyncInvariant => ReplicaHasNoHoles
  BY DEF SyncInvariant
<1>2. QED BY SyncIsInvariant, <1>1, PTL

\* An import that is running holds the replica against batches and other
\* snapshots, until a client leaves between its last byte and the handler.
THEOREM ImportsHoldTheReplica == Spec => []ImportIsHeld
<1>1. SyncInvariant => ImportIsHeld
  BY DEF SyncInvariant, OneUpload, ImportIsHeld
<1>2. QED BY SyncIsInvariant, <1>1, PTL

\* A replica that is held has an upload that will let it go, also when its
\* client leaves early.
THEOREM HoldsHaveOwners == Spec => []HoldHasOwner
<1>1. SyncInvariant => HoldHasOwner
  BY DEF SyncInvariant
<1>2. QED BY SyncIsInvariant, <1>1, PTL

\* The variables keep their shape, and a handle is open only on a file.
THEOREM SyncTypeOK == Spec => []TypeOK
<1>1. SyncInvariant => TypeOK
  BY DEF SyncInvariant
<1>2. QED BY SyncIsInvariant, <1>1, PTL
=============================================================================
