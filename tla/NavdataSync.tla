---------------------------- MODULE NavdataSync ----------------------------
(***************************************************************************)
(* The sync of the navdata replica (src/src/routes/navdataSync.ts, with    *)
(* navdata/snapshot.ts, navdata/connection.ts and the batches of           *)
(* navdata/store.ts): snapshots that replace the replica while batches     *)
(* of rows keep coming.  A row is its revision: two versions of a row      *)
(* differ exactly in it.  The sidecar is external; it sends a batch of     *)
(* everything after the last revision it saw acknowledged.                 *)
(*                                                                         *)
(* An upload takes several steps because it is received and imported over  *)
(* many ticks; a batch and the swap itself are synchronous, so the busy    *)
(* flag of connection.ts is never seen set by a request.                   *)
(***************************************************************************)
EXTENDS Naturals

CONSTANTS
  NULL,
  Rows,         \* keys of rows
  Uploads,      \* uploads that may be under way at once
  MaxRev,       \* bound on the revisions of an epoch
  MaxEpoch,     \* bound on the bulk extractions
  MaxKill       \* bound on deaths of the server

ASSUME BoundAssumption ==
  MaxRev \in Nat \ {0} /\ MaxEpoch \in Nat \ {0} /\ MaxKill \in Nat

VARIABLES
  epoch, head, store,  \* external: the sidecar's snapshotId, rev and rows
  acked,               \* external: the rev it saw acknowledged, or NULL
  batch,               \* external: the /rows request under way, or NULL
  disk,                \* the content of navdata.db, or NULL
  isOpen,              \* navDb is a handle on it
  importing,           \* the flag of the sync router
  upload,              \* the /snapshot requests
  kills,
  exposed,             \* history: a client left early, and uploads go on since
  tainted              \* history: disk was swapped in by an import that was exposed

sidecar == <<epoch, head, store>>
history == <<exposed, tainted>>
vars    == <<sidecar, acked, batch, disk, isOpen, importing, upload, kills, history>>

Revs     == 0..MaxRev
Store    == [Rows -> Revs]   \* 0: no such row
Snapshot == [snapshotId : 1..MaxEpoch, rev : Revs, rows : Store]
Batch    == [snapshotId : 1..MaxEpoch, fromRev : Revs, toRev : Revs, rows : Store]
ASSUME NullAssumption == NULL \notin Nat \cup Snapshot

Phases   == {"none", "receiving", "received", "importing"}
NoUpload == [phase |-> "none", gone |-> FALSE, snapshot |-> NULL]

Everything == [r \in Rows |-> 1]
Nothing    == [r \in Rows |-> 0]
HoldsRows(rows) == rows # Nothing

Init ==
  /\ epoch = 1 /\ head = 1 /\ store = Everything
  /\ acked = NULL /\ batch = NULL
  /\ disk = NULL /\ isOpen = FALSE
  /\ importing = FALSE
  /\ upload = [u \in Uploads |-> NoUpload]
  /\ kills = 0 /\ exposed = FALSE /\ tainted = FALSE

----------------------------------------------------------------------------
(* External: the sidecar.                                                  *)

RowChanges(r) ==
  /\ head < MaxRev
  /\ head' = head + 1
  /\ store' = [store EXCEPT ![r] = head + 1]
  /\ UNCHANGED <<epoch, acked, batch, disk, isOpen, importing, upload, kills, history>>

\* A bulk extraction may find nothing.
NewEpoch ==
  /\ epoch < MaxEpoch
  /\ epoch' = epoch + 1
  /\ head' = 1
  /\ store' \in {Everything, Nothing}
  /\ acked' = NULL
  /\ UNCHANGED <<batch, disk, isOpen, importing, upload, kills, history>>

SendBatch ==
  /\ batch = NULL /\ acked # NULL
  /\ \E to \in (acked + 1)..head :
       batch' = [snapshotId |-> epoch, fromRev |-> acked, toRev |-> to,
                 rows |-> [r \in Rows |-> IF store[r] \in (acked + 1)..to THEN store[r] ELSE 0]]
  /\ UNCHANGED <<sidecar, acked, disk, isOpen, importing, upload, kills, history>>

\* Lost on the way, or refused before it reaches the router.
BatchLost ==
  /\ batch # NULL
  /\ batch' = NULL
  /\ UNCHANGED <<sidecar, acked, disk, isOpen, importing, upload, kills, history>>

\* An answer for the epoch the sidecar is in, unless it is lost.
Acknowledged(snapshotId, rev) ==
  IF snapshotId = epoch THEN acked' \in {acked, rev} ELSE UNCHANGED acked

----------------------------------------------------------------------------
(* POST /api/navdata/rows                                                  *)

\* Mutant: only the swap itself refuses batches.
BusySwapping == FALSE

RowsRefused == importing

\* applyNavRows(): an incoming row replaces what is stored.
Merged(rows, incoming) == [r \in Rows |-> IF incoming[r] # 0 THEN incoming[r] ELSE rows[r]]

BatchBusy ==
  /\ batch # NULL /\ RowsRefused
  /\ batch' = NULL
  /\ UNCHANGED <<sidecar, acked, disk, isOpen, importing, upload, kills, history>>

\* NAVDATA_SNAPSHOT_MISMATCH: the sidecar has to send a snapshot.
BatchMismatch ==
  /\ batch # NULL /\ ~RowsRefused
  /\ isOpen => disk.snapshotId # batch.snapshotId
  /\ batch' = NULL
  /\ acked' = IF batch.snapshotId = epoch THEN NULL ELSE acked
  /\ UNCHANGED <<sidecar, disk, isOpen, importing, upload, kills, history>>

\* applyIncrementalBatch(): one transaction; fromRev is only compared to warn.
BatchApplied ==
  /\ batch # NULL /\ ~RowsRefused
  /\ isOpen /\ disk.snapshotId = batch.snapshotId
  /\ disk' = [disk EXCEPT !.rows = Merged(disk.rows, batch.rows), !.rev = batch.toRev]
  /\ Acknowledged(batch.snapshotId, batch.toRev)
  /\ batch' = NULL
  /\ UNCHANGED <<sidecar, isOpen, importing, upload, kills, history>>

----------------------------------------------------------------------------
(* POST /api/navdata/snapshot                                              *)

InPhase(u, phase) == upload[u].phase = phase

\* beginImport; the snapshot is the store as it is when the upload begins, and
\* the sidecar begins one when it waits for no batch.
UploadBegins(u) ==
  /\ InPhase(u, "none") /\ ~importing /\ batch = NULL
  /\ importing' = TRUE
  /\ upload' = [upload EXCEPT ![u] = [phase |-> "receiving", gone |-> FALSE,
                  snapshot |-> [snapshotId |-> epoch, rev |-> head, rows |-> store]]]
  /\ UNCHANGED <<sidecar, acked, batch, disk, isOpen, kills, history>>

\* The last byte has arrived; the file is still being written out.
UploadReceived(u) ==
  /\ InPhase(u, "receiving")
  /\ upload' = [upload EXCEPT ![u].phase = "received"]
  /\ UNCHANGED <<sidecar, acked, batch, disk, isOpen, importing, kills, history>>

\* Mutant: the close of the response always releases.
AlwaysReleased(u) == importing' = FALSE

\* res.once('close')
ReleasedOnClose(u) ==
  IF InPhase(u, "importing") THEN UNCHANGED importing ELSE importing' = FALSE

\* With the last upload that was under way, an early departure is over.
StillExposed == exposed' = (exposed /\ \E v \in Uploads : ~InPhase(v, "none")')

\* An upload that breaks off, is too large or is no multipart never reaches
\* the handler.
UploadBreaksOff(u) ==
  /\ InPhase(u, "receiving")
  /\ ReleasedOnClose(u)
  /\ upload' = [upload EXCEPT ![u] = NoUpload]
  /\ StillExposed
  /\ UNCHANGED <<sidecar, acked, batch, disk, isOpen, kills, tainted>>

\* The connection closes on a request that has arrived whole: it is carried
\* out all the same, and the hold is gone if the handler had not started.
ClientLeaves(u) ==
  /\ upload[u].phase \in {"received", "importing"}
  /\ ~upload[u].gone
  /\ ReleasedOnClose(u)
  /\ upload' = [upload EXCEPT ![u].gone = TRUE]
  /\ exposed' = (exposed \/ InPhase(u, "received"))
  /\ UNCHANGED <<sidecar, acked, batch, disk, isOpen, kills, tainted>>

HandlerStarts(u) ==
  /\ InPhase(u, "received")
  /\ upload' = [upload EXCEPT ![u].phase = "importing"]
  /\ UNCHANGED <<sidecar, acked, batch, disk, isOpen, importing, kills, history>>

\* Mutant: the flag is cleared after a success only.
KeptOnFailure == UNCHANGED importing

\* finally
ReleasedOnFailure == importing' = FALSE

\* An empty snapshot is refused while the replica being served holds rows.
Swappable(snapshot) == isOpen /\ HoldsRows(disk.rows) => HoldsRows(snapshot.rows)

\* importNavdataSnapshot() and swapInReplica(), which leave the live file
\* alone until the new one is verified.
ImportDone(u) ==
  /\ InPhase(u, "importing")
  /\ LET snapshot == upload[u].snapshot IN
     /\ Swappable(snapshot)
     /\ disk' = snapshot
     /\ IF upload[u].gone THEN UNCHANGED acked ELSE Acknowledged(snapshot.snapshotId, snapshot.rev)
  /\ isOpen' = TRUE
  /\ importing' = FALSE
  /\ upload' = [upload EXCEPT ![u] = NoUpload]
  /\ StillExposed /\ tainted' = exposed
  /\ UNCHANGED <<sidecar, batch, kills>>

\* A stream that is truncated, miscounted or empty.
ImportRefused(u) ==
  /\ InPhase(u, "importing")
  /\ ReleasedOnFailure
  /\ upload' = [upload EXCEPT ![u] = NoUpload]
  /\ StillExposed
  /\ UNCHANGED <<sidecar, acked, batch, disk, isOpen, kills, tainted>>

\* The old handle is closed and the rename fails: the replica is absent.
SwapFails(u) ==
  /\ InPhase(u, "importing") /\ Swappable(upload[u].snapshot)
  /\ isOpen' = FALSE
  /\ ReleasedOnFailure
  /\ upload' = [upload EXCEPT ![u] = NoUpload]
  /\ StillExposed
  /\ UNCHANGED <<sidecar, acked, batch, disk, kills, tainted>>

----------------------------------------------------------------------------
\* openNavdata() at start-up.
OpenIfThere == disk' # NULL

\* The process dies and starts again; the operator may delete the file while
\* it is down.
Restart ==
  /\ kills < MaxKill
  /\ kills' = kills + 1
  /\ disk' \in {disk, NULL}
  /\ isOpen' = OpenIfThere
  /\ importing' = FALSE
  /\ upload' = [u \in Uploads |-> NoUpload]
  /\ exposed' = FALSE /\ tainted' = (tainted /\ disk' # NULL)
  /\ UNCHANGED <<sidecar, acked, batch>>

UploadEnds(u) ==
  UploadBreaksOff(u) \/ ImportDone(u) \/ ImportRefused(u) \/ SwapFails(u)

Next ==
  \/ \E r \in Rows : RowChanges(r)
  \/ NewEpoch \/ SendBatch \/ BatchLost
  \/ BatchBusy \/ BatchMismatch \/ BatchApplied
  \/ \E u \in Uploads :
       \/ UploadBegins(u) \/ UploadReceived(u) \/ ClientLeaves(u) \/ HandlerStarts(u)
       \/ UploadEnds(u)
  \/ Restart

Spec == Init /\ [][Next]_vars

\* The server drives a request it has received whole, and Node's request
\* timeout ends one that stops arriving.
Fairness ==
  \A u \in Uploads :
    /\ WF_vars(UploadReceived(u) \/ UploadBreaksOff(u))
    /\ WF_vars(HandlerStarts(u))
    /\ WF_vars(ImportDone(u) \/ ImportRefused(u) \/ SwapFails(u))

LiveSpec == Spec /\ Fairness

----------------------------------------------------------------------------
(* Properties.                                                             *)

\* The variables keep their shape; a handle is open only on a file.
TypeOK ==
  /\ epoch \in 1..MaxEpoch /\ head \in Revs /\ store \in Store
  /\ acked \in Revs \cup {NULL} /\ batch \in Batch \cup {NULL}
  /\ disk \in Snapshot \cup {NULL}
  /\ isOpen \in BOOLEAN /\ (isOpen => disk # NULL)
  /\ importing \in BOOLEAN /\ exposed \in BOOLEAN /\ tainted \in BOOLEAN /\ kills \in 0..MaxKill
  /\ upload \in [Uploads -> [phase : Phases, gone : BOOLEAN, snapshot : Snapshot \cup {NULL}]]

\* The replica has no holes: within the sidecar's epoch it holds every row the
\* sidecar has at or below the replica's revision, or at or below the one that
\* was acknowledged.  A batch that is acknowledged and then lost in a swap
\* would never be sent again.
NoHoles ==
  disk # NULL /\ disk.snapshotId = epoch =>
    \A r \in Rows :
      store[r] <= disk.rev \/ (acked # NULL /\ store[r] <= acked) => disk.rows[r] = store[r]

\* That holds of every replica but one swapped in by an import that ran while
\* a client had left early: between its last byte and the handler, which makes
\* the close of the response give the hold back too soon.
ReplicaHasNoHoles == ~tainted => NoHoles

\* The replica is held against batches only while an upload is under way:
\* otherwise it would refuse rows and snapshots for ever.
HoldHasOwner == importing => \E u \in Uploads : ~InPhase(u, "none")

\* An import that is running holds the replica, and it is the only one (the
\* comment of beginImport), unless a client left early and uploads have gone on
\* ever since.
ImportIsHeld ==
  ~exposed => \A u \in Uploads : InPhase(u, "importing") =>
                importing /\ \A v \in Uploads \ {u} : InPhase(v, "none")

\* However uploads break off, fail or lose their client, the replica is let
\* go again.
HoldIsReleased == []<>(~importing)

----------------------------------------------------------------------------
(* What comments of the source say and the code does not do.               *)

\* No batch that was acknowledged is lost when the swap lands: the whole import
\* holds the replica, whenever its client leaves.
AcknowledgedIsKept ==
  acked # NULL /\ disk # NULL /\ disk.snapshotId = epoch =>
    \A r \in Rows : store[r] <= acked => disk.rows[r] = store[r]
=============================================================================
