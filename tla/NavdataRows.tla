---------------------------- MODULE NavdataRows ----------------------------
(***************************************************************************)
(* How rows of the sidecar become rows of the replica: validation, the     *)
(* merge of each column, parents-first order, one transaction per batch,   *)
(* and the refusals of applyIncrementalBatch.  Three tables stand for all: *)
(* an airport with a position, a runway that references it, and an absence.*)
(* A row is [t, r], r a function from the columns it carries.              *)
(***************************************************************************)
EXTENDS Integers, Sequences, FiniteSets, SequencesExt

CONSTANTS NULL,
          MaxBatchRows,      \* NAVDATA_MAX_BATCH_ROWS
          BatchRowCeiling    \* NAVDATA_BATCH_HARD_ROW_CEILING

NAV_ROW_ORDER == <<"airport", "runway", "absent">>

KEY_COLUMNS == [airport |-> {"ident"}, runway |-> {"rwy"}, absent |-> {"ident", "region"}]

POSITION_COLUMNS == {"lat", "lon", "source"}

ColumnsOf ==
  [airport |-> {"ident", "lat", "lon", "source", "name", "detail", "rev"},
   runway  |-> {"rwy", "ident", "surface", "rev"},
   absent  |-> {"ident", "region", "first", "rev"}]

\* NOT NULL columns beyond the key, and the DDL's own defaults.
Required == [airport |-> {"detail"}, runway |-> {"ident"}, absent |-> {"first"}]
Default  == [c \in {"region", "detail"} |-> IF c = "region" THEN 0 ELSE "index"]

POSITION_RANK == [facility |-> 3, list |-> 2, minimal |-> 1]

Rank(source) == IF source = NULL THEN 0 ELSE POSITION_RANK[source]

Sent(r, c) == IF c \in DOMAIN r THEN r[c] ELSE NULL

OrDefault(r, c) == IF c \in DOMAIN r THEN r[c] ELSE IF c \in DOMAIN Default THEN Default[c] ELSE NULL

-----------------------------------------------------------------------------
(* validateRow and keyValue. *)

Valid(row) ==
  /\ row.t \in DOMAIN ColumnsOf
  /\ DOMAIN row.r \subseteq ColumnsOf[row.t]
  /\ Sent(row.r, "rev") # NULL
  /\ \A c \in KEY_COLUMNS[row.t] : OrDefault(row.r, c) # NULL

Key(row) == <<row.t, [c \in KEY_COLUMNS[row.t] |-> OrDefault(row.r, c)]>>

(* A source no position backs up is dropped before it can label one. *)
WithoutUnbackedPositionSource(r) ==
  IF Sent(r, "source") = NULL \/ (Sent(r, "lat") # NULL /\ Sent(r, "lon") # NULL) THEN r
  ELSE [c \in DOMAIN r \ {"source"} |-> r[c]]

-----------------------------------------------------------------------------
(* mergeValues.  A row with no source is not ranked below one that has it. *)

Merge(t, stored, r) ==
  LET fillOnly == t = "airport" /\ Sent(r, "source") # NULL /\ Rank(Sent(r, "source")) < Rank(stored["source"])
      earlier(a, b) == IF b = NULL THEN a ELSE IF a < b THEN a ELSE b
  IN  [c \in ColumnsOf[t] |->
         CASE c \in KEY_COLUMNS[t]                    -> stored[c]
           [] t = "absent" /\ c = "first"             -> earlier(stored[c], Sent(r, c))
           [] fillOnly /\ c \in POSITION_COLUMNS      -> IF stored[c] # NULL THEN stored[c] ELSE Sent(r, c)
           [] OTHER                                   -> IF Sent(r, c) # NULL THEN r[c] ELSE stored[c]]

Differs(t, a, b) == \E c \in ColumnsOf[t] \ {"rev"} : a[c] # b[c]

(* applyNavRow: the replica after it, NULL when a constraint fails, and     *)
(* whether it counts as applied.                                            *)
Inserted(t, r) == [c \in ColumnsOf[t] |-> OrDefault(r, c)]

Broken(db, t, values) ==
  \/ \E c \in Required[t] : values[c] = NULL
  \/ t = "runway" /\ <<"airport", [c \in {"ident"} |-> values["ident"]]>> \notin DOMAIN db

With(db, key, values) == [k \in DOMAIN db \cup {key} |-> IF k = key THEN values ELSE db[k]]

(* The absence of an airport is told on its own row too, if it has one. *)
MarkAirportAbsent(db, ident, rev) ==
  LET key == <<"airport", [c \in {"ident"} |-> ident]>>
  IN  IF key \notin DOMAIN db THEN db
      ELSE IF db[key]["detail"] = "absent" THEN db
      ELSE [db EXCEPT ![key]["detail"] = "absent", ![key]["rev"] = rev]

Refused == [db |-> NULL, wrote |-> FALSE]

Written(db, row, key, values) ==
  LET writes == key \notin DOMAIN db \/ Differs(row.t, values, db[key])
      after  == IF writes THEN With(db, key, values) ELSE db
  IN  IF writes /\ Broken(db, row.t, values) THEN Refused
      ELSE [db |-> IF row.t = "absent" THEN MarkAirportAbsent(after, row.r["ident"], row.r["rev"]) ELSE after,
            wrote |-> writes]

MergedOrNew(db, row, key, r) ==
  Written(db, row, key, IF key \in DOMAIN db THEN Merge(row.t, db[key], r) ELSE Inserted(row.t, r))

ApplyNavRow(db, row) ==
  IF Valid(row) THEN MergedOrNew(db, row, Key(row), WithoutUnbackedPositionSource(row.r)) ELSE Refused

(* applyNavRows: parents first when the batch is incremental, in one        *)
(* transaction: [db, applied], db NULL when any row is refused.             *)

OfTypes(rows, types) ==
  FoldLeft(LAMBDA known, row : IF row.t \in types THEN Append(known, row) ELSE known, <<>>, rows)

Ordered(rows) ==
  OfTypes(rows, {rows[i].t : i \in DOMAIN rows} \ DOMAIN ColumnsOf)
    \o OfTypes(rows, {NAV_ROW_ORDER[1]}) \o OfTypes(rows, {NAV_ROW_ORDER[2]}) \o OfTypes(rows, {NAV_ROW_ORDER[3]})

Counted(state, one) ==
  [db |-> one.db, applied |-> IF one.wrote THEN state.applied + 1 ELSE state.applied]

ApplyNavRows(db, rows, sort) ==
  FoldLeft(LAMBDA state, row : IF state.db = NULL THEN state ELSE Counted(state, ApplyNavRow(state.db, row)),
           [db |-> db, applied |-> 0], IF sort THEN Ordered(rows) ELSE rows)

-----------------------------------------------------------------------------
(* applyIncrementalBatch: the replica after the batch and what is answered. *)
(* A replica is NULL or [snapshot, rev, db].                                *)

IsSingleRev(rows) ==
  rows # <<>> /\ Sent(rows[1].r, "rev") # NULL
    /\ \A i \in DOMAIN rows : Sent(rows[i].r, "rev") = rows[1].r["rev"]

Refusal(replica, code, status) == [replica |-> replica, code |-> code, status |-> status, applied |-> 0]

TooMany(rows) == Len(rows) > BatchRowCeiling \/ (Len(rows) > MaxBatchRows /\ ~IsSingleRev(rows))

Taken(replica, batch, out) ==
  IF out.db = NULL THEN Refusal(replica, "NAVDATA_BAD_BATCH", 400)
  ELSE [replica |-> [replica EXCEPT !.rev = batch.toRev, !.db = out.db],
        code |-> "ok", status |-> 200, applied |-> out.applied]

ApplyIncrementalBatch(replica, batch) ==
  IF ~batch.version THEN Refusal(replica, "NAVDATA_SCHEMA_UNSUPPORTED", 409)
  ELSE IF replica = NULL \/ replica.snapshot # batch.snapshot
       THEN Refusal(replica, "NAVDATA_SNAPSHOT_MISMATCH", 409)
  ELSE IF TooMany(batch.rows) THEN Refusal(replica, "NAVDATA_BAD_BATCH", 400)
  ELSE Taken(replica, batch, ApplyNavRows(replica.db, batch.rows, TRUE))

-----------------------------------------------------------------------------
Facts(db) == [k \in DOMAIN db |-> [c \in DOMAIN db[k] \ {"rev"} |-> db[k][c]]]

(* A row tells a place where one of this source is known: it is as good a   *)
(* source, or it has none to be ranked by.                                  *)
MayMove(row, source) ==
  \/ Sent(WithoutUnbackedPositionSource(row.r), "source") = NULL
  \/ Rank(Sent(row.r, "source")) >= Rank(source)

(* No value that was known is lost, and none gives way to a labelled value  *)
(* of a worse source.                                                       *)
Adds(old, new, rows) ==
  \A k \in DOMAIN old :
    /\ k \in DOMAIN new
    /\ \A c \in DOMAIN old[k] : old[k][c] # NULL => new[k][c] # NULL
    /\ k[1] = "absent" => new[k]["first"] <= old[k]["first"]
    /\ k[1] = "airport" =>
         /\ Rank(new[k]["source"]) >= Rank(old[k]["source"])
         /\ \A c \in {"lat", "lon"} :
              new[k][c] # old[k][c] /\ old[k][c] # NULL /\ old[k]["source"] # NULL =>
                \E i \in DOMAIN rows :
                  Key(rows[i]) = k /\ Sent(rows[i].r, c) = new[k][c] /\ MayMove(rows[i], old[k]["source"])

SameAgain(new, twice) == twice.code = "ok" /\ Facts(twice.replica.db) = Facts(new)

SameRows(new, back) == back.code = "ok" /\ DOMAIN back.replica.db = DOMAIN new

Outcome(replica, batch, once) ==
  IF once.code # "ok" THEN once.replica = replica
  ELSE /\ SameAgain(once.replica.db, ApplyIncrementalBatch(once.replica, batch))
       /\ IsInjective([i \in DOMAIN batch.rows |-> Key(batch.rows[i])]) =>
            SameRows(once.replica.db, ApplyIncrementalBatch(replica, [batch EXCEPT !.rows = Reverse(@)]))
       /\ Adds(replica.db, once.replica.db, batch.rows)

(* "No message may erase what another one filled in": a batch that is       *)
(* refused changes nothing, one that is taken leaves every value it found   *)
(* or replaces it by one it carried, never takes a coordinate from a better *)
(* source for a row labelled with a worse one, never makes an absence       *)
(* younger, may be sent again without effect, and may name a parent after   *)
(* its child.                                                               *)
BatchesOnlyAdd(replica, batch) == Outcome(replica, batch, ApplyIncrementalBatch(replica, batch))

-----------------------------------------------------------------------------
(* What a comment of mergeValues says and the code does not do.             *)

(* A place moves as a unit, by source precedence: what moved one that had a *)
(* source is one row with both coordinates and a source as good.            *)
MovedAsUnit(old, new, rows) ==
  \A k \in DOMAIN old :
    k[1] = "airport" /\ old[k]["source"] # NULL /\ <<new[k]["lat"], new[k]["lon"]>> # <<old[k]["lat"], old[k]["lon"]>> =>
      \E i \in DOMAIN rows :
        /\ \A c \in POSITION_COLUMNS : Sent(rows[i].r, c) = new[k][c]
        /\ Rank(new[k]["source"]) >= Rank(old[k]["source"])

PlacesMoveAsUnits(replica, batch) ==
  LET once == ApplyIncrementalBatch(replica, batch)
  IN  once.code = "ok" => MovedAsUnit(replica.db, once.replica.db, batch.rows)
=============================================================================
