--------------------------- MODULE SchemaUpgrade ---------------------------
(***************************************************************************)
(* What a start does to flights.db: applySchema runs its statements one by *)
(* one over whatever an older version left, each of them its own           *)
(* transaction but for the rebuild of planned_legs, and the process may    *)
(* end between any two.  The schema is the set of objects that exist       *)
(* (tables, indexes, and the columns added after their table was); the     *)
(* rows are the ids of planned_legs, the rows that reference them, and the *)
(* counter AUTOINCREMENT hands ids out from.                               *)
(***************************************************************************)
EXTENDS Integers, Sequences, FiniteSets

CONSTANTS NULL,
          MaxLeg,       \* bound: ids of planned_legs
          MaxCrashes    \* bound: starts that end half way

VARIABLES
  file,      \* the database: [have, strict, legs, children, links, counter]
  work,      \* the open transaction of the rebuild: NULL, or the file it will leave
  enforced,  \* PRAGMA foreign_keys of the handle
  at,        \* the statement to run next; 0 when no start is under way, NULL when the server is up
  columns,   \* the columns of flights as PRAGMA table_info read them once
  crashes,
  issued     \* every leg id ever handed out (seen by no code)

vars == <<file, work, enforced, at, columns, crashes, issued>>

-----------------------------------------------------------------------------
(* The script.  A statement is [adds, unless, once]: it adds its objects    *)
(* unless the object named is there, or, when once, unless it was there     *)
(* when the columns were read.                                              *)

Late == <<"flights.notes", "flights.trip_id", "flights.departure_icao", "flights.departure_name",
          "flights.arrival_icao", "flights.arrival_name", "flights.flight_plan_name",
          "flights.planned_leg_id", "flights.planned_leg_link_source", "flights.planned_leg_prev_trip_id">>

Object(name) == [adds |-> {name}, unless |-> name, once |-> FALSE]

BaseTables ==
  <<[adds |-> {"flights", "flights.notes", "flights.departure_icao", "flights.departure_name",
               "flights.arrival_icao", "flights.arrival_name"}, unless |-> "flights", once |-> FALSE],
    Object("flight_points"), Object("idx_points_flight"), Object("trips"), Object("planned_legs")>>

DependentTables ==
  <<Object("planned_waypoints"), Object("planned_alternates"), Object("idx_planned_legs"),
    Object("acars_messages"), Object("idx_acars_messages_dedup"), Object("ground_sessions"),
    Object("idx_ground_sessions_open"), Object("auth_user"), Object("auth_session"), Object("app_secret"),
    Object("app_setting"), Object("sayintentions_links")>>

Added(column) == [adds |-> {column}, unless |-> column, once |-> TRUE]

LateColumns ==
  <<Added("flights.notes"), Added("flights.trip_id"),
    [adds |-> {"idx_flights_trip"}, unless |-> "flights.trip_id", once |-> TRUE],
    Added("flights.departure_icao"), Added("flights.departure_name"), Added("flights.arrival_icao"),
    Added("flights.arrival_name"), Added("flights.flight_plan_name"), Added("flights.planned_leg_id"),
    Added("flights.planned_leg_link_source"), Added("flights.planned_leg_prev_trip_id"),
    Object("trips.is_active")>>

\* Mutant: the unique indexes are only made together with their columns.
LastStatementsOnce ==
  <<Object("navdata_requests"),
    [adds |-> {"idx_flights_planned_leg"}, unless |-> "flights.planned_leg_id", once |-> TRUE],
    Object("idx_trips_active")>>

LastStatements == <<Object("navdata_requests"), Object("idx_flights_planned_leg"), Object("idx_trips_active")>>

(* The rebuild of planned_legs, which has an action for each of its parts.  *)
Parts == {"begin", "copy", "drop", "rename", "commit"}

Part(name) == [adds |-> {}, unless |-> name, once |-> FALSE]

Rebuild == <<Part("begin"), Part("copy"), Part("drop"), Part("rename"), Part("commit")>>

Script == BaseTables \o DependentTables \o LateColumns \o Rebuild \o LastStatements

ReadColumns == Len(BaseTables) + Len(DependentTables)

Everything == UNION {Script[i].adds : i \in DOMAIN Script}

-----------------------------------------------------------------------------
(* The files a start may find: none at all, or what an older version left,  *)
(* with some of the late columns and with trip_id still NOT NULL or not.    *)

NoRows == [legs |-> {}, children |-> {}, links |-> {}, counter |-> 0]

OldFiles ==
  LET first == {"flights", "flights.notes", "flight_points", "idx_points_flight"}
      Upto(n) == Everything \ ({Late[i] : i \in (n + 1)..Len(Late)}
                                \cup {"idx_flights_planned_leg", "navdata_requests"})
      rows == {r \in [legs : SUBSET (1..MaxLeg), children : SUBSET (1..MaxLeg), links : SUBSET (1..MaxLeg),
                      counter : 0..MaxLeg] :
                 r.legs \subseteq 1..r.counter /\ r.children \subseteq r.legs /\ r.links \subseteq r.legs}
      File(have, strict, r) == [have |-> have, strict |-> strict, legs |-> r.legs, children |-> r.children,
                                links |-> r.links, counter |-> r.counter]
  IN  {File(have, FALSE, NoRows) : have \in {{}, first}}
      \cup {File(Upto(n), strict, r) : n \in {7, 10}, strict \in BOOLEAN, r \in rows}

Init ==
  /\ file \in OldFiles /\ work = NULL /\ enforced = FALSE /\ at = 0 /\ columns = {} /\ crashes = 0
  /\ issued = 1..file.counter

(* initDb: the handle, and its pragmas. *)
Open ==
  /\ at = 0 /\ at' = 1 /\ enforced' = TRUE
  /\ UNCHANGED <<file, work, columns, crashes, issued>>

Advance == at' = IF at = Len(Script) THEN NULL ELSE at + 1

Statement ==
  /\ at # NULL /\ at > 0 /\ Script[at].unless \notin Parts
  /\ LET s == Script[at]
         there == IF s.once THEN s.unless \in columns ELSE s.unless \in file.have
     IN  file' = IF there THEN file ELSE [file EXCEPT !.have = @ \cup s.adds]
  /\ columns' = IF at = ReadColumns THEN file'.have ELSE columns
  /\ Advance
  /\ UNCHANGED <<work, enforced, crashes, issued>>

-----------------------------------------------------------------------------
(* migratePlannedLegsTripIdNullable: one step per statement of the rebuild. *)

Step(name) == at # NULL /\ at > 0 /\ Script[at].unless = name

Skip ==
  /\ Step("begin") /\ ~file.strict
  /\ at' = at + Len(Rebuild)
  /\ UNCHANGED <<file, work, enforced, columns, crashes, issued>>

Begin ==
  /\ Step("begin") /\ file.strict
  /\ enforced' = FALSE /\ work' = file /\ Advance
  /\ UNCHANGED <<file, columns, crashes, issued>>

(* The copy keeps every id; the new table's own counter is only its highest. *)
Highest(ids) == IF ids = {} THEN 0 ELSE CHOOSE i \in ids : \A j \in ids : j <= i

Copy ==
  /\ Step("copy")
  /\ work' = [work EXCEPT !.counter = Highest(work.legs)]
  /\ Advance
  /\ UNCHANGED <<file, enforced, columns, crashes, issued>>

\* Mutant: the handle's foreign keys stay on.
DroppedWithKeys(f, enforcing) == [f EXCEPT !.children = {}, !.links = {}]

(* DROP TABLE: enforced foreign keys would take the rows that reference it. *)
Dropped(f, enforcing) == IF enforcing THEN [f EXCEPT !.children = {}, !.links = {}] ELSE f

Drop ==
  /\ Step("drop")
  /\ work' = [Dropped(work, enforced) EXCEPT !.have = @ \ {"idx_planned_legs"}]
  /\ Advance
  /\ UNCHANGED <<file, enforced, columns, crashes, issued>>

(* The rename, the indexes the drop took, and the counter of the old table. *)
Counter(copied, before) == IF copied < before THEN before ELSE copied

Rename ==
  /\ Step("rename")
  /\ work' = [work EXCEPT !.have = @ \cup {"idx_planned_legs"}, !.strict = FALSE,
                          !.counter = Counter(@, file.counter)]
  /\ Advance
  /\ UNCHANGED <<file, enforced, columns, crashes, issued>>

(* foreign_key_check, COMMIT, and the pragma back to what it was. *)
Commit ==
  /\ Step("commit")
  /\ IF work.children \subseteq work.legs /\ work.links \subseteq work.legs
     THEN file' = work /\ Advance
     ELSE at' = 0 /\ UNCHANGED file
  /\ work' = NULL /\ enforced' = TRUE
  /\ UNCHANGED <<columns, crashes, issued>>

-----------------------------------------------------------------------------
(* The process ends; SQLite rolls an open transaction back. *)
Crash ==
  /\ at # 0 /\ crashes < MaxCrashes
  /\ crashes' = crashes + 1 /\ at' = 0 /\ work' = NULL /\ columns' = {} /\ enforced' = FALSE
  /\ UNCHANGED <<file, issued>>

(* A running server imports a leg, or removes one with the rows of it. *)
Import ==
  /\ at = NULL /\ file.counter < MaxLeg + 1
  /\ LET id == file.counter + 1
     IN  /\ file' = [file EXCEPT !.legs = @ \cup {id}, !.counter = id, !.children = @ \cup {id}]
         /\ issued' = issued \cup {id}
  /\ UNCHANGED <<work, enforced, at, columns, crashes>>

Next == Open \/ Statement \/ Skip \/ Begin \/ Copy \/ Drop \/ Rename \/ Commit \/ Crash \/ Import

Spec == Init /\ [][Next]_vars

-----------------------------------------------------------------------------
(* A server that is up has every table, column and unique index, whatever   *)
(* it started from and however often a start ended half way, and enforces   *)
(* its foreign keys.  idx_flights_trip is left out: a start that ends      *)
(* between its column and the index never makes it.                         *)
UpMeansComplete ==
  at = NULL => /\ Everything \ {"idx_flights_trip"} \subseteq file.have
               /\ ~file.strict /\ enforced /\ work = NULL

(* No step but an import changes a row, and an import never hands out an id *)
(* that was handed out before, not even that of a leg deleted long ago.     *)
UpgradesKeepRows ==
  [][/\ at # NULL => /\ file'.legs = file.legs /\ file'.children = file.children /\ file'.links = file.links
     /\ (file'.legs \ file.legs) \cap issued = {}]_vars
=============================================================================
