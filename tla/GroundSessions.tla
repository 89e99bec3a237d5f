---------------------------- MODULE GroundSessions ----------------------------
(***************************************************************************)
(* The rows of ground_sessions (src/db/groundSessions.ts): what telemetry  *)
(* detects, what the operator posts and deletes, and what foreign keys do  *)
(* to both.  FlightManager models when the machine does which; here every  *)
(* row keeps each of its columns; two ghosts are not stored: the author of *)
(* a value, and the columns emptied with their source left beside them.    *)
(***************************************************************************)
EXTENDS Integers, Sequences, FiniteSets

CONSTANTS NULL,
          Airports,     \* ICAO codes
          Legs,         \* planned legs, the stand of each in Stand
          Stand,        \* departure_start of a leg, or NULL
          MaxRows       \* bound: rows ever inserted

VARIABLES rows,         \* in insertion order; open is ended = NULL
          legs,         \* planned_legs that exist
          tracking      \* the machine is in GROUND

groundVars == <<rows, legs, tracking>>

Sources == {"auto", "manual"}

\* How an open session ends; "disconnect" is stored as 'sim-exit'.
Reasons == {"flight-started", "sim-exit", "disconnect", "crash", "slew", "superseded", "corrected", "manual"}

\* A column with a *_source beside it: its value and, not stored, its author.
Held(value, author) == IF value = NULL THEN NULL ELSE [value |-> value, author |-> author]

Value(held) == IF held = NULL THEN NULL ELSE held.value

Open == {i \in DOMAIN rows : rows[i].ended = NULL}

OpenRow == rows[CHOOSE i \in Open : TRUE]

Init == rows = <<>> /\ legs = Legs /\ tracking = FALSE

-----------------------------------------------------------------------------
(* insertGroundSession, closeOpenGroundSession and the writes to an open row. *)

Inserted(list, source, airport, stand, leg, aircraft) ==
  Append(list, [source |-> source, airport |-> airport, stand |-> Held(stand, source),
                standSource |-> IF stand = NULL THEN NULL ELSE source,
                leg |-> Held(leg, source), legSource |-> IF leg = NULL THEN NULL ELSE source,
                aircraft |-> aircraft, ended |-> NULL, flight |-> NULL, emptied |-> {}])

Closed(list, reason, flight) ==
  [i \in DOMAIN list |-> IF list[i].ended = NULL THEN [list[i] EXCEPT !.ended = reason, !.flight = flight] ELSE list[i]]

Changed(row) == [i \in DOMAIN rows |-> IF i \in Open THEN row ELSE rows[i]]

Fill(current, value) == IF current = NULL THEN value ELSE current

\* fillOpenGroundSessionGaps: column by column, a source like any other.
Filled(row, airport, stand, leg, aircraft) ==
  [row EXCEPT
     !.airport     = Fill(row.airport, airport),
     !.stand       = Fill(row.stand, Held(stand, "auto")),
     !.standSource = Fill(row.standSource, IF stand = NULL THEN NULL ELSE "auto"),
     !.leg         = Fill(row.leg, Held(leg, "auto")),
     !.legSource   = Fill(row.legSource, IF leg = NULL THEN NULL ELSE "auto"),
     !.aircraft    = Fill(row.aircraft, aircraft)]

-----------------------------------------------------------------------------
(* The machine (FlightManager.enterGround and its exits). *)

\* ap is the nearest airport, leg what matchGroundPlannedLeg found.
EnterGround(ap, leg) ==
  LET stand == IF leg = NULL THEN NULL ELSE Stand[leg]
  IN  /\ ~tracking /\ tracking' = TRUE
      /\ IF Open # {} THEN rows' = Changed(Filled(OpenRow, ap, stand, leg, "aircraft"))
         ELSE Len(rows) < MaxRows /\ rows' = Inserted(rows, "auto", ap, stand, leg, "aircraft")
      /\ UNCHANGED legs

\* A slew, a jump or a simulator that says it stopped ends any session.
LeaveGround(reason) ==
  /\ tracking /\ tracking' = FALSE
  /\ rows' = Closed(rows, reason, NULL)
  /\ UNCHANGED legs

\* So does a takeoff, from the ground or from idle, and its flight is noted.
TakeOff ==
  /\ Open # {} /\ tracking' = FALSE
  /\ rows' = Closed(rows, "flight-started", "flight")
  /\ UNCHANGED legs

\* closeAutoGroundSessionAndReturnToIdle: a vanished simulator ends only what
\* telemetry itself opened ("disconnect" is stored as 'sim-exit').
LoseContact(reason) ==
  /\ tracking /\ tracking' = FALSE
  /\ rows' = IF Open # {} /\ OpenRow.source = "auto" THEN Closed(rows, reason, NULL) ELSE rows
  /\ UNCHANGED legs

\* The process ends: the rows stay as they are.
Restart == tracking /\ tracking' = FALSE /\ UNCHANGED <<rows, legs>>

-----------------------------------------------------------------------------
(* The operator (routes/groundSessions.ts).  A field not given is absent.   *)

Absent == "absent"

\* Mutant: what the operator corrects keeps the source it had.
RefinedQuietly(row, stand, leg) ==
  LET placed == IF stand = "absent" THEN row ELSE [row EXCEPT !.stand = Held(stand, "manual")]
  IN  IF leg = "absent" THEN placed ELSE [placed EXCEPT !.leg = Held(leg, "manual")]

\* insertManualGroundSession's refine branch: a stand may be emptied, and its
\* source says 'manual' all the same.
Refined(row, stand, leg) ==
  LET placed == IF stand = Absent THEN row
                ELSE [row EXCEPT !.stand = Held(stand, "manual"), !.standSource = "manual",
                                 !.emptied = IF stand = NULL THEN @ \cup {"stand"} ELSE @ \ {"stand"}]
  IN  IF leg = Absent THEN placed
      ELSE [placed EXCEPT !.leg = Held(leg, "manual"), !.legSource = "manual", !.emptied = @ \ {"leg"}]

Given(field) == IF field = Absent THEN NULL ELSE field

\* POST: a stand may be given as NULL, a leg only as one that exists.
PostGroundSession(icao, stand, leg, aircraft) ==
  /\ leg \in legs \cup {Absent}
  /\ IF Open # {} /\ OpenRow.source = "auto" /\ OpenRow.airport = icao
     THEN rows' = Changed(Refined(OpenRow, stand, leg))
     ELSE LET closed == IF Open = {} THEN rows
                        ELSE Closed(rows, IF OpenRow.source = "manual" THEN "superseded" ELSE "corrected", NULL)
          IN  /\ Len(rows) < MaxRows
              /\ rows' = Inserted(closed, "manual", icao, Given(stand), Given(leg), aircraft)
  /\ UNCHANGED <<legs, tracking>>

\* DELETE, with refreshGroundSession: a machine that tracked the row is idle.
DeleteGroundSession ==
  /\ Open # {} /\ rows' = Closed(rows, "manual", NULL) /\ tracking' = FALSE
  /\ UNCHANGED legs

\* A leg or a flight is deleted: ON DELETE SET NULL, of the key alone.
DeleteLeg(l) ==
  /\ l \in legs /\ legs' = legs \ {l}
  /\ rows' = [i \in DOMAIN rows |->
                IF Value(rows[i].leg) = l THEN [rows[i] EXCEPT !.leg = NULL, !.emptied = @ \cup {"leg"}]
                ELSE rows[i]]
  /\ UNCHANGED tracking

DeleteFlight ==
  /\ \E i \in DOMAIN rows : rows[i].flight # NULL
  /\ rows' = [i \in DOMAIN rows |-> [rows[i] EXCEPT !.flight = NULL]]
  /\ UNCHANGED <<legs, tracking>>

Stands == {Stand[l] : l \in Legs} \cup {NULL, "typed"}

Next ==
  \/ \E ap \in Airports \cup {NULL}, l \in legs \cup {NULL} : EnterGround(ap, l)
  \/ \E reason \in {"slew", "superseded", "sim-exit"} : LeaveGround(reason)
  \/ \E reason \in {"disconnect", "crash"} : LoseContact(reason)
  \/ TakeOff \/ Restart
  \/ \E icao \in Airports, s \in {Absent, NULL, "typed"}, l \in legs \cup {Absent} :
       PostGroundSession(icao, s, l, IF tracking THEN "aircraft" ELSE NULL)
  \/ DeleteGroundSession \/ DeleteFlight
  \/ \E l \in Legs : DeleteLeg(l)

Spec == Init /\ [][Next]_groundVars

-----------------------------------------------------------------------------
\* The source beside a value is its author's, and there is none beside a column
\* that was never filled.  Only where a column was emptied and its source left
\* beside it does a value that is filled in later pass for the operator's.
TellsAuthor(held, source, emptied) ==
  IF held = NULL THEN source = NULL \/ emptied
  ELSE source = held.author \/ (emptied /\ held.author = "auto" /\ source = "manual")

\* One row is open at most, and every value says who put it there, except in a
\* column the operator emptied or whose leg was deleted; a row that says a
\* flight ended it was never ended by anything else, and no row refers to a leg
\* that is gone.
SessionsAreSound ==
  /\ \A i, j \in Open : i = j
  /\ \A i \in DOMAIN rows :
       LET r == rows[i]
       IN  /\ TellsAuthor(r.stand, r.standSource, "stand" \in r.emptied)
           /\ TellsAuthor(r.leg, r.legSource, "leg" \in r.emptied)
           /\ r.leg # NULL => r.leg.value \in legs
           /\ r.flight # NULL => r.ended = "flight-started"
  /\ tracking => Open # {}

\* "Rows are never deleted by the app and never repurposed": an ended row
\* changes only where a key it holds is deleted, no row's origin is rewritten,
\* the operator's open session is ended by the operator or by what moves the
\* aircraft, and nothing the operator put is replaced but by the operator.
RowIsKept(old, new) ==
  /\ new.source = old.source
  /\ old.airport # NULL => new.airport = old.airport
  /\ old.ended # NULL => [new EXCEPT !.leg = old.leg, !.flight = old.flight, !.emptied = old.emptied] = old
  /\ old.source = "manual" => new.ended \notin {"disconnect", "crash", "corrected"}
  /\ old.stand # NULL /\ new.stand # old.stand =>
       new.standSource = "manual" /\ (new.stand = NULL \/ Value(new.stand) = "typed")
  /\ old.leg # NULL /\ new.leg # old.leg => new.leg = NULL \/ new.leg.author = "manual"

SessionsAreHistory ==
  [][/\ Len(rows') >= Len(rows)
     /\ \A i \in DOMAIN rows : RowIsKept(rows[i], rows'[i])]_groundVars
=============================================================================
