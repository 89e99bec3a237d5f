------------------------------ MODULE LnmPlan ------------------------------
(***************************************************************************)
(* parseLnmpln() (src/lnmpln.ts): from the elements of a Little Navmap     *)
(* file to a plan with its warnings, or a rejection.  An element that is   *)
(* absent or blank is NULL; the text of a number is the number, or Text    *)
(* when it is none.  A position is NULL or [lat, lon, alt]; a waypoint is  *)
(* [ident, pos, type, comment, description, unknown], an alternate         *)
(* [ident, pos, unknown], where unknown counts the child elements the      *)
(* parser does not know.                                                   *)
(***************************************************************************)
EXTENDS Integers, Sequences, FiniteSets, SequencesExt

CONSTANTS NULL, Text,
          Distance(_, _)    \* the great circle between two waypoints

WAYPOINT_TYPES == {"AIRPORT", "UNKNOWN", "WAYPOINT", "VOR", "NDB", "USER"}

ToNumber(v) == IF v = Text THEN NULL ELSE v

\* The warnings of a remark, and the remark: Comment before Description.
ReadRemark(node) ==
  [text |-> IF node.comment # NULL THEN node.comment ELSE node.description,
   warnings |->
     IF node.description = NULL \/ node.comment = node.description THEN {}
     ELSE IF node.comment = NULL THEN {"DESCRIPTION_INSTEAD_OF_COMMENT"}
     ELSE {"COMMENT_AND_DESCRIPTION_BOTH_PRESENT"}]

\* A date is [form, valid]: how its offset is written, and whether Date can
\* read it once the offset is normalised.
NormalizeCreationDate(date) ==
  [date |-> CASE date.form = "+hhmm" -> [date EXCEPT !.form = "+hh:mm"]
              [] date.form = "+hh" -> [date EXCEPT !.form = "+hh:00"]
              [] OTHER -> date,
   hasOffset |-> date.form \in {"Z", "+hh:mm", "+hhmm", "+hh"}]

-----------------------------------------------------------------------------
(* Positions. *)

Coordinates(pos) == <<ToNumber(pos.lat), ToNumber(pos.lon)>>

\* Also NaN and a text, and half a position: nothing out of range is stored.
CoordinateFault(pos) ==
  LET lat == ToNumber(pos.lat)
      lon == ToNumber(pos.lon)
  IN  IF lat = NULL \/ lon = NULL \/ lat \notin -90..90 \/ lon \notin -180..180
      THEN <<"BAD_COORDINATE">> ELSE <<>>

WaypointFault(w) ==
  CASE w.ident = NULL -> <<"MISSING_IDENT">>
    [] w.ident # NULL /\ (w.pos = NULL \/ w.pos.lat = NULL \/ w.pos.lon = NULL) -> <<"MISSING_POSITION">>
    [] OTHER -> CoordinateFault(w.pos)

\* An alternate without a position is tolerated, one with half of it is not.
NoPosition(pos) == pos = NULL \/ (pos.lat = NULL /\ pos.lon = NULL)

AlternateFault(a) ==
  CASE a.ident = NULL -> <<"MISSING_IDENT">>
    [] a.ident # NULL /\ NoPosition(a.pos) -> <<>>
    [] OTHER -> CoordinateFault(a.pos)

DepartureFault(pos) == IF NoPosition(pos) THEN <<>> ELSE CoordinateFault(pos)

AltitudeWarning(pos) == IF pos.alt = Text THEN {"WAYPOINT_ALT_INVALID"} ELSE {}

-----------------------------------------------------------------------------
(* The parts of a plan. *)

Waypoint(w, seq) ==
  [seq |-> seq, ident |-> w.ident, type |-> IF w.type = NULL THEN "UNKNOWN" ELSE w.type,
   lat |-> w.pos.lat, lon |-> w.pos.lon, alt |-> ToNumber(w.pos.alt), comment |-> ReadRemark(w).text]

WaypointWarnings(w) ==
  AltitudeWarning(w.pos) \cup ReadRemark(w).warnings
  \cup (IF w.type \in WAYPOINT_TYPES THEN {} ELSE {"UNKNOWN_WAYPOINT_TYPE"})

Alternate(a, seq) ==
  [seq |-> seq, ident |-> a.ident,
   lat |-> IF NoPosition(a.pos) THEN NULL ELSE a.pos.lat,
   lon |-> IF NoPosition(a.pos) THEN NULL ELSE a.pos.lon]

AlternateWarnings(a) ==
  IF NoPosition(a.pos) THEN {"ALTERNATE_POSITION_MISSING"} ELSE AltitudeWarning(a.pos)

\* `shaped`: the idents that are three or four of A-Z and 0-9.
EndWarnings(w, end, shaped) ==
  CASE w.type # "AIRPORT" -> {end}
    [] w.type = "AIRPORT" /\ w.ident \notin shaped -> {"IDENT_NOT_ICAO_SHAPED"}
    [] OTHER -> {}

\* The exact altitude before the rounded one.
Cruise(header) ==
  IF ToNumber(header.cruiseF) # NULL THEN header.cruiseF ELSE ToNumber(header.cruise)

CruiseWarnings(header) ==
  IF ToNumber(header.cruiseF) # NULL THEN {}
  ELSE IF ToNumber(header.cruise) = NULL THEN {"CRUISE_ALT_MISSING"} ELSE {"CRUISE_ALT_F_MISSING"}

CreatedAt(date) == IF date = NULL \/ ~date.valid THEN NULL ELSE NormalizeCreationDate(date).date

CreatedWarnings(date) ==
  IF date = NULL THEN {}
  ELSE (IF NormalizeCreationDate(date).hasOffset THEN {} ELSE {"CREATION_DATE_NO_OFFSET"})
       \cup (IF date.valid THEN {} ELSE {"CREATION_DATE_UNPARSEABLE"})

-----------------------------------------------------------------------------
(* parseLnmpln() *)

\* Mutant: a file that repeats its block loses the later ones.
WaypointsOfFirstBlock(file) == IF file.blocks = <<>> THEN <<>> ELSE file.blocks[1]

WaypointsOf(file) == FlattenSeq(file.blocks)

\* Every complaint that ends the parse, in the order it is come upon.
Faults(file) ==
  LET ws == WaypointsOf(file)
      as == file.alternates
  IN  FlattenSeq([i \in DOMAIN ws |-> WaypointFault(ws[i])])
      \o FlattenSeq([i \in DOMAIN as |-> AlternateFault(as[i])])
      \o DepartureFault(file.departurePos)

Unknown(file) ==
  file.unknown > 0 \/ \E w \in ToSet(WaypointsOf(file)) \cup ToSet(file.alternates) : w.unknown > 0

Warnings(file, shaped) ==
  LET ws == WaypointsOf(file)
  IN  UNION {WaypointWarnings(w) : w \in ToSet(ws)}
      \cup UNION {AlternateWarnings(a) : a \in ToSet(file.alternates)}
      \cup EndWarnings(Head(ws), "SNIPPET_DEPARTURE_NOT_AIRPORT", shaped)
      \cup EndWarnings(Last(ws), "SNIPPET_DESTINATION_NOT_AIRPORT", shaped)
      \cup CruiseWarnings(file.header) \cup CreatedWarnings(file.header.created)
      \cup ReadRemark(file.header).warnings
      \cup (IF file.bom THEN {"BOM_STRIPPED"} ELSE {})
      \cup (IF Len(file.blocks) > 1 THEN {"MULTIPLE_WAYPOINT_BLOCKS"} ELSE {})
      \cup (IF file.procedures THEN {"PROCEDURES_PRESENT_WAYPOINTS_ABSENT"} ELSE {})
      \cup (IF Unknown(file) THEN {"UNKNOWN_ELEMENT"} ELSE {})

Rejected(code) == [ok |-> FALSE, code |-> code]

ParseLnmpln(file, shaped) ==
  LET ws == WaypointsOf(file)
      parsed == [i \in DOMAIN ws |-> Waypoint(ws[i], i)]
  IN  CASE file.form # "plan" -> Rejected(file.form)    \* EMPTY_FILE, NOT_XML, NO_FLIGHTPLAN
        [] file.form = "plan" /\ Len(ws) < 2 -> Rejected("TOO_FEW_WAYPOINTS")
        [] file.form = "plan" /\ Len(ws) >= 2 /\ Faults(file) # <<>> -> Rejected(Head(Faults(file)))
        [] OTHER ->
             [ok |-> TRUE,
              waypoints |-> parsed,
              alternates |-> [i \in DOMAIN file.alternates |-> Alternate(file.alternates[i], i)],
              departure |-> Head(parsed), destination |-> Last(parsed),
              isSnippet |-> Head(parsed).type # "AIRPORT" \/ Last(parsed).type # "AIRPORT",
              cruise |-> Cruise(file.header), createdAt |-> CreatedAt(file.header.created),
              remarks |-> ReadRemark(file.header).text,
              distance |-> FoldLeft(LAMBDA sum, i : sum + Distance(parsed[i], parsed[i + 1]), 0,
                                    [i \in 1..(Len(parsed) - 1) |-> i]),
              warnings |-> Warnings(file, shaped)]

-----------------------------------------------------------------------------
(* What is promised. *)

OnGlobe(lat, lon) == lat \in -90..90 /\ lon \in -180..180

\* A file becomes a plan or one rejection, whatever is wrong with it. What is
\* stored is on the globe; every waypoint of every block is there, in the
\* order of the document; the route is a snippet exactly when it is said to
\* be one; and a plan is free of warnings only if nothing was tolerated.
PlanIsWhatTheFileSays(file, shaped) ==
  LET plan == ParseLnmpln(file, shaped)
      all  == FoldLeft(LAMBDA s, b : s \o b, <<>>, file.blocks)
  IN  plan.ok =>
        /\ Len(plan.waypoints) = Len(all) /\ Len(all) >= 2
        /\ \A i \in DOMAIN all : plan.waypoints[i].seq = i /\ plan.waypoints[i].ident = all[i].ident
        /\ \A w \in ToSet(plan.waypoints) : w.ident # NULL /\ OnGlobe(w.lat, w.lon) /\ w.alt # Text
        /\ \A a \in ToSet(plan.alternates) :
             \/ a.lat = NULL /\ a.lon = NULL
             \/ OnGlobe(a.lat, a.lon)
        /\ plan.isSnippet <=>
             plan.warnings \cap {"SNIPPET_DEPARTURE_NOT_AIRPORT", "SNIPPET_DESTINATION_NOT_AIRPORT"} # {}
        /\ plan.warnings = {} =>
             /\ plan.cruise # NULL /\ plan.cruise = file.header.cruiseF
             /\ plan.createdAt # NULL <=> file.header.created # NULL
             /\ \A w \in ToSet(all) : w.type \in WAYPOINT_TYPES /\ w.description \in {NULL, w.comment}
             /\ {plan.departure.ident, plan.destination.ident} \subseteq shaped

\* A sound file is never refused: a fault is needed for a rejection, and a
\* position on the far side of the globe is none.
SoundFilesAreAccepted(file, shaped) ==
  LET ws == FoldLeft(LAMBDA s, b : s \o b, <<>>, file.blocks)
      Placed(p) == p # NULL /\ p.lat # Text /\ p.lon # Text /\ p.lat # NULL /\ p.lon # NULL
                   /\ OnGlobe(p.lat, p.lon)
      Vacant(p) == p = NULL \/ (p.lat = NULL /\ p.lon = NULL)
  IN  (/\ file.form = "plan" /\ Len(ws) >= 2
       /\ \A w \in ToSet(ws) : w.ident # NULL /\ Placed(w.pos)
       /\ \A a \in ToSet(file.alternates) : a.ident # NULL /\ (Vacant(a.pos) \/ Placed(a.pos))
       /\ Vacant(file.departurePos) \/ Placed(file.departurePos))
      <=> ParseLnmpln(file, shaped).ok
=============================================================================
