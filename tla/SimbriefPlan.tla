---------------------------- MODULE SimbriefPlan ----------------------------
(***************************************************************************)
(* parseSimbriefPlan() and validateSimbriefUserId() (src/simbrief.ts): from *)
(* the answer of SimBrief to a plan with its warnings, or a rejection.  A  *)
(* member that is absent, "" or {} is NULL; a number is the number, or     *)
(* Text when the text is none.  A node of the answer that may be a list,   *)
(* one bare object or nothing is [kind, items].  An endpoint is [ident,    *)
(* lat, lon, alt], a fix [ident, type, lat, lon, alt]; what is not an      *)
(* object is NULL.                                                         *)
(***************************************************************************)
EXTENDS Integers, Sequences, FiniteSets, SequencesExt

CONSTANTS NULL, Text,
          Distance(_, _)    \* the great circle between two fixes

Num(v) == IF v = Text THEN NULL ELSE v

\* PHP writes a list of one as the thing itself, and an empty list as {}.
Arr(node) ==
  CASE node.kind = "list"  -> SelectSeq(node.items, LAMBDA x : x # NULL)
    [] node.kind = "bare"  -> node.items
    [] OTHER               -> <<>>

FIX_TYPES == [apt |-> "AIRPORT", wpt |-> "WAYPOINT", vor |-> "VOR", ndb |-> "NDB", ltlg |-> "USER"]

Rejected(code) == [ok |-> FALSE, code |-> code]

\* A user id is [text, digits, length]: what is left of it once it is trimmed.
ValidateSimbriefUserId(raw) ==
  CASE raw # NULL /\ ~raw.text            -> Rejected("INVALID_ID")
    [] raw = NULL \/ (raw # NULL /\ raw.text /\ raw.length = 0) -> [ok |-> TRUE, clears |-> TRUE]
    [] OTHER -> IF raw.digits /\ raw.length <= 20 THEN [ok |-> TRUE, clears |-> FALSE]
                ELSE Rejected("INVALID_ID")

-----------------------------------------------------------------------------
(* Positions and ends. *)

InRange(lat, lon) == lat \in -90..90 /\ lon \in -180..180

EndpointFault(node) ==
  CASE node.ident = NULL -> <<"NOT_AN_OFP">>
    [] OTHER -> IF Num(node.lat) # NULL /\ Num(node.lon) # NULL /\ InRange(node.lat, node.lon)
                THEN <<>> ELSE <<"BAD_POSITION">>

AirportFix(node) ==
  [ident |-> node.ident, type |-> "AIRPORT", lat |-> Num(node.lat), lon |-> Num(node.lon),
   alt |-> Num(node.alt), pseudo |-> FALSE]

FixType(type) ==
  CASE type = NULL -> "UNKNOWN"
    [] type # NULL /\ type \in DOMAIN FIX_TYPES -> FIX_TYPES[type]
    [] OTHER -> type

NavlogFix(fix) ==
  [ident |-> fix.ident, type |-> FixType(fix.type), lat |-> Num(fix.lat), lon |-> Num(fix.lon),
   alt |-> Num(fix.alt), pseudo |-> fix.type = "ltlg"]

-----------------------------------------------------------------------------
(* The chain. *)

OriginInNavlog(ofp) == Arr(ofp.fixes)[1].ident = ofp.origin.ident

DestinationInNavlog(ofp) == Last(Arr(ofp.fixes)).ident = ofp.destination.ident

RawChain(ofp) ==
  (IF OriginInNavlog(ofp) THEN <<>> ELSE <<AirportFix(ofp.origin)>>)
    \o [i \in DOMAIN Arr(ofp.fixes) |-> NavlogFix(Arr(ofp.fixes)[i])]
    \o (IF DestinationInNavlog(ofp) THEN <<>> ELSE <<AirportFix(ofp.destination)>>)

Usable(fix) == fix.ident # NULL /\ fix.lat # NULL /\ fix.lon # NULL

\* What cannot be stored is dropped; what is left is numbered afresh.
Waypoints(ofp) ==
  LET kept == SelectSeq(RawChain(ofp), Usable)
  IN  [i \in DOMAIN kept |-> [seq |-> i, ident |-> kept[i].ident, type |-> kept[i].type,
                              lat |-> kept[i].lat, lon |-> kept[i].lon, alt |-> kept[i].alt]]

\* An alternate keeps the place it had in the list, a nameless one leaves a gap.
Alternates(ofp) ==
  LET given == Arr(ofp.alternates)
      all == [i \in DOMAIN given |-> [seq |-> i, ident |-> given[i].ident,
                                      lat |-> Num(given[i].lat), lon |-> Num(given[i].lon)]]
  IN  SelectSeq(all, LAMBDA a : a.ident # NULL)

FlightplanType(rules) ==
  CASE rules = "I" -> "IFR" [] rules = "V" -> "VFR" [] OTHER -> rules

HasFigures(ofp) == Num(ofp.planRamp) # NULL \/ Num(ofp.estZfw) # NULL

Warnings(ofp) ==
  LET raw == RawChain(ofp)
      fixes == Arr(ofp.fixes)
      If(condition, code) == IF condition THEN {code} ELSE {}
  IN  If(OriginInNavlog(ofp), "ORIGIN_IN_NAVLOG")
      \cup If(\E f \in ToSet(fixes) : f.type # NULL /\ f.type \notin DOMAIN FIX_TYPES, "UNKNOWN_FIX_TYPE")
      \cup If(\E f \in ToSet(raw) : ~Usable(f), "FIX_MISSING_POSITION")
      \cup If(\E f \in ToSet(raw) : Usable(f) /\ f.pseudo, "PSEUDO_WAYPOINTS")
      \cup If(Alternates(ofp) = <<>>, "NO_ALTERNATES")
      \cup If(Num(ofp.cruise) = NULL, "NO_CRUISE_ALTITUDE")
      \cup If(~HasFigures(ofp), "NO_DISPATCH_FIGURES")

-----------------------------------------------------------------------------
(* parseSimbriefPlan(): every complaint that ends it, in its order. *)

Faults(ofp) ==
  IF ~ofp.json THEN <<"NOT_JSON">>
  ELSE IF ofp.origin = NULL \/ ofp.destination = NULL THEN <<"NOT_AN_OFP">>
  ELSE IF EndpointFault(ofp.origin) # <<>> THEN EndpointFault(ofp.origin)
  ELSE IF EndpointFault(ofp.destination) # <<>> THEN EndpointFault(ofp.destination)
  ELSE IF Arr(ofp.fixes) = <<>> THEN <<"NO_ROUTE">>
  ELSE IF \E w \in ToSet(Waypoints(ofp)) : ~InRange(w.lat, w.lon) THEN <<"BAD_POSITION">>
  ELSE IF Len(Waypoints(ofp)) < 2 THEN <<"NO_ROUTE">> ELSE <<>>

ParseSimbriefPlan(ofp) ==
  IF Faults(ofp) # <<>> THEN Rejected(Head(Faults(ofp)))
  ELSE LET ws == Waypoints(ofp)
       IN  [ok |-> TRUE, isSnippet |-> FALSE,
            departure |-> [ident |-> ofp.origin.ident, lat |-> ofp.origin.lat, lon |-> ofp.origin.lon],
            destination |-> [ident |-> ofp.destination.ident,
                             lat |-> ofp.destination.lat, lon |-> ofp.destination.lon],
            waypoints |-> ws, alternates |-> Alternates(ofp), cruise |-> Num(ofp.cruise),
            flightplanType |-> FlightplanType(ofp.rules), createdAt |-> Num(ofp.generated),
            distance |-> FoldLeft(LAMBDA sum, i : sum + Distance(ws[i], ws[i + 1]), 0,
                                  [i \in 1..(Len(ws) - 1) |-> i]),
            warnings |-> Warnings(ofp)]

-----------------------------------------------------------------------------
(* What is promised. *)

\* The route that is stored is the navlog between the two ends and nothing
\* else: every fix that can be drawn, once, in its order; the ends of the
\* flight at its ends unless the navlog names one without a place for it;
\* everything that was dropped, guessed or missing is told.
RouteIsTheNavlog(ofp) ==
  LET plan  == ParseSimbriefPlan(ofp)
      fixes == Arr(ofp.fixes)
      ws    == plan.waypoints
      Drawn(f) == f.ident # NULL /\ f.lat \notin {NULL, Text} /\ f.lon \notin {NULL, Text}
      drawn == SelectSeq(fixes, Drawn)
      atOrigin == Drawn(fixes[1]) /\ fixes[1].ident = ofp.origin.ident
      atDestination == Drawn(Last(fixes)) /\ Last(fixes).ident = ofp.destination.ident
  IN  plan.ok =>
        /\ Len(ws) >= 2 /\ \A i \in DOMAIN ws : ws[i].seq = i /\ InRange(ws[i].lat, ws[i].lon)
        /\ \A i \in DOMAIN drawn :
             ws[IF fixes[1].ident = ofp.origin.ident THEN i ELSE i + 1].ident = drawn[i].ident
        /\ Len(ws) - Len(drawn) =
             Cardinality({end \in {"from", "to"} :
               IF end = "from" THEN fixes[1].ident # ofp.origin.ident
               ELSE Last(fixes).ident # ofp.destination.ident})
        /\ ws[1].ident # plan.departure.ident => "FIX_MISSING_POSITION" \in plan.warnings
        /\ Last(ws).ident # plan.destination.ident => "FIX_MISSING_POSITION" \in plan.warnings
        /\ atOrigin => "ORIGIN_IN_NAVLOG" \in plan.warnings
        /\ plan.warnings = {} =>
             /\ Len(drawn) = Len(fixes) /\ plan.cruise # NULL /\ plan.alternates # <<>>
             /\ \A w \in ToSet(ws) : w.type \in {"AIRPORT", "WAYPOINT", "VOR", "NDB", "UNKNOWN"}
=============================================================================
