---------------------------- MODULE AcarsMessages ----------------------------
(***************************************************************************)
(* What the server computes into its ACARS messages (src/acars.ts): first  *)
(* the figures of a load sheet, a clearance with its squawk and its        *)
(* one-line form, positions, levels, times and the report interval; then   *)
(* the messages, each a body to read and a payload to read back: dispatch  *)
(* release, load sheet, clearance, weather, OOOI and position reports.  A  *)
(* text is its length or a number of which only whether two are equal      *)
(* counts, a route the sequence of the lengths of its tokens, a body the   *)
(* record of what it tells; NULL is what is not known, and Text a value of *)
(* the wrong type.                                                         *)
(***************************************************************************)
EXTENDS Integers, Sequences, FiniteSets, SequencesExt, FiniteSetsExt, Functions

CONSTANTS NULL, Text    \* Text: a setting that is no number

MAX_ACARS_BODY_LENGTH == 4096
MAX_ROUTE_BODY_CHARS == 900
MAX_ACARS_IN_CHARS == 128
DEFAULT_INITIAL_ALTITUDE_FT == 5000
MIN_ETA_GROUND_SPEED_KTS == 30

Round(a, b) == (2 * a + b) \div (2 * b)    \* Math.round(a / b), a >= 0

-----------------------------------------------------------------------------
(* Bodies and canned messages. *)

\* A client's body: [text, length, trimmed]. The length is taken before the
\* trim, so padding does not carry a body past the limit.
ValidateAcarsBody(raw) ==
  CASE ~raw.text                            -> [ok |-> FALSE, code |-> "INVALID_BODY", length |-> 0]
    [] raw.text /\ raw.length > MAX_ACARS_BODY_LENGTH -> [ok |-> FALSE, code |-> "BODY_TOO_LONG", length |-> 0]
    [] raw.text /\ raw.length <= MAX_ACARS_BODY_LENGTH /\ raw.trimmed = 0 ->
         [ok |-> FALSE, code |-> "INVALID_BODY", length |-> 0]
    [] OTHER -> [ok |-> TRUE, code |-> NULL, length |-> raw.trimmed]

ClampRoute(length) ==
  CASE length = NULL -> 3    \* "NIL"
    [] length # NULL /\ length <= MAX_ROUTE_BODY_CHARS -> length
    [] OTHER -> MAX_ROUTE_BODY_CHARS

-----------------------------------------------------------------------------
(* Times, levels and positions. *)

\* HHMM of a number of seconds, never rounded up; NULL is '----'.
Hhmm(sec) == IF sec = NULL \/ sec < 0 THEN NULL
             ELSE [h |-> sec \div 3600, m |-> (sec % 3600) \div 60]

LevelText(ft) ==
  CASE ft = NULL -> "UNKNOWN"
    [] ft # NULL /\ ft >= 18000 -> [fl |-> Round(ft, 100)]
    [] OTHER -> [ft |-> ft]

\* An angle in hundredths of a minute: whole degrees and tenths of minutes.
FormatAngle(v) ==
  LET a      == IF v >= 0 THEN v ELSE -v
      tenths == Round(a % 6000, 10)
  IN  IF tenths >= 600 THEN [positive |-> v >= 0, deg |-> a \div 6000 + 1, tenths |-> 0]
      ELSE [positive |-> v >= 0, deg |-> a \div 6000, tenths |-> tenths]

\* Seconds to the destination, from tenths of a mile; NULL when too slow.
EstimateEnrouteSec(tenthsNm, gs) ==
  IF tenthsNm < 0 \/ gs < MIN_ETA_GROUND_SPEED_KTS THEN NULL ELSE Round(tenthsNm * 360, gs)

\* The setting in thousandths of a minute, NULL or Text; the answer in
\* milliseconds, 0 when reports are off.
ParsePositionReportIntervalMs(raw) ==
  IF raw \in {NULL, Text} THEN 600000
  ELSE CASE raw = 0              -> 0
         [] raw < 0              -> 600000
         [] raw \in 1..499       -> 30000
         [] OTHER                -> raw * 60

-----------------------------------------------------------------------------
(* Load sheet. *)

\* Payload first; the zero fuel weight falls back on the payload found.
LoadsheetFigures(p) ==
  LET block   == IF p.ramp # NULL THEN p.ramp
                 ELSE IF p.takeoff # NULL /\ p.taxi # NULL THEN p.takeoff + p.taxi ELSE NULL
      payload == IF p.payload # NULL THEN p.payload
                 ELSE IF p.est_zfw # NULL /\ p.oew # NULL THEN p.est_zfw - p.oew ELSE NULL
      zfw     == IF p.est_zfw # NULL THEN p.est_zfw
                 ELSE IF p.oew # NULL /\ payload # NULL THEN p.oew + payload ELSE NULL
      Source(filed, found) == IF filed # NULL THEN "simbrief"
                              ELSE IF found # NULL THEN "derived" ELSE "unavailable"
  IN  [block |-> block, payload |-> payload, zfw |-> zfw,
       payloadSource |-> Source(p.payload, payload), zfwSource |-> Source(p.est_zfw, zfw)]

-----------------------------------------------------------------------------
(* Clearance. *)

InitialAltitude(cruise) ==
  IF cruise = NULL THEN DEFAULT_INITIAL_ALTITUDE_FT ELSE Min({DEFAULT_INITIAL_ALTITUDE_FT, cruise})

\* Octal codes as numbers: 0000, 7500, 7600 and 7700.
ReservedCodes == {0, 3904, 3968, 4032}

\* 2654435761 % 4096 = 2481. No two reserved codes are neighbours, so one step
\* leaves them.
SquawkForLeg(leg) ==
  LET n == (leg * 2481) % 4096 IN IF n \in ReservedCodes THEN (n + 1) % 4096 ELSE n

Joined(tokens) == FoldLeft(LAMBDA sum, t : sum + t, 0, tokens) + (Len(tokens) - 1)

\* The whole route, or its first tokens and its last around ' .. ', or a cut
\* after budget - 2 characters, or 'NIL'. `head` counts the tokens kept whole
\* in front. A cut that would end in a space drops it.
ClipRoute(tokens, budget) ==
  LET suffix == 4 + Last(tokens)
      fits   == {n \in 1..(Len(tokens) - 1) : Joined(SubSeq(tokens, 1, n)) + suffix <= budget}
      endsInSpace == \E n \in 1..(Len(tokens) - 1) : Joined(SubSeq(tokens, 1, n)) + 1 = budget - 2
  IN  IF Joined(tokens) <= budget THEN [length |-> Joined(tokens), head |-> Len(tokens), whole |-> TRUE]
      ELSE IF fits # {}
      THEN [length |-> Joined(SubSeq(tokens, 1, Max(fits))) + suffix, head |-> Max(fits), whole |-> FALSE]
      ELSE IF budget >= 3
      THEN [length |-> IF endsInSpace THEN budget - 1 ELSE budget, head |-> 0, whole |-> FALSE]
      ELSE [length |-> 3, head |-> 0, whole |-> FALSE]

\* 'PDC <dep> <dst> CLRD ' ... ' CLB <level> SQ <squawk>'.
CondensedClearance(dep, dst, tokens, levelLength) ==
  LET head   == 11 + dep + dst
      tail   == 13 + levelLength
      budget == MAX_ACARS_IN_CHARS - head - tail
      route  == IF tokens = <<>> \/ budget < 5 THEN [length |-> 3, head |-> 0, whole |-> FALSE]
                ELSE ClipRoute(tokens, budget)
      length == head + route.length + tail
  IN  [route |-> route, length |-> Min({length, MAX_ACARS_IN_CHARS}),
       cut |-> length > MAX_ACARS_IN_CHARS]

-----------------------------------------------------------------------------
(* The dispatch payload: [fields, alternates].  buildDispatchPayload copies *)
(* each field from the plan's field named here.                             *)

PLAN_FIELD ==
  [request_id |-> "requestId", sequence_id |-> "sequenceId", time_generated |-> "timeGenerated",
   flight_number |-> "flightNumber", aircraft_type |-> "aircraftType", aircraft_reg |-> "aircraftReg",
   origin |-> "departure", destination |-> "destination", route |-> "routeString",
   cruise_alt_ft |-> "cruiseAltFt", units |-> "units", ete_sec |-> "estTimeEnrouteSec",
   block_time_sec |-> "estBlockSec", ramp |-> "planRamp", takeoff |-> "planTakeoff", landing |-> "planLanding",
   taxi |-> "taxi", enroute_burn |-> "enrouteBurn", contingency |-> "contingency", reserve |-> "reserve",
   alternate_burn |-> "alternateBurn", oew |-> "oew", payload |-> "payload", est_zfw |-> "estZfw",
   max_zfw |-> "maxZfw", est_tow |-> "estTow", est_ldw |-> "estLdw", pax_count |-> "paxCount", cargo |-> "cargo"]

Fields == DOMAIN PLAN_FIELD

GROUP ==
  [ofp     |-> {"request_id", "sequence_id", "time_generated"},
   fuel    |-> {"ramp", "takeoff", "landing", "taxi", "enroute_burn", "contingency", "reserve", "alternate_burn"},
   weights |-> {"oew", "payload", "est_zfw", "max_zfw", "est_tow", "est_ldw", "pax_count", "cargo"}]

BuildDispatchPayload(plan, alternates) ==
  [fields |-> [f \in Fields |-> plan[PLAN_FIELD[f]]], alternates |-> alternates]

(* What a row holds: form "object" with its version and source, the groups  *)
(* that are no objects any more, and the fields still there.                *)
Stored(payload) ==
  [form |-> "object", v |-> 1, source |-> "simbrief", lost |-> {}, fields |-> payload.fields,
   alternates |-> payload.alternates]

\* Mutant: one field of the wrong type makes the whole record unusable.
ParseAllOrNothing(raw) ==
  IF raw.form # "object" \/ raw.v # 1 \/ raw.source # "simbrief" THEN NULL
  ELSE IF raw.lost # {} \/ \E f \in DOMAIN raw.fields : raw.fields[f] = Text THEN NULL
  ELSE [fields |-> [f \in Fields |-> IF f \in DOMAIN raw.fields THEN raw.fields[f] ELSE NULL],
        alternates |-> IF raw.alternates = Text THEN <<>> ELSE raw.alternates]

ParseDispatchPayload(raw) ==
  LET Lost(f) == \E g \in raw.lost : f \in GROUP[g]
      Read(f) == IF Lost(f) \/ f \notin DOMAIN raw.fields THEN NULL
                 ELSE IF raw.fields[f] = Text THEN NULL ELSE raw.fields[f]
  IN  IF raw.form # "object" \/ raw.v # 1 \/ raw.source # "simbrief" THEN NULL
      ELSE [fields |-> [f \in Fields |-> Read(f)],
            alternates |-> IF raw.alternates = Text THEN <<>>
                           ELSE FoldLeft(LAMBDA read, a : IF a = Text THEN read ELSE Append(read, a), <<>>,
                                         raw.alternates)]

DispatchReleaseBody(p, issued) ==
  LET d == p.fields
  IN  [flight |-> d.flight_number, from |-> d.origin, to |-> d.destination, alternates |-> p.alternates,
       aircraft |-> d.aircraft_type, reg |-> d.aircraft_reg, level |-> LevelText(d.cruise_alt_ft),
       ete |-> Hhmm(d.ete_sec), units |-> d.units, block |-> d.ramp, trip |-> d.enroute_burn,
       reserve |-> d.reserve, alternate |-> d.alternate_burn, contingency |-> d.contingency, taxi |-> d.taxi,
       route |-> ClampRoute(d.route), ofp |-> d.request_id, issued |-> issued]

LoadsheetRequestBody(p) == [from |-> p.fields.origin, to |-> p.fields.destination, flight |-> p.fields.flight_number]

LoadsheetReplyBody(p, issued) ==
  LET d     == p.fields
      sheet == LoadsheetFigures(d)
  IN  [flight |-> d.flight_number, from |-> d.origin, to |-> d.destination, aircraft |-> d.aircraft_type,
       reg |-> d.aircraft_reg, units |-> d.units, block |-> sheet.block, taxi |-> d.taxi, takeoff |-> d.takeoff,
       trip |-> d.enroute_burn, pax |-> d.pax_count, cargo |-> d.cargo, payload |-> sheet.payload, dow |-> d.oew,
       zfw |-> sheet.zfw, max |-> d.max_zfw, tow |-> d.est_tow, ldw |-> d.est_ldw, issued |-> issued]

-----------------------------------------------------------------------------
(* The clearance of a leg, made from its dispatch payload. *)

BuildClearanceDetails(p, leg) ==
  [from |-> p.fields.origin, to |-> p.fields.destination, route |-> ClampRoute(p.fields.route),
   altitude |-> InitialAltitude(p.fields.cruise_alt_ft), squawk |-> SquawkForLeg(leg)]

ClearanceBody(c) == [from |-> c.from, to |-> c.to, route |-> c.route, level |-> LevelText(c.altitude), squawk |-> c.squawk]

(* parseClearancePayload: 0 is the squawk "0000", which is given to no leg. *)
ParseClearancePayload(raw) ==
  LET Str(f) == IF f \in DOMAIN raw.fields /\ raw.fields[f] # Text THEN raw.fields[f] ELSE NULL
      Or(f, default) == IF Str(f) = NULL THEN default ELSE Str(f)
  IN  IF raw.form # "object" \/ raw.v # 1 THEN NULL
      ELSE [from |-> Str("from"), to |-> Str("to"), route |-> Str("route"),
            altitude |-> Or("altitude", DEFAULT_INITIAL_ALTITUDE_FT), squawk |-> Or("squawk", 0)]

-----------------------------------------------------------------------------
(* Weather: a station is asked for as it is normalised, or not at all.  raw *)
(* is [letters, padded, lower, shaped].                                     *)

NormaliseIcao(raw) == [raw EXCEPT !.padded = FALSE, !.lower = FALSE]

WxMessages(raw, metar, taf) ==
  LET icao == NormaliseIcao(raw)
  IN  IF ~icao.shaped THEN NULL
      ELSE [request |-> icao.letters,
            reply |-> IF metar = NULL THEN [label |-> "WX UNAVAILABLE", about |-> icao.letters, lines |-> <<>>]
                      ELSE [label |-> "METAR", about |-> icao.letters,
                            lines |-> IF taf = NULL THEN <<metar>> ELSE <<metar, taf>>]]

-----------------------------------------------------------------------------
(* OOOI and position reports, from one input each.  A moment is a number of *)
(* seconds, told to the minute of its day; NULL cannot be parsed.           *)

Hhmmz(at) == IF at = NULL THEN NULL ELSE (at % 86400) \div 60

OooiBody(i) ==
  [event |-> i.event, airport |-> i.airport, time |-> Hhmmz(i.at), aircraft |-> i.aircraft, stand |-> i.stand,
   destination |-> i.destination,
   estimated |-> IF ~i.estimated THEN NULL
                 ELSE CASE i.event = "OUT" -> "TAKEOFF" [] i.event = "ON" -> "FLIGHT END" [] OTHER -> "APPROXIMATE"]

OooiPayload(i) ==
  [event |-> i.event, at |-> i.at, airport |-> i.airport, stand |-> i.stand, estimated |-> i.estimated, leg |-> i.leg]

OooiMessage(i) ==
  [flight |-> i.flight, label |-> i.event, body |-> OooiBody(i), payload |-> OooiPayload(i),
   key |-> <<"oooi", i.flight, i.event>>, sentAt |-> i.at]

PositionReportBody(i) ==
  LET ete == EstimateEnrouteSec(i.remaining, i.gs)
  IN  [lat |-> FormatAngle(i.lat), lon |-> FormatAngle(i.lon), time |-> Hhmmz(i.at), level |-> LevelText(i.altitude),
       gs |-> i.gs, hdg |-> i.heading, next |-> i.next, destination |-> i.destination, remaining |-> i.remaining,
       ete |-> Hhmm(ete), eta |-> IF ete = NULL THEN NULL ELSE Hhmmz(i.at + ete)]

PositionReportPayload(i) ==
  LET ete == EstimateEnrouteSec(i.remaining, i.gs)
  IN  [at |-> i.at, window |-> i.window, lat |-> i.lat, lon |-> i.lon, altitude |-> i.altitude, gs |-> i.gs,
       heading |-> i.heading, next |-> i.next, destination |-> i.destination, remaining |-> i.remaining, ete |-> ete,
       eta |-> IF ete = NULL THEN NULL ELSE i.at + ete, leg |-> i.leg]

PositionReportMessage(i) ==
  [flight |-> i.flight, label |-> "POS REPORT", body |-> PositionReportBody(i), payload |-> PositionReportPayload(i),
   key |-> <<"position-report", i.flight, i.window>>, sentAt |-> i.at]

-----------------------------------------------------------------------------
(* What they promise. *)

\* The figures add up: where the plan has no payload or no zero fuel weight,
\* the one is worked out of the other and never both, and what is called
\* SimBrief's is SimBrief's.
LoadsheetAddsUp(p) ==
  LET s == LoadsheetFigures(p)
  IN  /\ ~(s.payloadSource = "derived" /\ s.zfwSource = "derived")
      /\ "derived" \in {s.payloadSource, s.zfwSource} => p.oew # NULL /\ s.zfw = p.oew + s.payload
      /\ s.payloadSource = "unavailable" <=> s.payload = NULL
      /\ s.payloadSource = "unavailable" => s.zfwSource # "derived"
      /\ s.zfwSource = "unavailable" <=> s.zfw = NULL
      /\ p.payload # NULL => s.payload = p.payload
      /\ p.est_zfw # NULL => s.zfw = p.est_zfw

\* The one-line clearance fits SayIntentions' limit with its level and its
\* squawk whole, keeps the first and last token of a route while both fit,
\* and never drops more of it than it must.
ClearanceFits(dep, dst, tokens, levelLength) ==
  LET m      == CondensedClearance(dep, dst, tokens, levelLength)
      budget == MAX_ACARS_IN_CHARS - (24 + dep + dst + levelLength)
  IN  /\ m.length <= MAX_ACARS_IN_CHARS
      /\ budget >= 3 => ~m.cut
      /\ tokens # <<>> /\ budget >= 5 =>
           /\ m.route.length <= budget
           /\ m.route.whole <=> Joined(tokens) <= budget
           /\ (Len(tokens) >= 2 /\ tokens[1] + 4 + Last(tokens) <= budget) => m.route.head >= 1
           /\ (~m.route.whole /\ m.route.head \in 1..(Len(tokens) - 2)) =>
                m.route.length + 1 + tokens[m.route.head + 1] > budget

\* No leg is given a reserved code, and two of 4096 legs in a row share one
\* only where a reserved code was stepped over.
SquawksTellLegsApart(leg, other) ==
  /\ SquawkForLeg(leg) \in (0..4095) \ ReservedCodes
  /\ (leg # other /\ SquawkForLeg(leg) = SquawkForLeg(other)) =>
       \/ (leg - other) % 4096 = 0
       \/ {(leg * 2481) % 4096, (other * 2481) % 4096} \cap ReservedCodes # {}

\* A position reads within half a tenth of a minute and never 60 minutes.
PositionReadsTrue(v) ==
  LET p == FormatAngle(v)
      a == IF v >= 0 THEN v ELSE -v
      read == p.deg * 6000 + p.tenths * 10
  IN  p.tenths \in 0..599 /\ read - a \in -5..5

\* A flown time never reads longer than it is, a level is within 50 ft, an
\* ETE needs speed, and the interval is off only when it was set to 0.
NumbersReadTrue(n) ==
  /\ Hhmm(n) # NULL => Hhmm(n).m \in 0..59 /\ n - (Hhmm(n).h * 3600 + Hhmm(n).m * 60) \in 0..59
  /\ n >= 18000 => n - LevelText(n).fl * 100 \in -50..50
  /\ \A gs \in {0, 29, 30, 450} :
       LET s == EstimateEnrouteSec(n, gs)
       IN  s = NULL \/ (gs >= 30 /\ 2 * (s * gs - n * 360) \in -gs..gs)
  /\ ParsePositionReportIntervalMs(n) = 0 <=> n = 0
  /\ ParsePositionReportIntervalMs(n) # 0 => ParsePositionReportIntervalMs(n) >= 30000
  /\ ClampRoute(n) <= MAX_ROUTE_BODY_CHARS \/ n < 0

(* A filed release reads back as it was filed; a damaged field, or a group  *)
(* of them, reads as unknown and takes no other with it; a record of        *)
(* another version is none.  What is told of it is what is on file.         *)
DispatchIsReadAsFiled(plan, alternates, damaged, lost, version) ==
  LET filed == BuildDispatchPayload(plan, alternates)
      raw   == [Stored(filed) EXCEPT !.v = version, !.lost = lost,
                                     !.fields = [f \in Fields |-> IF f \in damaged THEN Text ELSE @[f]]]
      read  == ParseDispatchPayload(raw)
      gone  == damaged \cup UNION {GROUP[g] : g \in lost}
  IN  /\ read = NULL <=> version # 1
      /\ read # NULL =>
           /\ \A f \in Fields : read.fields[f] = IF f \in gone THEN NULL ELSE filed.fields[f]
           /\ read.alternates = alternates
           /\ gone = {} => /\ DispatchReleaseBody(read, 1) = DispatchReleaseBody(filed, 1)
                           /\ LoadsheetReplyBody(read, 1).from = LoadsheetRequestBody(filed).from
           /\ LET sheet == LoadsheetReplyBody(read, 1)
              IN  /\ {"ramp", "takeoff"} \subseteq gone => sheet.block = NULL
                  /\ sheet.max = NULL <=> read.fields.max_zfw = NULL
                  /\ sheet.zfw # NULL /\ read.fields.est_zfw = NULL =>
                       sheet.zfw = read.fields.oew + read.fields.payload

(* A clearance reads back as it was issued; what its row has lost reads as  *)
(* unknown, as the default level, or as a squawk no leg is given; and its   *)
(* body says what its payload says.                                         *)
ClearanceIsReadAsIssued(plan, leg, damaged) ==
  LET filed  == BuildDispatchPayload(plan, <<>>)
      issued == BuildClearanceDetails(filed, leg)
      read   == ParseClearancePayload([form |-> "object", v |-> 1,
                                       fields |-> [f \in DOMAIN issued |-> IF f \in damaged THEN Text ELSE issued[f]]])
  IN  /\ damaged = {} => read = issued /\ ClearanceBody(read) = ClearanceBody(issued)
      /\ \A f \in DOMAIN issued \ damaged : read[f] = issued[f]
      /\ (read.squawk = 0) = ("squawk" \in damaged)
      /\ read.altitude <= DEFAULT_INITIAL_ALTITUDE_FT

(* A report's row, body and payload speak of one moment: the body's ETE and *)
(* ETA are its payload's to the minute, both are told or neither, and two   *)
(* reports share a key only when they are one report.                       *)
ReportsSpeakOfOneMoment(i, j) ==
  LET m == PositionReportMessage(i)
      o == OooiMessage(i)
  IN  /\ m.body.time = Hhmmz(m.sentAt) /\ m.payload.at = m.sentAt
      /\ m.body.ete = Hhmm(m.payload.ete) /\ m.body.eta = Hhmmz(m.payload.eta)
      /\ (m.payload.ete = NULL) = (m.payload.eta = NULL)
      /\ m.payload.ete # NULL => m.payload.eta - m.payload.at = m.payload.ete
      /\ i.gs >= MIN_ETA_GROUND_SPEED_KTS =>
           m.payload.ete * i.gs * 2 - i.remaining * 720 \in -i.gs..i.gs
      /\ m.key = PositionReportMessage(j).key <=> i.flight = j.flight /\ i.window = j.window
      /\ o.body.time = Hhmmz(o.payload.at) /\ (o.body.estimated # NULL) = o.payload.estimated
      /\ o.key = OooiMessage(j).key <=> i.flight = j.flight /\ i.event = j.event

(* However a station is written it is asked for, answered and kept under    *)
(* one name, and weather is told only with its METAR.                       *)
WeatherIsOfTheStation(raw, metar, taf) ==
  LET m == WxMessages(raw, metar, taf)
  IN  /\ (m = NULL) = ~raw.shaped
      /\ m # NULL => /\ m.reply.about = m.request
                     /\ m = WxMessages([raw EXCEPT !.lower = ~@, !.padded = ~@], metar, taf)
                     /\ metar = NULL => m.reply.lines = <<>>
                     /\ taf # NULL /\ metar # NULL => m.reply.lines = <<metar, taf>>
=============================================================================
