--------------------------- MODULE MCComputations ---------------------------
(***************************************************************************)
(* The computations of the server and of the client's pages, each compared *)
(* with what it promises on every input of a small set.  A behaviour picks *)
(* a subject, then one question of it; the property of the subject is an   *)
(* invariant of the question.                                              *)
(***************************************************************************)
EXTENDS Questions, FiniteSets, SequencesExt, FiniteSetsExt, TLC

\* What the modules are given: distances, the order of names, and what a flight says.
Apart(v, w) == IF v.lon > w.lon THEN v.lon - w.lon ELSE w.lon - v.lon
Far(a, b)   == IF a > b THEN a - b ELSE b - a
Itself(a)   == a
AnyOrder(r) == 0
InText(f, token) == token \in f.text

Matcher   == INSTANCE LegMatcher WITH Radius <- 2
Chain     == INSTANCE ChainOrder
Country   == [n \in {"a", "b", "c"} |-> IF n = "c" THEN NULL ELSE "land"]
Trip      == INSTANCE Journey
History   == INSTANCE FlightHistory WITH FillerCount <- 2, Top <- 1, MaxTrack <- 3, MaxSet <- 3, Distance <- Far,
                                  Rank <- Itself, RankRoute <- AnyOrder, Says <- InText
Sky       == INSTANCE Traffic WITH MaxBatch <- 3, MaxRetained <- 2, Stale <- 1
Tool      == INSTANCE McpTools WITH LimitDefault <- 3, LimitMax <- 4, WaypointCap <- 4, MessageCap <- 5, TermMax <- 2,
                              QueryMax <- 4
Replica   == INSTANCE NavdataRows WITH MaxBatchRows <- 2, BatchRowCeiling <- 3
Playback  == INSTANCE Replay WITH Gap <- 3, Collapsed <- 2
Lnm       == INSTANCE LnmPlan WITH Distance <- Apart
Simbrief  == INSTANCE SimbriefPlan WITH Distance <- Apart
Route     == INSTANCE RouteGeometry WITH Join <- 1, MaxHops <- 3, MaxVisited <- 9, Tolerance <- 2
Demand    == INSTANCE NavdataDemand WITH Join <- 1, MaxHops <- 3, MaxVisited <- 9, Cap <- 2, SidesPerGap <- 1
Query     == INSTANCE NavdataQuery WITH Half <- 2, Rows <- 3, Budget <- 2
View      == INSTANCE NavdataQuery WITH Half <- 12, Rows <- 10, Budget <- 2

SeqsUpTo(S, n) == UNION {[1..k -> S] : k \in 0..n}

-----------------------------------------------------------------------------
(* The planner: the matcher and the order of a batch. *)

MatchInput ==
  LET kinds == {<<"t", "planned", FALSE, TRUE>>, <<"t", "planned", TRUE, TRUE>>, <<"t", "flown", TRUE, TRUE>>,
                <<"t", "skipped", FALSE, TRUE>>, <<"t", "planned", FALSE, FALSE>>, <<"u", "planned", FALSE, TRUE>>}
      shapes == SeqsUpTo(kinds \X (1..3), 3)
      Leg(i, k) == [id |-> i, trip |-> k[1][1], status |-> k[1][2], held |-> k[1][3], airport |-> k[1][4],
                    distance |-> k[2]]
  IN  {[linked |-> FALSE, trip |-> "t", legs |-> [i \in DOMAIN s |-> Leg(i, s[i])]] : s \in shapes}
      \cup {[linked |-> l, trip |-> t, legs |-> [i \in DOMAIN s |-> Leg(i, s[i])]] :
              s \in SeqsUpTo({<<<<"t", "planned", FALSE, TRUE>>, 1>>}, 1), l \in BOOLEAN, t \in {"t", "u", NULL}}

ChainInput ==
  SeqsUpTo([from : 1..3, to : 1..3, airports : {TRUE}], 4)
    \cup SeqsUpTo([from : 1..2, to : 2..3, airports : BOOLEAN], 2)

-----------------------------------------------------------------------------
(* The pages of a trip and the flights of a logbook. *)

RowsInput ==
  {[flights |-> [i \in DOMAIN s |-> [id |-> i, leg |-> s[i]]],
    legs |-> {[id |-> l, seq |-> seqs[l], held |-> l \in ToSet(s) \cup elsewhere] : l \in 1..3}] :
     s \in {f \in SeqsUpTo({NULL, 1, 2, 3}, 3) : \A i, j \in DOMAIN f : i # j => f[i] = NULL \/ f[i] # f[j]},
     seqs \in {f \in [1..3 -> 1..3] : \A i, j \in 1..3 : i # j => f[i] # f[j]},
     elsewhere \in {{}, {2}}}

JourneyInput ==
  LET stops == [from : {"a", "b", "c", NULL}, to : {"a", "b", "c", NULL}]
      Flight(i, s) == [id |-> i, start |-> i, from |-> s[i].from, to |-> s[i].to, distance |-> i,
                       aircraft |-> IF i = 2 THEN NULL ELSE "x"]
      Legs(p) == {[id |-> i, status |-> p[i][1], distance |-> p[i][2]] : i \in DOMAIN p}
      plans == SeqsUpTo({"planned", "skipped", "flown", "diverted"} \X {1, 999, 2999}, 2)
  IN  {[flights |-> {Flight(i, s) : i \in DOMAIN s}, planned |-> {}] : s \in SeqsUpTo(stops, 3)}
      \cup {[flights |-> {}, planned |-> Legs(p)] : p \in plans}

\* Two flights of the logbook, with points inside them.
Flights(n) ==
  UNION {{[id |-> n, start |-> t, end |-> e, duration |-> d, distance |-> n, points |-> p, aircraft |-> a,
           from |-> NULL, to |-> NULL, plan |-> a, notes |-> <<>>] :
            e \in {NULL, 5, 8}, d \in {NULL, 2}, a \in {NULL, "x"}, p \in {<<>>, <<t + n - 1>>, <<t, t + n>>}} :
         t \in {1, 4}}

StatsInput ==
  LET rows == {[start |-> t, end |-> e, duration |-> NULL, distance |-> t, aircraft |-> a,
                from |-> "a", to |-> r] : t \in 1..3, e \in {NULL, 6}, a \in {NULL, 1, 2}, r \in {NULL, "b"}}
      At(i) == {r \in rows : r.start = i}
  IN  [flights : {{f, g, h} : f \in At(1), g \in At(2), h \in At(3)}, middle : 2..3]

SearchInput ==
  LET texts == SUBSET {"p", "q"}
  IN  {[flights |-> {[start |-> t, text |-> says[t]] : t \in times}, tokens |-> k, limit |-> n] :
         times \in SUBSET (1..3), says \in [1..3 -> texts], k \in texts, n \in 1..2}

\* Tracks of no point to nine, flights that start together, ids sent twice.
ExportInput ==
  LET Stored(starts, k) == {[id |-> i, start |-> starts[i], end |-> NULL,
                             points |-> [n \in 1..((k + 3 * i) % 10) |-> n]] : i \in 1..3}
  IN  {[ids |-> s, stored |-> Stored(starts, k)] : s \in SeqsUpTo(1..4, 4), starts \in [1..3 -> 1..2], k \in 0..9}

TextInput == SeqsUpTo({"&", "<", "'", "a", "control"}, 4)

-----------------------------------------------------------------------------
(* The messages of ACARS. *)

LoadsheetInput ==
  [ramp : {NULL, 9}, takeoff : {NULL, 8}, taxi : {NULL, 1}, payload : {NULL, 3}, est_zfw : {NULL, 6}, oew : {NULL, 2}]

ClearanceInput ==
  [dep : {3, 4}, dst : {3, 4}, level : {5, 9}, tokens : SeqsUpTo({5, 40, 42, 49, 91}, 4)]
    \cup [dep : {50, 52, 60}, dst : {43}, level : {5}, tokens : SeqsUpTo({5, 9}, 2)]

SquawkInput == {<<leg, leg + k>> : leg \in (0..4096), k \in {1, 1651, 4096}}

\* A plan of which nothing, one field, or everything is known.
DispatchInput ==
  LET names  == {Message!PLAN_FIELD[f] : f \in Message!Fields}
      full   == [n \in names |-> IF n = "routeString" THEN 950 ELSE IF n = "oew" THEN 4 ELSE 9]
      some   == [n \in names |-> IF n \in {"planRamp", "payload", "estZfw", "cruiseAltFt"} THEN NULL ELSE full[n]]
      damage == {{}} \cup {{f} : f \in Message!Fields} \cup {{"ramp", "takeoff"}, {"payload", "est_zfw"}, Message!Fields}
  IN  [plan : {full, some, [n \in names |-> NULL]}, alternates : SeqsUpTo({1, 2}, 2), damaged : damage,
       lost : SUBSET DOMAIN Message!GROUP, version : {1, 2}]

IssueInput ==
  LET names == {Message!PLAN_FIELD[f] : f \in Message!Fields}
      Plan(level, route) == [n \in names |-> CASE n = "cruiseAltFt" -> level [] n = "routeString" -> route [] OTHER -> 7]
  IN  [plan : {Plan(l, r) : l \in {NULL, 3000, 35000}, r \in {NULL, 40, 950}}, leg : {1, 2, 1651},
       damaged : SUBSET {"from", "to", "route", "altitude", "squawk"}]

ReportInput ==
  LET i == [event |-> "ON", airport |-> "a", at |-> 59, aircraft |-> NULL, stand |-> NULL, destination |-> "b",
            estimated |-> FALSE, leg |-> 1, flight |-> 1, window |-> 1, lat |-> 5999, lon |-> -12000,
            altitude |-> 35000, gs |-> 30, heading |-> 90, next |-> "c", remaining |-> 15]
  IN  {<<[i EXCEPT !.at = t, !.gs = g, !.remaining = r, !.event = e, !.estimated = m],
         [i EXCEPT !.flight = f, !.window = w]>> :
         t \in {0, 59, 86399}, g \in {0, 29, 30, 450}, r \in {0, 7, 1234}, e \in {"OUT", "ON"}, m \in BOOLEAN,
         f \in {1, 2}, w \in {1, 2}}

StationInput ==
  [raw : [letters : {"EGLL", "LFPG"}, padded : BOOLEAN, lower : BOOLEAN, shaped : BOOLEAN],
   metar : {NULL, "M"}, taf : {NULL, "T"}]

-----------------------------------------------------------------------------
(* The interface: requests and their gates, errors, start-up, the account,  *)
(* settings, the tools of the MCP server, and the aircraft around.          *)

RequestPaths ==
  {<<>>, <<"mcp">>, <<"api", "trips">>, <<"api", "events">>, <<"api", "auth", "login">>,
   <<"api", "flights", "1", "acars-messages">>, <<"api", "flights", "1", "sayintentions", "link">>,
   <<"api", "ingest", "frame">>, <<"api", "navdata", "rows">>, <<"api", "navdata", "demand">>}

GateInput ==
  LET requests == [method : {"GET", "POST", "DELETE"}, path : RequestPaths, session : BOOLEAN, cookie : BOOLEAN,
                   token : {"none", "right", "wrong"}, origin : {"none", "same", "other"}, mcp : {"none", "right"}]
  IN  {r \in requests : r.session => r.cookie} \X [ingest : BOOLEAN, mcp : BOOLEAN]

ErrorInput ==
  [kind : {"multer", "too large", "syntax", "other"}, code : {"LIMIT_FILE_SIZE", "LIMIT_UNEXPECTED_FILE"},
   field : {"navdataSnapshot", "plans"},
   path : RequestPaths \cup {<<"api", "settings", "simbrief">>, <<"api", "ground-sessions">>,
                             <<"api", "flights", "1", "acars-messages", "wx">>}]

StartInput ==
  LET files  == {"", "missing", "bad", "good"}
      tokens == {"", "short", "long"}
  IN  [cert : files, key : files, loopback : BOOLEAN, plaintext : BOOLEAN, token : tokens, openIngest : BOOLEAN,
       secret : tokens, mcp : tokens]

AccountInput ==
  LET args == {[flag |-> "--username", value |-> <<"-">>], [flag |-> "--username=", value |-> <<" ", "p", " ">>],
               [flag |-> "q", value |-> <<"q">>], [flag |-> "--username=", value |-> <<" ">>]}
      Password(length, blank) == [text |-> 1, length |-> length, blank |-> blank]
  IN  [argv : SeqsUpTo(args, 2), password : {Password(11, FALSE), Password(12, FALSE), Password(12, TRUE), Password(201, FALSE)},
       confirmed : BOOLEAN, username : {<<"p">>, <<" ", "p">>, <<"q">>, <<"o">>, <<>>}, text : {1, 2}, damaged : 0..6]

SettingInput ==
  LET raw == {r \in [text : BOOLEAN, length : {0, 7, 8, 20, 21, 200, 201}, plain : BOOLEAN, digits : BOOLEAN] :
                r.digits => r.plain /\ r.length > 0}
      old == [text |-> TRUE, length |-> 8, plain |-> TRUE, digits |-> TRUE]
  IN  [stored : [{"simbrief", "sayintentions"} -> {NULL, old}], name : {"simbrief", "sayintentions"},
       object : BOOLEAN, raw : raw \cup {NULL}]

ToolInput == SeqsUpTo([name : {"get_weather", "x"}, route : {"null", "status", "trip-create", "gone"}, kind : {"read", "write"}], 2)

\* A term is a character; one blank stands between two.
FindInput ==
  LET Typed(terms, blanks) == [terms |-> terms, blanks |-> blanks, size |-> IF terms = <<>> THEN 0 ELSE 2 * Len(terms) - 1]
  IN  [rows : SeqsUpTo([words : SUBSET {"p", "q"}], 3), q : {Typed(t, b) : t \in SeqsUpTo({"p", "q"}, 3), b \in 0..3},
       limit : {NULL, 0, 2, 5}, offset : {NULL, 0, 1}]

WriteInput ==
  LET flights == UNION {[f -> [notes : {NULL, "x"}, trip : {NULL, 1}]] : f \in {{}, {1}, {1, 2}}}
      books   == [flights : flights, trips : {<<>>, <<"t">>}, legs : {{}, {1}}]
  IN  {b \in books : \A f \in DOMAIN b.flights : b.flights[f].trip \in DOMAIN b.trips \cup {NULL}}
        \X [tool : {"update_flight_notes", "create_trip", "assign_flight_to_trip", "import_simbrief_leg"},
            flight : {1, 3}, trip : {1, 2}, text : {NULL, "y"}, imported : {"error", "duplicate", "imported"},
            fails : BOOLEAN]

UpTo(n) == [i \in 1..n |-> i]

AnswerInput ==
  [all : {UpTo(n) : n \in 0..7}, rows : SeqsUpTo({[words |-> w] : w \in SUBSET {"p", "q"}}, 3), terms : SeqsUpTo({"p", "q"}, 3)]

SkyInput ==
  LET Object(id, lat, heading) ==
        [id |-> id, lat |-> lat, lon |-> 180, altitude |-> 5, heading |-> heading, onGround |-> IF id = 1 THEN "true" ELSE "1"]
      sound == {Object(i, l, h) : i \in 1..3, l \in {0, 5}, h \in {-1, 3600}}
      wrong == {Object(-1, 0, 0), Object(NULL, 0, 0), Object(1, 91, 0), Object(1, NULL, 0), [Object(1, 0, 0) EXCEPT !.lon = 181],
                Object(1, 0, NULL)}
  IN  [batch : SeqsUpTo(sound, 3) \cup SeqsUpTo({Object(1, 0, 0), Object(2, 5, 0)} \cup wrong, 2) \cup {<<Object(1, 0, 0), Object(2, 0, 0), Object(3, 0, 0), Object(4, 0, 0)>>},
       frame : {NULL, [lat |-> 0, lon |-> 180], [lat |-> 5, lon |-> 180]}, age : 0..2]

-----------------------------------------------------------------------------
(* The rows the sidecar sends, and the replicas that may meet them. *)

BatchInput ==
  LET Row(t, r) == [t |-> t, r |-> r]
      bare      == [ident |-> 1, rev |-> 5]
      places    == {<<>>, [lat |-> 1, lon |-> 1, source |-> "list"], [lat |-> 2, lon |-> 2, source |-> "facility"],
                    [lat |-> 3, lon |-> 3, source |-> "minimal"], [source |-> "facility"],
                    [lat |-> 4, source |-> "minimal"], [lat |-> 5, lon |-> 5]}
      Set(p)    == IF p = <<>> THEN [c \in {} |-> NULL] ELSE p
      airports  == {Row("airport", Set(p) @@ Set(n) @@ Set(d) @@ bare) :
                      p \in places, n \in {<<>>, [name |-> NULL], [name |-> "n"]},
                      d \in {<<>>, [detail |-> "detail"], [detail |-> "pending"]}}
      runways   == {Row("runway", [rwy |-> 1, ident |-> i, surface |-> s, rev |-> 5]) : i \in {1, 2}, s \in {NULL, 7}}
                   \cup {Row("runway", [rwy |-> 1, surface |-> 7, rev |-> 5])}
      absents   == {Row("absent", [ident |-> 1, region |-> 0, first |-> f, rev |-> 5]) : f \in {NULL, 3, 8}}
                   \cup {Row("absent", [ident |-> 1, first |-> 3, rev |-> 6])}
      faulty    == {Row("procedure", bare), Row("airport", [odd |-> 1] @@ bare), Row("airport", [ident |-> 1]),
                    Row("airport", [rev |-> 5]), Row("airport", [detail |-> NULL] @@ bare)}
      few       == {r \in airports : DOMAIN r.r \in {{"ident", "rev"}, {"ident", "rev", "lat", "lon", "source"}}} \cup runways
      Airport(source, lat, name, detail) ==
        <<"airport", [ident |-> 1]>> :> [ident |-> 1, lat |-> lat, lon |-> lat, source |-> source, name |-> name, detail |-> detail, rev |-> 1]
      known     == {Airport(NULL, NULL, NULL, "index"), Airport("minimal", 9, NULL, "index"), Airport("list", 9, "o", "pending"),
                    Airport("facility", 9, "o", "detail")}
      runway    == <<"runway", [rwy |-> 1]>> :> [rwy |-> 1, ident |-> 1, surface |-> NULL, rev |-> 1]
      absent    == <<"absent", [ident |-> 1, region |-> 0]>> :> [ident |-> 1, region |-> 0, first |-> 5, rev |-> 1]
      dbs       == {[k \in {} |-> NULL], absent} \cup known \cup {a @@ runway : a \in known} \cup {a @@ absent : a \in known}
      replicas  == {[snapshot |-> "s", rev |-> 1, db |-> d] : d \in dbs}
      Batch(rows) == [version |-> TRUE, snapshot |-> "s", toRev |-> 5, rows |-> rows]
  IN  {[replica |-> r, batch |-> Batch(b)] :
         r \in replicas,
         b \in {<<x>> : x \in faulty} \cup SeqsUpTo(few, 2) \cup {<<x, x, x, x>> : x \in runways}
               \cup {<<x, y>> : x \in airports, y \in airports \cup runways \cup absents \cup faulty}
               \cup {<<y, x>> : x \in airports, y \in runways \cup absents}}
      \cup {[replica |-> r, batch |-> [Batch(<<>>) EXCEPT !.version = v, !.snapshot = s]] :
               r \in {NULL, [snapshot |-> "s", rev |-> 1, db |-> absent]}, v \in BOOLEAN, s \in {"s", "t"}}

-----------------------------------------------------------------------------
(* The replay of a flight and the lines of its map. *)

PointsInput ==
  LET point == [ts |-> 0, lat |-> 0, lon |-> 170, alt |-> NULL, heading |-> 350, ground |-> TRUE]
      other == [point EXCEPT !.lat = 3, !.lon = -170, !.alt = 5, !.heading = 10, !.ground = FALSE]
      third == [point EXCEPT !.lat = 1, !.alt = 2, !.heading = 175]
      kinds == {point, other, third, [point EXCEPT !.lat = NULL]}
      At(p, t) == [p EXCEPT !.ts = t]
  IN  SeqsUpTo({At(p, t) : p \in kinds, t \in {NULL, 1, 2, 6}}, 3)
        \cup {<<At(p, t), At(q, u), At(r, v), At(s, w)>> : p, q, r, s \in {point, other}, t \in {1}, u \in {2, 3, 5}, v \in {4, 6}, w \in {2, 7, 9}}

ChainsInput == SeqsUpTo(SeqsUpTo({0, 170, -170}, 2), 3) \cup {<<<<170, -170, 150, -100>>, <<100>>, <<-170, 0>>>>}

-----------------------------------------------------------------------------
(* The plans and what the services answer. *)

Positions == {NULL} \cup [lat : {0, 90, 91, NULL, Text}, lon : {-180, 120, 181, NULL}, alt : {NULL, 5, Text}]

Sound(lat, lon) == [lat |-> lat, lon |-> lon, alt |-> 5]

Fix(ident, pos, type, comment, description) ==
  [ident |-> ident, pos |-> pos, type |-> type, comment |-> comment, description |-> description, unknown |-> 0]

LnmFile(blocks) ==
  [form |-> "plan", blocks |-> blocks, alternates |-> <<>>, departurePos |-> NULL, unknown |-> 0,
   header |-> [cruiseF |-> 100, cruise |-> 1, created |-> NULL, comment |-> NULL, description |-> NULL],
   bom |-> FALSE, procedures |-> FALSE]

LnmInput ==
  LET first == Fix("a", Sound(0, 120), "AIRPORT", NULL, NULL)
      last  == Fix("c", Sound(90, -180), "AIRPORT", NULL, NULL)
      middle == {Fix(i, p, "WAYPOINT", NULL, NULL) : i \in {"b", NULL}, p \in Positions}
                \cup {Fix("b", Sound(0, 0), t, c, d) : t \in {NULL, "AIRPORT", "USER", "ODD"}, c \in {NULL, "x"}, d \in {NULL, "x", "y"}}
      plain == LnmFile(<<<<first, last>>>>)
  IN  {LnmFile(b) : b \in {<<>>, <<<<first>>>>, <<<<first>>, <<last>>>>, <<<<first>>, <<last, first>>>>}}
      \cup {LnmFile(<<<<first, m, last>>>>) : m \in middle} \cup {LnmFile(<<<<first, m>>>>) : m \in middle}
      \cup {LnmFile(<<<<first, m>>, <<n, last>>>>) : m, n \in {Fix("b", p, "VOR", NULL, NULL) :
                                                         p \in {Sound(91, 0), Sound(1, 2), NULL}}}
      \cup {[plain EXCEPT !.alternates = <<[ident |-> i, pos |-> p, unknown |-> u]>>] :
              i \in {"d", NULL}, p \in Positions, u \in {0, 1}}
      \cup {[plain EXCEPT !.departurePos = p] : p \in Positions}
      \cup {[plain EXCEPT !.form = f] : f \in {"EMPTY_FILE", "NOT_XML", "NO_FLIGHTPLAN"}}
      \cup {[plain EXCEPT !.bom = b, !.procedures = p, !.header.cruiseF = f, !.header.cruise = c,
                          !.header.created = d] :
              b, p \in BOOLEAN, f \in {NULL, Text, 100}, c \in {NULL, Text, 1},
              d \in {NULL} \cup [form : {"Z", "+hhmm", "+hh", "none"}, valid : BOOLEAN]}

OfpInput ==
  LET end  == [ident : {"a", "c", NULL}, lat : {0, 91, Text}, lon : {NULL, 120}, alt : {NULL}]
      ends == {e \in end : e.lat = 0 /\ e.lon = 120 /\ e.ident # NULL}
      fix  == [ident : {"a", "b", "c", NULL}, type : {"apt", "wpt", "ltlg"}, lat : {1, NULL}, lon : {5}, alt : {NULL}]
                \cup [ident : {"b"}, type : {NULL, "odd", "vor"}, lat : {Text, 91}, lon : {5}, alt : {Text}]
      List(s) == [kind |-> "list", items |-> s]
      plan == [json |-> TRUE, origin |-> NULL, destination |-> NULL, fixes |-> List(<<>>), alternates |-> List(<<>>),
               cruise |-> NULL, rules |-> "I", generated |-> NULL, planRamp |-> NULL, estZfw |-> NULL]
      Sound1(i) == [ident |-> i, lat |-> 0, lon |-> 120, alt |-> NULL]
      Fixes == {List(s) : s \in SeqsUpTo(fix, 2)} \cup {[kind |-> "bare", items |-> <<f>>] : f \in fix}
                 \cup {[kind |-> "none", items |-> <<>>]}
                 \cup {List(<<f, NULL, g>>) : f, g \in {h \in fix : h.type = "wpt" /\ h.lat = 1}}
      Routed == {[plan EXCEPT !.origin = Sound1("a"), !.destination = Sound1("c"), !.fixes = s] : s \in Fixes}
  IN  Routed
      \cup {[plan EXCEPT !.origin = o, !.destination = d, !.fixes = List(<<f>>), !.json = j] :
              o \in end \cup {NULL}, d \in ends \cup {NULL, [ident |-> "c", lat |-> 0, lon |-> NULL, alt |-> NULL]},
              j \in BOOLEAN, f \in {g \in fix : g.ident = "b" /\ g.type = "wpt"}}
      \cup {[plan EXCEPT !.origin = Sound1("a"), !.destination = Sound1("c"), !.fixes = List(<<Sound1("b") @@ [type |-> "wpt"]>>),
                         !.alternates = List(a), !.cruise = c, !.planRamp = r] :
              a \in SeqsUpTo({Sound1("e"), [Sound1("f") EXCEPT !.ident = NULL]}, 2), c \in {NULL, Text, 9}, r \in {NULL, 7}}

Thrown == {<<"AbortError">>, <<"TypeError", "TimeoutError">>, <<"TypeError">>}

Wires(statuses, bodies) ==
  [error : {<<>>}, status : statuses, body : bodies] \cup [error : Thrown, status : {0}, body : {[form |-> "unreadable"]}]

SimbriefWires ==
  Wires({200, 400, 404, 500},
        [form : {"unreadable", "empty", "text", "list"}]
          \cup [form : {"object"}, envelope : Service!ErrorEnvelopes \cup {"success", NULL}])

WeatherWires ==
  Wires({200, 204, 429, 500}, [form : {"unreadable", "empty", "text", "object"}]
                                \cup [form : {"list"}, first : {NULL, "", "report"}])

SayWires ==
  Wires({200, 204, 401, 403, 404, 409, 500},
        [form : {"unreadable"}] \cup [form : {"empty", "text"}] \cup [form : {"list"}, hint : BOOLEAN]
          \cup [form : {"object"}, hint : BOOLEAN, success : {NULL, TRUE, FALSE}, status : {NULL, "ok", "fail"},
                result : {NULL, "error"}, complaint : BOOLEAN])

ImportInput ==
  [user : {NULL, "u"}, wire : SimbriefWires, plan : {[ok |-> TRUE], [ok |-> FALSE]}, existing : BOOLEAN,
   again : BOOLEAN, broken : {NULL, "leg", "release"}]

-----------------------------------------------------------------------------
(* The map: airways, the route of a leg, boxes, tiers, and what is fetched.  *)

AirwayInput ==
  LET keys == [fix : {10, 20}, at : {0, 1, 3}]
      legs == {l \in keys \X keys : Route!Before(l[1], l[2])}
  IN  [legs : UNION {kSubset(n, legs) : n \in 0..3}, from : {[fix |-> 10, at |-> 0]},
       to : {k \in keys : k.at # 1}]

BareLeg ==
  [id |-> 1, departureAt |-> 0, from |-> 91, to |-> 92, waypoints |-> <<>>, custom |-> NULL,
   sid |-> 0, sidRunway |-> NULL, sidTransition |-> 0, star |-> 0, starRunway |-> NULL, starTransition |-> 0,
   approach |-> 0, approachRunway |-> NULL, approachSuffix |-> 0, approachType |-> NULL, approachTransition |-> 0]

BareDb ==
  [fixes |-> {}, navaids |-> {}, airways |-> [a \in {} |-> {}], procs |-> {}, detailed |-> {91},
   runways |-> {[airport |-> 91, name |-> "09", at |-> 4, half |-> 1, way |-> 1]}]

Wp(ident, type, airway, at) == [ident |-> ident, region |-> 0, type |-> type, airway |-> airway, at |-> at]

EnrouteInput ==
  LET points == {Wp(91, "AIRPORT", 0, 0), Wp(1, "WAYPOINT", 0, 10), Wp(1, "WAYPOINT", 5, NULL),
                 Wp(2, "WAYPOINT", 5, 20), Wp(2, "VOR", 5, 24), Wp(3, "WAYPOINT", 5, 30), Wp(4, "USER", 5, 15)}
      F(ident, region, at) == [ident |-> ident, region |-> region, at |-> at]
      K(ident, at) == [fix |-> 10 * ident, at |-> at]
      sets == {{}, {F(1, 0, 10), F(2, 0, 20)}, {F(1, 0, 10), F(2, 0, 20), F(3, 0, 30), F(1, 1, 40)},
               {F(1, 1, 14), F(2, 0, 26), F(3, 0, 30)}}
      ways == {{}, {<<K(1, 10), K(2, 20)>>, <<K(2, 20), K(3, 30)>>},
               {<<K(1, 10), K(7, 12)>>, <<K(7, 13), K(2, 20)>>, <<K(3, 30), K(1, 10)>>}}
  IN  {[leg |-> [BareLeg EXCEPT !.waypoints = s],
        db |-> [BareDb EXCEPT !.fixes = f, !.airways = 5 :> w]] : s \in SeqsUpTo(points, 3), f \in sets, w \in ways}

Leg(type, ident, at) == [type |-> type, ident |-> ident, at |-> at, centre |-> IF type = "arc" THEN 5 ELSE NULL]

Part(role, name, runway, legs) == [role |-> role, name |-> name, runway |-> runway, legs |-> legs]

ProcedureInput ==
  LET P(key, airport, kind, name, runway, type, parts) ==
        [key |-> key, airport |-> airport, kind |-> kind, name |-> name, runway |-> runway, suffix |-> 0,
         type |-> type, faf |-> 8, transitions |-> parts]
      out == <<Part("common", 0, NULL, <<Leg("track", 21, 11), Leg("arc", 22, 12), Leg("arc", 22, 12)>>),
               Part("enroute", 5, NULL, <<Leg("arc", 23, 14), Leg("vector", 0, NULL)>>),
               Part("runway", 0, "09", <<Leg("arc", 24, 6), Leg("track", 25, NULL)>>)>>
      ends == <<Part("approach", 6, NULL, <<Leg("track", 26, 33)>>), Part("approach", 7, NULL, <<Leg("track", 8, 44)>>),
                Part("final", 0, NULL, <<Leg("track", 8, 44), Leg("track", 27, 50)>>)>>
      procs == {P(1, 91, "SID", 3, NULL, NULL, out), P(2, 91, "SID", 3, "09", NULL, out),
                P(3, 91, "SID", 3, "27", NULL, <<>>), P(4, 92, "STAR", 4, NULL, NULL, out),
                P(5, 92, "APPROACH", 0, "09", "ILS", ends), P(6, 92, "APPROACH", 0, "09", "RNAV", ends),
                P(7, 92, "APPROACH", 0, "27", "ILS", <<>>)}
  IN  {[leg |-> [BareLeg EXCEPT !.sid = 3, !.sidRunway = r, !.sidTransition = n, !.star = 4, !.starRunway = "09",
                                !.approach = 8, !.approachRunway = q, !.approachType = y, !.approachTransition = x],
        db |-> [BareDb EXCEPT !.procs = s]] :
         r \in {NULL, "09", "bad"}, n \in {0, 5}, q \in {NULL, "09", "27"}, y \in {NULL, "RNAV"}, x \in {0, 7},
         s \in SUBSET procs}
      \cup {[leg |-> [BareLeg EXCEPT !.custom = [name |-> 3, runway |-> r, distance |-> d]], db |-> b] :
              r \in {NULL, "bad", "09", "27"}, d \in {0, 5}, b \in {BareDb, NULL}}

Boxes == [w : -2..2, s : 0..3, e : -2..2, n : 0..4]

CellInput == [cells : UNION {kSubset(n, 0..11) : n \in {0, 1, 2, 12}}, box : Boxes]

CrossInput ==
  [leg : [from : {<<1, -2>>, <<1, -1>>, <<2, 1>>}, to : {<<1, -1>>, <<2, 1>>, <<3, 2>>}, dateline : BOOLEAN],
   box : Boxes]

TierInput ==
  LET kinds == {<<0, TRUE, 1, NULL>>, <<0, FALSE, NULL, 2>>, <<0, TRUE, NULL, 3>>, <<0, FALSE, 1, NULL>>,
                <<1, TRUE, NULL, 5>>, <<2, TRUE, 1, NULL>>}
      Airport(i, k) == [ident |-> i, at |-> <<1, k[1]>>, detail |-> k[2], longest |-> k[3], class |-> k[4]]
  IN  {[airports |-> {Airport(i, s[i]) : i \in DOMAIN s}, zoom |-> z, limit |-> l, classified |-> c] :
         s \in SeqsUpTo(kinds, 4), z \in 5..10, l \in {2, 9}, c \in BOOLEAN}

ViewInput ==
  {[w |-> w, e |-> w + 5 * width, s |-> s, n |-> s + 5] : w \in -30..30, width \in 1..6, s \in 0..5}

AirportInput ==
  LET runways == [key : {1}, length : {NULL, 1199, 1200, 2500}, surface : {NULL, 0, 1, 2}, heading : {NULL, 9}]
                   \cup [key : {2}, length : {NULL, 1200, 2600}, surface : {0, 26}, heading : {NULL, 18}]
  IN  [detail : BOOLEAN, runways : {s \in {{}} \cup {{r, q} : r, q \in runways} : \A r, q \in s : r # q => r.key # q.key},
       frequencies : SUBSET BOOLEAN, class : {NULL, 2, 5}]

RequestInput ==
  LET rows == [kind : {"A"}, ident : {1}, region : {0}, detail : {"stub", "detail", "absent"}]
              \cup [kind : {"W", "V"}, ident : {1}, region : {2}, detail : {"detail"}]
      gone == [kind : {"A", "W"}, ident : {1}, region : {0, 2}]
  IN  {[db |-> [rows |-> r, absent |-> a], req |-> q] : r \in SUBSET rows, a \in SUBSET gone,
         q \in [kind : {"A", "W"}, ident : {1, 2}, region : {NULL, 2}, force : BOOLEAN]}

DemandInput ==
  LET asks == [kind : {"A"}, ident : {1}, region : {0}, expires : {1, 3}]
              \cup [kind : {"W"}, ident : {2}, region : {1}, expires : {1, 3}]
              \cup [kind : {"V"}, ident : {3}, region : {0}, expires : {3}]
      Filed(s) == FoldLeft(LAMBDA r, a : Demand!UpsertNavdataRequest(r, a.kind, a.ident, a.region, a.expires), <<>>, s)
      W(ident, type, region) == [ident |-> ident, type |-> type, region |-> region]
      one == [departure |-> 1, destination |-> 4, alternates |-> <<>>,
              waypoints |-> <<W(2, "WAYPOINT", 1), W(3, "VOR", 0), W(6, "USER", 0)>>]
      two == [departure |-> NULL, destination |-> 1, alternates |-> <<5>>, waypoints |-> <<>>]
      rows == {[kind |-> "A", ident |-> 1, region |-> 0, state |-> "fetched"],
               [kind |-> "A", ident |-> 4, region |-> 0, state |-> "stub"],
               [kind |-> "W", ident |-> 2, region |-> 1, state |-> "fetched"],
               [kind |-> "W", ident |-> 2, region |-> 3, state |-> "fetched"],
               [kind |-> "X", of |-> "V", ident |-> 3, region |-> 0, state |-> "absent"],
               [kind |-> "A", ident |-> 4, region |-> 0, state |-> "absent"]}
      K(fix, at) == [fix |-> fix, at |-> at]
      ways == 5 :> {<<K(21, 0), K(70, 10)>>, <<K(80, 30), K(21, 40)>>}
      pair == [airway |-> 5, from |-> K(21, 0), to |-> K(21, 40)]
  IN  {[requests |-> Filed(s), legs |-> l, pairs |-> p, skip |-> k,
        db |-> IF r = NULL THEN NULL ELSE [rows |-> r, airways |-> ways]] :
         s \in SeqsUpTo(asks, 2), l \in {<<>>, <<one>>, <<two>>, <<two, one>>}, p \in {<<>>, <<pair>>},
         k \in {[airports |-> {}, waypoints |-> {}], [airports |-> {1}, waypoints |-> {2}]},
         r \in {NULL} \cup SUBSET rows}

-----------------------------------------------------------------------------
(* One question at a time. *)

Inputs ==
  [match |-> MatchInput, chain |-> ChainInput, rows |-> RowsInput, journey |-> JourneyInput,
   sample |-> (0..12) \X (2..8), combine |-> Flights(1) \X Flights(2), stats |-> StatsInput,
   search |-> SearchInput, export |-> ExportInput, text |-> TextInput, loadsheet |-> LoadsheetInput, clearance |-> ClearanceInput,
   squawk |-> SquawkInput, position |-> (-12010)..12010, number |-> 0..20000, lnm |-> LnmInput, ofp |-> OfpInput,
   plan |-> SimbriefWires, weather |-> WeatherWires \X WeatherWires,
   say |-> {NULL, "key"} \X BOOLEAN \X SayWires, imports |-> ImportInput,
   airway |-> AirwayInput, enroute |-> EnrouteInput, procedure |-> ProcedureInput, cells |-> CellInput,
   view |-> ViewInput, airport |-> AirportInput, crossing |-> CrossInput, tiers |-> TierInput, request |-> RequestInput, demand |-> DemandInput,
   dispatch |-> DispatchInput, issue |-> IssueInput, report |-> ReportInput, station |-> StationInput,
   gate |-> GateInput, fault |-> ErrorInput, start |-> StartInput, account |-> AccountInput,
   setting |-> SettingInput, tool |-> ToolInput, find |-> FindInput, write |-> WriteInput, answer |-> AnswerInput,
   page |-> (0..7) \X (0..5 \cup {NULL}), track |-> (0..9) \X (1..9), sky |-> SkyInput, batch |-> BatchInput,
   points |-> PointsInput, lines |-> ChainsInput]

Init == question = NULL

Choose(subject) == question = NULL /\ question' = [subject |-> subject]

Ask(subject) ==
  question = [subject |-> subject] /\ \E i \in Inputs[subject] : question' = [subject |-> subject, input |-> i]

Next == \E subject \in DOMAIN Inputs : Choose(subject) \/ Ask(subject)

Spec == Init /\ [][Next]_question

-----------------------------------------------------------------------------
(* The properties: see the modules, and Questions for those of messages. *)

\* A takeoff finds its leg if and only if one leg fits, and a batch is put in
\* another order only where that order is the one route there is; the rows of a
\* trip keep both orders, its journey counts nothing twice, a combined flight
\* keeps what was flown, and statistics and pages add up; an export has every
\* flight asked for; a replay shows what was recorded, and lines drawn one by
\* one lie on the map as one route
\* (matchPlannedLeg, chainOrderForBatch, interleaveTripRows, buildJourney,
\* combineFlights, getFlightStats, searchFlights, kmlExport.ts, replay.ts, geo.ts).
HistoryAgrees ==
  /\ About("match") => Matcher!MatchIsTheOnlyUsableLeg(in.linked, in.trip, in.legs)
  /\ About("chain") => Chain!ChainOrderIsTheRoute(in)
  /\ About("rows") => Trip!RowsTellTheTrip(in.flights, in.legs)
  /\ About("journey") => Trip!JourneyIsTheFlights(in.flights, in.planned)
  /\ About("sample") => Trip!SampleKeepsEnds(in[1], in[2])
  /\ About("combine") => History!CombiningKeepsTheFlights(in[1], in[2])
  /\ About("stats") => History!PeriodsAddUp(in.flights, in.middle)
  /\ About("search") => History!PagesAreTheSearch(in.flights, in.tokens, in.limit)
  /\ About("export") => History!ExportTellsTheFlights(in.ids, in.stored)
  /\ About("text") => History!EscapedReadsBack(in)
  /\ About("points") => Playback!ReplayFollowsTheFlight(in)
  /\ About("lines") => Playback!ChainsMakeOneRoute(in)

\* A plan is what its file or its OFP says and a sound one is never refused;
\* a service's answer is told as what it is, and an import that fails leaves
\* nothing behind (src/lnmpln.ts, src/simbrief.ts and the three clients).
ImportsAgree ==
  /\ About("lnm") => /\ Lnm!PlanIsWhatTheFileSays(in, {"a", "c"})
                     /\ Lnm!SoundFilesAreAccepted(in, {"a", "c"})
  /\ About("ofp") => Simbrief!RouteIsTheNavlog(in)
  /\ About("plan") => Service!SimbriefVerdictIsTheEnvelope(in)
  /\ About("weather") => Service!WeatherIsAboutTheMetar(in[1], in[2])
  /\ About("say") => Service!SentMeansTaken(in[1], in[2], in[3])
  /\ About("imports") =>
       Service!ImportIsAllOrNothing(in.user, in.wire, in.plan, in.existing, in.again, in.broken)

\* The line of a leg follows its plan and its airways, a box knows its cells
\* and its airways, what is thinned out is told, and the sidecar is asked for
\* what is needed and nothing else, and a batch of its rows only adds to what
\* the replica knew (src/navdata/).
NavigationAgrees ==
  /\ About("airway") => Route!MapAndDemandAgree(in.legs, in.from, in.to)
  /\ About("enroute") \/ About("procedure") => Route!RouteFollowsThePlan(in.leg, in.db)
  /\ About("cells") => Query!BoxKnowsItsCells(in.cells, in.box)
  /\ About("view") => View!BoxIsTheView(in)
  /\ About("airport") => Query!SymbolsClaimWhatIsKnown(in)
  /\ About("crossing") => Query!BoxShowsItsAirways(in.leg, in.box)
  /\ About("tiers") => Query!ThinningTellsWhatItHides([airports |-> in.airports], [w |-> -1, s |-> 0, e |-> 1, n |-> 2],
                                                     in.zoom, in.limit, in.classified)
  /\ About("request") => Query!RequestsAskWhatIsUnknown(in.db, in.req)
  /\ About("demand") => Demand!DemandIsTheNeed(in.requests, in.legs, in.pairs, in.db, in.skip, 2)
  /\ About("batch") => Replica!BatchesOnlyAdd(in.replica, in.batch)

\* A request is answered by one gate whichever gate it is looked at from, an
\* error is told as what it is, a start serves what was asked for, an account
\* signs in with what it was given, a setting is what its page showed, and the
\* server's own list of tools passes its own check; a tool that answers an
\* error changed nothing, pages cover their list and say what they cut, and a
\* batch of aircraft is kept whole or not at all (src/server.ts, src/auth/,
\* src/config.ts, src/db/settings.ts, src/mcp/, src/trafficStore.ts).
InterfaceAgrees ==
  /\ About("gate") => Gate!AnswersByOneGate(in[1], in[2])
  /\ About("fault") => Gate!ErrorsAreTold(in)
  /\ About("start") => Config!StartsAsAsked(in)
  /\ About("account") =>
       Config!AccountSignsIn(in.argv, in.password, in.confirmed, in.username, in.text, in.damaged)
  /\ About("setting") => Config!SettingIsWhatWasShown(in.stored, in.name, in.object, in.raw)
  /\ About("tool") =>
       /\ Gate!ToolFault(Tool!ReadTools \o Tool!WriteTools) = "none"
       /\ Gate!ToolFault(Tool!ReadTools \o in \o Tool!WriteTools) = Gate!ToolFault(in)
  /\ About("write") => Tool!WritesAreTold(in[1], in[2])
  /\ About("answer") => Tool!CutsAreTold(in.all, in.rows, in.terms)
  /\ About("find") => Tool!SearchesAgree(in.rows, in.q, in.limit, in.offset)
  /\ About("page") => Tool!PagesCoverTheList(UpTo(in[1]), in[2])
  /\ About("track") => Tool!SampleKeepsTheFlight(UpTo(in[1]), in[2])
  /\ About("sky") => Sky!TrafficAsSent(in.batch, in.frame, in.age)

-----------------------------------------------------------------------------
(* What a comment of the source says and the code does not do. *)

\* A place of the replica moves as a unit, by source precedence
\* (src/navdata/store.ts, mergeValues).
PlaceMovesAsUnit == About("batch") => Replica!PlacesMoveAsUnits(in.replica, in.batch)
=============================================================================
