------------------------------- MODULE Access -------------------------------
(***************************************************************************)
(* How a request finds its handler: the order in which createServer mounts *)
(* its gates, what each gate answers by itself, the lists of routes a      *)
(* token may use, and the shape an error body takes.  A path is a sequence *)
(* of segments, a token one of "none", "right" and "wrong"; a request is   *)
(* decided in one step.                                                    *)
(***************************************************************************)
EXTENDS Integers, Sequences, FiniteSets, SequencesExt

Page == <<>>

Covers(pattern, path) ==
  /\ Len(pattern) = Len(path)
  /\ \A i \in DOMAIN path : pattern[i] \in {"*", path[i]}

Under(prefix, path) == IsPrefix(prefix, path)

Thread(owner) == <<"api", owner, "*", "acars-messages">>

INGEST_SCOPED_ROUTES ==
  LET Get(path) == [method |-> "GET", path |-> path]
      Post(path) == [method |-> "POST", path |-> path]
      flight == <<"api", "flights", "*", "sayintentions">>
  IN  {Get(<<"api", "status">>), Get(<<"api", "acars", "canned-messages">>), Get(<<"api", "events">>),
       Get(<<"api", "ground-sessions", "current">>), Get(<<"api", "settings", "simbrief">>),
       Get(<<"api", "settings", "sayintentions">>), Post(<<"api", "planned-legs", "simbrief">>),
       Post(Append(Thread("planned-legs"), "loadsheet")), Post(Append(Thread("planned-legs"), "clearance")),
       Post(<<"api", "planned-legs", "*", "sayintentions", "clearance">>),
       Get(Append(flight, "link")), Post(Append(flight, "link")), Post(Append(flight, "import")),
       [method |-> "DELETE", path |-> Append(flight, "link")]}
      \cup UNION {{Get(Thread(o)), Post(Thread(o)), Post(Append(Thread(o), "wx"))} :
                    o \in {"flights", "planned-legs"}}

\* Mutant: a route is looked up by its path alone.
IsIngestScopedPath(method, path) == \E r \in INGEST_SCOPED_ROUTES : Covers(r.path, path)

IsIngestScopedRoute(method, path) ==
  \E r \in INGEST_SCOPED_ROUTES : r.method = method /\ Covers(r.path, path)

-----------------------------------------------------------------------------
(* The gates, in the order they are mounted.  A request r is [method, path, *)
(* session, cookie, token, origin, mcp]; c says which tokens are configured. *)

Matches(presented, configured) == configured /\ presented = "right"

(* The mark createIngestTokenScopeGate leaves, "unmarked" when it leaves none. *)
Scope(r, c) ==
  IF ~c.ingest \/ ~Under(<<"api">>, r.path) \/ r.session \/ ~IsIngestScopedRoute(r.method, r.path) THEN "unmarked"
  ELSE CASE r.token = "none" -> "absent" [] r.token = "right" -> "valid" [] OTHER -> "invalid"

CrossOrigin(r, c) ==
  /\ r.method \notin {"GET", "HEAD", "OPTIONS"} /\ Under(<<"api">>, r.path) /\ ~Under(<<"api", "ingest">>, r.path)
  /\ ~(Scope(r, c) = "valid" /\ ~r.cookie)
  /\ r.origin = "other"

INGEST == {<<"api", "ingest", k>> : k \in {"frame", "event", "traffic"}}
SYNC   == {[method |-> "POST", path |-> <<"api", "navdata", k>>] : k \in {"snapshot", "rows", "state"}}
            \cup {[method |-> "GET", path |-> <<"api", "navdata", "demand">>]}

(* What the request gets: the name of the gate that answered and its status. *)
Answer(r, c) ==
  LET reply(gate, status) == [by |-> gate, status |-> status]
      ownToken(gate) == IF ~c.ingest \/ r.token = "right" THEN reply(gate, 200) ELSE reply(gate, 401)
  IN  IF r.path \in INGEST /\ r.method = "POST" THEN ownToken("ingest")
      ELSE IF [method |-> r.method, path |-> r.path] \in SYNC THEN ownToken("sync")
      ELSE IF r.path = <<"mcp">> /\ c.mcp
           THEN IF Matches(r.mcp, c.mcp) THEN reply("mcp", IF r.method = "POST" THEN 200 ELSE 405)
                ELSE reply("mcp", 401)
      ELSE IF CrossOrigin(r, c) THEN reply("origin", 403)
      ELSE IF Under(<<"api", "auth">>, r.path) THEN reply("auth", 200)
      ELSE IF Under(<<"api">>, r.path)
           THEN IF r.session \/ Scope(r, c) = "valid" THEN reply("router", 200)
                ELSE reply(IF Scope(r, c) = "unmarked" THEN "login" ELSE "scope", 401)
      ELSE reply("page", IF r.method = "GET" THEN 200 ELSE 404)

(* Looked at from one gate alone: a token changes nothing for a signed-in    *)
(* page or for a route that is not listed; a listed route names itself on a  *)
(* refusal; a page of another origin never writes with the page's own        *)
(* session, and a client without a cookie is not held up by an Origin.       *)
AnswersByOneGate(r, c) ==
  LET a == Answer(r, c)
      Without(token) == Answer([r EXCEPT !.token = token], c)
      listed == \E t \in INGEST_SCOPED_ROUTES : t.method = r.method /\ Covers(t.path, r.path)
      own == r.path \in INGEST \/ [method |-> r.method, path |-> r.path] \in SYNC
  IN  /\ (r.session \/ ~listed) /\ ~own => a = Without("none")
      /\ a.by = "scope" => listed /\ ~r.session /\ r.token # "right"
      /\ a.by = "router" /\ ~r.session => listed /\ r.token = "right" /\ c.ingest
      /\ r.cookie /\ r.origin = "other" /\ r.method \notin {"GET", "HEAD", "OPTIONS"} =>
           a.by \notin {"router", "auth"} \/ Under(<<"api", "ingest">>, r.path)
      /\ listed /\ c.ingest /\ r.token = "right" /\ ~r.cookie => a.by = "router"

-----------------------------------------------------------------------------
(* The routes a tool of the MCP server may stand for. *)

MCP_SCOPED_ROUTES ==
  LET Read(name) == [name |-> name, kind |-> "read"]
  IN  {Read(n) : n \in {"flights-list", "flights-search", "flights-stats", "flight-read", "flight-acars-read",
                        "trips-list", "trip-read", "trip-journey", "trip-planned-legs", "planned-legs-list",
                        "planned-leg-read", "planned-leg-acars-read", "acars-canned-messages", "status",
                        "ground-session-current"}}
      \cup {[name |-> n, kind |-> "write"] :
              n \in {"flight-edit-notes", "trip-create", "trip-assign-flight", "planned-leg-simbrief-import"}}

ROUTELESS_TOOLS == {"get_weather"}

(* assertToolRoutesAreScoped: the first fault of a list of tools, or "none". *)
ToolFault(tools) ==
  LET Fault(t) == IF t.route = "null" THEN IF t.name \in ROUTELESS_TOOLS THEN "none" ELSE "no route"
                  ELSE IF ~\E r \in MCP_SCOPED_ROUTES : r.name = t.route THEN "unknown route"
                  ELSE IF ~\E r \in MCP_SCOPED_ROUTES : r.name = t.route /\ r.kind = t.kind THEN "wrong kind"
                  ELSE "none"
      bad == SelectInSeq(tools, LAMBDA t : Fault(t) # "none")
  IN  IF bad = 0 THEN "none" ELSE Fault(tools[bad])

-----------------------------------------------------------------------------
(* The last middleware: what a failed body parse or a failed upload becomes. *)
(* e is [kind, code, field, path]; kind "multer" is a MulterError.           *)

InvalidBodyPath(path) ==
  \/ Under(<<"api", "settings">>, path) /\ Len(path) > 2
  \/ path # <<>> /\ Last(path) = "acars-messages"
  \/ Len(path) > 1 /\ SubSeq(path, Len(path) - 1, Len(path)) = <<"acars-messages", "wx">>
  \/ path \in {<<"api", "ground-sessions">>, <<"api", "ground-sessions", "current">>}

ErrorAnswer(e) ==
  CASE e.kind = "multer" /\ e.field = "navdataSnapshot" ->
         IF e.code = "LIMIT_FILE_SIZE" THEN <<413, "NAVDATA_TOO_LARGE">> ELSE <<400, "NAVDATA_BAD_BATCH">>
    [] e.kind = "too large" /\ e.path = <<"api", "navdata", "rows">> -> <<413, "NAVDATA_TOO_LARGE">>
    [] e.kind = "syntax" /\ e.path \in {<<"api", "navdata", "rows">>, <<"api", "navdata", "state">>} ->
         <<400, "NAVDATA_BAD_BATCH">>
    [] e.kind = "multer" /\ e.field # "navdataSnapshot" -> <<400, e.code>>
    [] e.kind = "syntax" /\ InvalidBodyPath(e.path) -> <<400, "INVALID_BODY">>
    [] e.kind = "syntax" /\ e.path = <<"mcp">> -> <<400, "Parse error">>
    [] OTHER -> <<CASE e.kind = "too large" -> 413 [] e.kind = "syntax" -> 400 [] OTHER -> 500, "default">>

(* A client's mistake is answered as one, and the sidecar can always tell a *)
(* batch that is too large, which it splits, from one that is wrong.        *)
ErrorsAreTold(e) ==
  LET answer   == ErrorAnswer(e)
      snapshot == e.kind = "multer" /\ e.field = "navdataSnapshot"
      rows     == e.kind \in {"too large", "syntax"} /\ e.path = <<"api", "navdata", "rows">>
      large    == e.kind = "too large" \/ (e.kind = "multer" /\ e.code = "LIMIT_FILE_SIZE")
  IN  /\ e.kind # "other" => answer[1] \in 400..499
      /\ snapshot \/ rows => answer[2] = IF large THEN "NAVDATA_TOO_LARGE" ELSE "NAVDATA_BAD_BATCH"
      /\ e.kind = "syntax" /\ (InvalidBodyPath(e.path) \/ e.path = <<"mcp">>) => answer[2] # "default"
=============================================================================
