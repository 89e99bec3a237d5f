------------------------------ MODULE Upstream ------------------------------
(***************************************************************************)
(* The services the server asks: SimBrief (src/simbriefClient.ts), the     *)
(* weather service (src/weatherClient.ts) and SayIntentions                *)
(* (src/sayIntentionsClient.ts), each from what came over the wire to one  *)
(* verdict; and the import of a SimBrief leg without a trip                *)
(* (src/simbriefImport.ts), from its verdict to what is stored and said.   *)
(*                                                                         *)
(* A wire is [error, status, body]: error lists the names of the error     *)
(* that was thrown and of its causes, <<>> when there is an answer; a body *)
(* is [form, ...], its form "unreadable" when reading it failed.           *)
(***************************************************************************)
EXTENDS Naturals, Sequences, FiniteSets, SequencesExt

CONSTANT NULL

Fails(code) == [ok |-> FALSE, code |-> code]

Works(value) == [ok |-> TRUE, value |-> value]

\* A timeout is an abort, possibly the cause of another error.
IsAbort(error) == ToSet(error) \cap {"AbortError", "TimeoutError"} # {}

Thrown(error) == Fails(IF IsAbort(error) THEN "TIMEOUT" ELSE "NETWORK")

-----------------------------------------------------------------------------
(* SimBrief: the envelope decides before the status of HTTP. *)

ErrorEnvelopes == {"error: unknown userid", "error: no flight plan", "error: other"}

EnvelopeFault(envelope) ==
  CASE envelope = "error: unknown userid" -> "UNKNOWN_USER"
    [] envelope = "error: no flight plan" -> "NO_PLAN"
    [] envelope = "error: other"          -> "BAD_STATUS"

FetchSimbriefPlan(wire) ==
  CASE wire.error # <<>> -> Thrown(wire.error)
    [] wire.error = <<>> /\ wire.body.form = "unreadable" -> Fails("NETWORK")
    [] wire.error = <<>> /\ wire.body.form \in {"empty", "text", "list"} -> Fails("BAD_BODY")
    [] OTHER -> IF wire.body.envelope \in ErrorEnvelopes THEN Fails(EnvelopeFault(wire.body.envelope))
                ELSE IF wire.status # 200 THEN Fails("BAD_STATUS")
                ELSE IF wire.body.envelope = "success" THEN Works(wire.body) ELSE Fails("BAD_BODY")

-----------------------------------------------------------------------------
(* The weather: no report is an answer, and a METAR comes first. *)

\* A list is [form, first]: NULL when it is empty, "" when its first entry
\* has no text of a report.
FetchOneProduct(wire) ==
  CASE wire.error # <<>> -> Thrown(wire.error)
    [] wire.error = <<>> /\ wire.status = 204 -> Works(NULL)
    [] wire.error = <<>> /\ wire.status = 429 -> Fails("RATE_LIMITED")
    [] wire.error = <<>> /\ wire.status \notin {200, 204, 429} -> Fails("BAD_STATUS")
    [] OTHER ->
         CASE wire.body.form = "unreadable" -> Fails("NETWORK")
           [] wire.body.form = "empty" -> Works(NULL)
           [] wire.body.form \in {"text", "object"} -> Fails("BAD_BODY")
           [] wire.body.form = "list" /\ wire.body.first # "" -> Works(wire.body.first)
           [] wire.body.form = "list" /\ wire.body.first = "" -> Fails("BAD_BODY")

FetchWeather(metar, taf) ==
  LET m == FetchOneProduct(metar)
      t == FetchOneProduct(taf)
  IN  IF ~m.ok THEN m
      ELSE Works([metar |-> m.value, taf |-> IF t.ok THEN t.value ELSE NULL])

-----------------------------------------------------------------------------
(* SayIntentions. *)

BadKey(wire) == wire.status \in {401, 403}

\* A history is a set of ids (0 for an entry without one), ascending; what
\* is no list is an empty one.
GetCommsHistory(key, wire) ==
  CASE key = NULL -> Fails("NO_KEY")
    [] key # NULL /\ wire.error # <<>> -> Thrown(wire.error)
    [] key # NULL /\ wire.error = <<>> /\ wire.body.form = "unreadable" -> Fails("NETWORK")
    [] OTHER -> IF BadKey(wire) THEN Fails("BAD_KEY")
                ELSE IF wire.status # 200 THEN Fails("BAD_STATUS")
                ELSE IF wire.body.form # "object" THEN Fails("BAD_BODY")
                ELSE Works([flight |-> wire.body.flight,
                            history |-> SortSeq(wire.body.history, <)])

Failed == {"error", "fail", "failed"}

\* An explicit marker, or a bare complaint in a body that has no marker.
HasFailureMarker(body) ==
  /\ body.form = "object"
  /\ \/ body.success = FALSE
     \/ body.status \in Failed \/ body.result \in Failed
     \/ body.success = NULL /\ body.status = NULL /\ body.result = NULL /\ body.complaint

\* The message is held to the cap again: a shortened clearance is worse than none.
SayAs(key, fits, wire) ==
  CASE key = NULL -> Fails("NO_KEY")
    [] key # NULL /\ ~fits -> Fails("BAD_BODY")
    [] key # NULL /\ fits /\ wire.error # <<>> -> Thrown(wire.error)
    [] key # NULL /\ fits /\ wire.error = <<>> /\ wire.body.form = "unreadable" -> Fails("NETWORK")
    [] OTHER ->
         IF BadKey(wire) THEN Fails("BAD_KEY")
         ELSE IF wire.status \in {404, 409} THEN Fails("NO_ACTIVE_SESSION")
         ELSE IF wire.status \notin 200..299 THEN Fails("BAD_STATUS")
         ELSE IF wire.body.form = "text" THEN Fails("BAD_BODY")
         ELSE IF wire.body.form # "empty" /\ wire.body.hint THEN Fails("NO_ACTIVE_SESSION")
         ELSE IF HasFailureMarker(wire.body) THEN Fails("BAD_STATUS") ELSE Works(wire.body)

-----------------------------------------------------------------------------
(* importSimbriefLooseLeg(): `plan` is what the parser makes of the body,   *)
(* `existing` the loose leg of the same plan, `broken` the write that       *)
(* throws ("leg", "release" or NULL).                                       *)

SIMBRIEF_FAILURE_STATUS ==
  [UNKNOWN_USER |-> 400, NO_PLAN |-> 404, TIMEOUT |-> 504, NETWORK |-> 502,
   BAD_STATUS |-> 502, BAD_BODY |-> 502]

Outcome(kind, status, code, stored) == [kind |-> kind, status |-> status, code |-> code, stored |-> stored]

ImportSimbriefLooseLeg(userId, wire, plan, existing, allowDuplicates, broken) ==
  LET fetched == FetchSimbriefPlan(wire)
  IN  CASE userId = NULL -> Outcome("error", 400, "NO_USER_ID", {})
        [] userId # NULL /\ ~fetched.ok ->
             Outcome("error", SIMBRIEF_FAILURE_STATUS[fetched.code], fetched.code, {})
        [] userId # NULL /\ fetched.ok /\ ~plan.ok -> Outcome("error", 502, "BAD_BODY", {})
        [] OTHER ->
             CASE ~allowDuplicates /\ existing -> Outcome("duplicate", 200, NULL, {})
               [] (allowDuplicates \/ ~existing) /\ broken = "leg" -> Outcome("error", 500, "DB_ERROR", {})
               [] OTHER -> Outcome("imported", 201, NULL,
                                   {"leg"} \cup (IF broken = "release" THEN {} ELSE {"release"}))

-----------------------------------------------------------------------------
(* What is promised. *)

\* A plan is taken from a whole 200 answer that calls itself a success and
\* from nothing else; an error SimBrief explains is told as explained,
\* under any HTTP status; and no text that arrived is called a network error.
SimbriefVerdictIsTheEnvelope(wire) ==
  LET verdict == FetchSimbriefPlan(wire)
      arrived == wire.error = <<>> /\ wire.body.form # "unreadable"
  IN  /\ verdict.ok <=> arrived /\ wire.status = 200 /\ wire.body.form = "object"
                        /\ wire.body.envelope = "success"
      /\ arrived /\ wire.body.form = "object" /\ wire.body.envelope = "error: no flight plan"
           => verdict.code = "NO_PLAN"
      /\ ~verdict.ok => (arrived <=> verdict.code \notin {"TIMEOUT", "NETWORK"})

\* A reply about the weather is about the METAR: it is the METAR's verdict
\* whatever becomes of the TAF, and a TAF is never shown without one asked for.
WeatherIsAboutTheMetar(metar, taf) ==
  LET reply == FetchWeather(metar, taf)
      alone == FetchOneProduct(metar)
  IN  /\ reply.ok <=> alone.ok
      /\ ~reply.ok => reply = alone
      /\ reply.ok => /\ reply.value.metar = alone.value
                     /\ reply.value.taf # NULL => reply.value.taf = FetchOneProduct(taf).value

\* A message counts as sent only if nothing in the answer says otherwise, and
\* a flight that is not running is named whichever way the service says so.
SentMeansTaken(key, fits, wire) ==
  LET verdict == SayAs(key, fits, wire)
      asked   == key # NULL /\ fits
      arrived == asked /\ wire.error = <<>> /\ wire.body.form # "unreadable"
      says    == wire.body.form \in {"object", "list"} /\ wire.body.hint
  IN  /\ verdict.ok => arrived /\ wire.status \in 200..299 /\ ~says
                       /\ ~HasFailureMarker(wire.body)
      /\ arrived /\ (wire.status \in {404, 409} \/ (wire.status \in 200..299 /\ says))
           => verdict = Fails("NO_ACTIVE_SESSION")
      /\ ~asked => ~verdict.ok /\ verdict.code \in {"NO_KEY", "BAD_BODY"}

\* An import that failed stored nothing, one that is reported stored its leg
\* even when the release could not be filed, and a plan is not stored twice
\* unless that was asked for.
ImportIsAllOrNothing(userId, wire, plan, existing, allowDuplicates, broken) ==
  LET outcome == ImportSimbriefLooseLeg(userId, wire, plan, existing, allowDuplicates, broken)
  IN  /\ (outcome.kind = "imported") <=> "leg" \in outcome.stored
      /\ outcome.stored # {} => "leg" \in outcome.stored /\ (existing => allowDuplicates)
      /\ outcome.kind = "error" /\ outcome.code # "DB_ERROR"
           => outcome.status \in (IF userId = NULL THEN {400} ELSE {400, 404, 502, 504})
      /\ broken = "release" => outcome.kind # "error" \/ ~plan.ok \/ ~FetchSimbriefPlan(wire).ok \/ userId = NULL
=============================================================================
