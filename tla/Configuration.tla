--------------------------- MODULE Configuration ---------------------------
(***************************************************************************)
(* What the server reads before it serves: the environment (loadConfig),   *)
(* the operator's account (setPassword and verifyPassword), and the two    *)
(* settings the pages may change.  A value is "" when it is unset, "short" *)
(* or "long" by the length its check asks for; a TLS file is "", "missing",*)
(* "bad" or "good".                                                        *)
(***************************************************************************)
EXTENDS Integers, Sequences, FiniteSets, SequencesExt, FiniteSetsExt

CONSTANT NULL

-----------------------------------------------------------------------------
(* loadConfig.  The answer is [error] with the step that refused, or the   *)
(* configuration with the warnings it was announced with.                  *)

TlsFault(env) ==
  IF (env.cert = "") # (env.key = "") THEN "pair"
  ELSE IF env.cert = "missing" THEN "certificate"
  ELSE IF env.key = "missing" THEN "key"
  ELSE IF "bad" \in {env.cert, env.key} THEN "material"
  ELSE IF env.cert = "" /\ ~env.loopback /\ ~env.plaintext THEN "plaintext" ELSE NULL

Tls(env) == [enabled |-> env.cert # "", optOut |-> env.cert = "" /\ env.plaintext]

Warnings(env) ==
  LET on(condition, warning) == IF condition THEN {warning} ELSE {}
  IN  on(env.cert = "", IF env.loopback THEN "plaintext on loopback" ELSE "plaintext")
      \cup on(env.token = "short", "short ingest token")
      \cup on(env.token # "" /\ env.openIngest, "opt-out ignored")
      \cup on(env.token = "" /\ env.openIngest, "open ingest")
      \cup on(env.mcp = "short", "short MCP token")
      \cup on(env.mcp # "" /\ env.mcp = env.token, "one token twice")
      \cup on(env.mcp # "" /\ Tls(env).optOut, "MCP in plaintext")

LoadConfig(env) ==
  LET fault == IF TlsFault(env) # NULL THEN TlsFault(env)
               ELSE IF env.token = "" /\ ~env.openIngest THEN "ingest"
               ELSE IF env.secret = "short" THEN "session secret" ELSE NULL
  IN  IF fault # NULL THEN [error |-> fault]
      ELSE [error |-> NULL, tls |-> Tls(env), ingest |-> [token |-> env.token, open |-> env.token = ""],
            mcp |-> env.mcp, secret |-> IF env.secret = "" THEN NULL ELSE env.secret, warnings |-> Warnings(env)]

(* What an operator may rely on: a start that asked for HTTPS serves HTTPS  *)
(* or does not start, plaintext beyond the machine itself and an ingest     *)
(* without a token were both asked for and announced, and a configuration   *)
(* that meets every demand starts.                                          *)
StartsAsAsked(env) ==
  LET c == LoadConfig(env)
      demands == /\ env.cert = env.key /\ env.cert \in {"", "good"}
                 /\ env.cert = "good" \/ env.loopback \/ env.plaintext
                 /\ env.token # "" \/ env.openIngest
                 /\ env.secret # "short"
  IN  /\ (c.error = NULL) = demands
      /\ c.error = NULL =>
           /\ env.cert # "" \/ env.key # "" => c.tls.enabled
           /\ ~c.tls.enabled /\ ~env.loopback => env.plaintext /\ "plaintext" \in c.warnings
           /\ c.ingest.open => env.openIngest /\ "open ingest" \in c.warnings
           /\ env.token # "" => ~c.ingest.open

-----------------------------------------------------------------------------
(* The account.  A name is a sequence of letters and blanks; a password is  *)
(* [text, length, blank], of which only its text is hashed.                 *)

Trim(name) ==
  LET kept == {i \in DOMAIN name : name[i] # " "}
  IN  IF kept = {} THEN <<>> ELSE SubSeq(name, Min(kept), Max(kept))

(* setPassword's arguments: the last --username counts, whatever its form;  *)
(* anything else ends the program.  An argument is [flag, value].           *)
ParseUsername(argv) ==
  LET Parse(state, arg) ==
        IF state.fault # NULL THEN state
        ELSE IF state.pending THEN [state EXCEPT !.name = arg.value, !.pending = FALSE]
        ELSE CASE arg.flag = "--username"  -> [state EXCEPT !.pending = TRUE]
               [] arg.flag = "--username=" -> [state EXCEPT !.name = arg.value]
               [] OTHER                    -> [state EXCEPT !.fault = arg.flag]
      end == FoldLeft(Parse, [name |-> <<"o">>, pending |-> FALSE, fault |-> NULL], argv)
  IN  [name |-> Trim(end.name), fault |-> IF end.fault = NULL /\ end.pending THEN "no value" ELSE end.fault]

PASSWORD_MIN_LENGTH == 12
PASSWORD_MAX_LENGTH == 200
USERNAME_MAX_LENGTH == 64

(* main of set-password: the first demand that fails, NULL when none does. *)
PasswordFault(name, password, confirmed) ==
  IF Len(name) \notin 1..USERNAME_MAX_LENGTH THEN "username"
  ELSE IF password.length < PASSWORD_MIN_LENGTH THEN "short"
  ELSE IF password.length > PASSWORD_MAX_LENGTH THEN "long"
  ELSE IF password.blank THEN "blank"
  ELSE IF ~confirmed THEN "mismatch" ELSE NULL

(* hashPassword, and the key scrypt derives for a salt. *)
Derived(text, salt) == <<text, salt>>

HashPassword(text) == <<"scrypt", 16384, 8, 1, "salt", Derived(text, "salt")>>

(* verifyPassword: the row's own numbers and salt; false for any row that is *)
(* not six parts, has no number where one belongs, or decodes to nothing.    *)
VerifyPassword(text, stored) ==
  /\ Len(stored) = 6 /\ stored[1] = "scrypt"
  /\ \A i \in 2..4 : stored[i] # NULL
  /\ stored[2] >= 2 /\ stored[3] >= 1 /\ stored[4] >= 1
  /\ stored[5] # NULL /\ stored[6] # NULL
  /\ Derived(text, stored[5]) = stored[6]

(* The login route's own reading of its body. *)
SignsIn(account, username, text) ==
  account # NULL /\ account.username = Trim(username) /\ VerifyPassword(text, account.hash)

(* Whoever set-password accepted signs in with the name and the password    *)
(* given there, blanks around the name aside, and nobody else does; a row   *)
(* damaged in any one part refuses everybody without an error.              *)
AccountSignsIn(argv, password, confirmed, username, text, damaged) ==
  LET user    == ParseUsername(argv)
      account == [username |-> user.name, hash |-> HashPassword(password.text)]
      worse   == [account EXCEPT !.hash = [i \in 1..6 |-> IF i = damaged THEN NULL ELSE @[i]]]
  IN  user.fault = NULL /\ PasswordFault(user.name, password, confirmed) = NULL =>
        /\ SignsIn(account, username, text) = (Trim(username) = user.name /\ text = password.text)
        /\ damaged \in 1..6 => ~SignsIn(worse, username, text)

-----------------------------------------------------------------------------
(* The settings pages may change.  stored is a function from names to       *)
(* values, NULL where no row is; a value is [text, length, plain, digits],  *)
(* and Blank the one of no characters, which clears a setting.              *)

Blank == [text |-> TRUE, length |-> 0, plain |-> TRUE, digits |-> FALSE]

SetSetting(stored, name, value) == [stored EXCEPT ![name] = IF value = Blank THEN NULL ELSE value]

MIN_SAYINTENTIONS_API_KEY_LENGTH == 8
MAX_SAYINTENTIONS_API_KEY_LENGTH == 200

(* validateSimbriefUserId of a text that is not blank. *)
AcceptedUserId(raw) == IF raw.digits /\ raw.length <= 20 THEN raw ELSE NULL

(* validateSayIntentionsApiKey, and validateSimbriefUserId beside it: the   *)
(* value to store, Blank to clear it, or NULL when it is refused.  raw is   *)
(* NULL or a value after trimming.                                          *)
Accepted(name, raw) ==
  IF raw = NULL THEN Blank
  ELSE IF ~raw.text THEN NULL
  ELSE IF raw.length = 0 THEN Blank
  ELSE IF name = "simbrief" THEN AcceptedUserId(raw)
  ELSE IF raw.plain /\ raw.length \in MIN_SAYINTENTIONS_API_KEY_LENGTH..MAX_SAYINTENTIONS_API_KEY_LENGTH
       THEN raw ELSE NULL

(* The PUT route: what is stored after it and what it answers; a body that  *)
(* is no object is refused before its field is read.                        *)
PutSetting(stored, name, object, raw) ==
  LET value == Accepted(name, raw)
  IN  IF ~object THEN <<stored, [status |-> 400, code |-> "INVALID_BODY"]>>
      ELSE IF value = NULL THEN <<stored, [status |-> 400, code |-> "INVALID"]>>
      ELSE <<SetSetting(stored, name, value), [status |-> 200, shown |-> IF value = Blank THEN NULL ELSE value]>>

(* The page that is answered 200 shows what the next GET shows, a cleared   *)
(* field is no setting at all, and no other setting moves.                  *)
SettingIsWhatWasShown(stored, name, object, raw) ==
  LET after == PutSetting(stored, name, object, raw)
      other == CHOOSE n \in DOMAIN stored : n # name
  IN  /\ after[1][other] = stored[other]
      /\ after[2].status = 200 => after[1][name] = after[2].shown
      /\ after[2].status # 200 => after[1] = stored
      /\ raw = NULL /\ object => after[1][name] = NULL
=============================================================================
