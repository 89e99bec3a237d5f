------------------------------ MODULE Sessions ------------------------------
(***************************************************************************)
(* The two clocks of the sign-in: the rows of auth_session, which          *)
(* SqliteSessionStore reads, writes and lets expire, and the LoginThrottle *)
(* of the auth router.  express-session decides when the store is called;  *)
(* every call is one step.                                                 *)
(***************************************************************************)
EXTENDS Integers, Sequences, FiniteSets

CONSTANTS NULL,
          Sids,          \* session ids
          Addresses,     \* addresses a login comes from
          MaxAge,        \* sessionMaxAgeMs
          Window,        \* WINDOW_MS
          MaxFailures,   \* MAX_FAILURES
          MaxEntries,    \* MAX_ENTRIES
          MaxTime        \* bound: the last tick

VARIABLES
  now,       \* the wall clock
  rows,      \* auth_session: sid -> [expires, whole] or NULL; whole when its data parses
  held,      \* sid -> what the store was last told, NULL once destroyed (seen by no code)
  entries,   \* the throttle: address -> [count, start] or NULL
  failures   \* address -> when it failed since its last success (seen by no code)

vars == <<now, rows, held, entries, failures>>

Init ==
  /\ now = 0
  /\ rows = [s \in Sids |-> NULL] /\ held = rows
  /\ entries = [a \in Addresses |-> NULL] /\ failures = [a \in Addresses |-> <<>>]

-----------------------------------------------------------------------------
(* SqliteSessionStore. *)

(* expiryFor: the cookie's own date, or now + maxAge when it has none. *)
ExpiryFor(cookie) == IF cookie = NULL THEN now + MaxAge ELSE cookie

(* set, and touch, which delegates to it. *)
Set ==
  /\ \E s \in Sids, cookie \in {NULL, now + 1} :
       LET row == [expires |-> ExpiryFor(cookie), whole |-> TRUE]
       IN  rows' = [rows EXCEPT ![s] = row] /\ held' = [held EXCEPT ![s] = row]
  /\ UNCHANGED <<now, entries, failures>>

(* get: the row that answers and the rows it leaves. *)
Expired(row) == row.expires <= now

Got(s) == IF rows[s] = NULL THEN NULL ELSE IF Expired(rows[s]) \/ ~rows[s].whole THEN NULL ELSE rows[s]

Get ==
  /\ \E s \in Sids :
       /\ rows[s] # NULL /\ Expired(rows[s])
       /\ rows' = [rows EXCEPT ![s] = NULL]
  /\ UNCHANGED <<now, held, entries, failures>>

Destroy ==
  /\ \E s \in Sids : rows' = [rows EXCEPT ![s] = NULL] /\ held' = [held EXCEPT ![s] = NULL]
  /\ UNCHANGED <<now, entries, failures>>

(* A row whose data no longer parses: a hand-edited or damaged file. *)
Damage ==
  /\ \E s \in Sids :
       /\ rows[s] # NULL
       /\ rows' = [rows EXCEPT ![s].whole = FALSE]
       /\ held' = [held EXCEPT ![s] = NULL]
  /\ UNCHANGED <<now, entries, failures>>

\* Mutant: the sweep also takes the rows that expire with the next tick.
SweptEarly(row) == row.expires <= now + 1

(* sessionSweep, at the start and every six hours. *)
Swept(row) == row.expires <= now

Sweep ==
  /\ rows' = [s \in Sids |-> IF rows[s] # NULL /\ Swept(rows[s]) THEN NULL ELSE rows[s]]
  /\ UNCHANGED <<now, held, entries, failures>>

-----------------------------------------------------------------------------
(* LoginThrottle, called by the login route. *)

Over(e) == now - e.start >= Window

(* check: a map past MaxEntries first drops every window that is over. *)
Checked(a) ==
  LET many == Cardinality({b \in Addresses : entries[b] # NULL}) > MaxEntries
      Stays(b) == entries[b] # NULL /\ (b = a \/ many => ~Over(entries[b]))
  IN  [b \in Addresses |-> IF Stays(b) THEN entries[b] ELSE NULL]

Throttled(a) == Checked(a)[a] # NULL /\ Checked(a)[a].count >= MaxFailures

Wait(a) == Window - (now - entries[a].start)

(* recordFailure: the window's start never moves. *)
AfterFailure(e) == IF e = NULL THEN [count |-> 1, start |-> now]
                   ELSE IF Over(e) THEN [count |-> 1, start |-> now] ELSE [e EXCEPT !.count = @ + 1]

(* A login that is refused unchecked, that fails, or that succeeds. *)
Refused ==
  /\ \E a \in Addresses : Throttled(a) /\ entries' = Checked(a)
  /\ UNCHANGED <<now, rows, held, failures>>

Failed ==
  /\ \E a \in Addresses :
       /\ ~Throttled(a)
       /\ entries' = [Checked(a) EXCEPT ![a] = AfterFailure(@)]
       /\ failures' = [failures EXCEPT ![a] = Append(@, now)]
  /\ UNCHANGED <<now, rows, held>>

Succeeded ==
  /\ \E a \in Addresses :
       /\ ~Throttled(a)
       /\ entries' = [Checked(a) EXCEPT ![a] = NULL]
       /\ failures' = [failures EXCEPT ![a] = <<>>]
  /\ UNCHANGED <<now, rows, held>>

(* A restart keeps the rows, sweeps them, and forgets the throttle. *)
Restart ==
  /\ rows' = [s \in Sids |-> IF rows[s] # NULL /\ Swept(rows[s]) THEN NULL ELSE rows[s]]
  /\ entries' = [a \in Addresses |-> NULL] /\ failures' = [a \in Addresses |-> <<>>]
  /\ UNCHANGED <<now, held>>

Tick == now < MaxTime /\ now' = now + 1 /\ UNCHANGED <<rows, held, entries, failures>>

Next == Set \/ Get \/ Destroy \/ Damage \/ Sweep \/ Refused \/ Failed \/ Succeeded \/ Restart \/ Tick

Spec == Init /\ [][Next]_vars

-----------------------------------------------------------------------------
(* The store answers as if it kept exactly what it was told and dropped a   *)
(* session the moment it expires: no read, sweep, restart or damaged        *)
(* neighbour loses a live session or revives a dead one.                    *)
StoreIsItsCalls ==
  \A s \in Sids :
    Got(s) = IF held[s] = NULL THEN NULL ELSE IF held[s].expires <= now THEN NULL ELSE held[s]

(* Whatever the pattern of failures and of dropped entries, no window of    *)
(* Window ticks holds more than 2 * MaxFailures - 1 of one address, and an  *)
(* address that is turned away did fail MaxFailures times within the window *)
(* it is asked to wait out, and waits no longer than one.                   *)
ThrottleIsFair ==
  \A a \in Addresses :
    LET Within(from) == Cardinality({i \in DOMAIN failures[a] : failures[a][i] \in from..(from + Window - 1)})
    IN  /\ \A from \in 0..MaxTime : Within(from) < 2 * MaxFailures
        /\ Throttled(a) => Within(entries[a].start) = MaxFailures /\ Wait(a) \in 1..Window
=============================================================================
