--------------------------- MODULE ServicesProofs ---------------------------
(***************************************************************************)
(* Proofs about the state machines of MCServices, for any value of their   *)
(* constants.  Each machine has an inductive invariant of its own; a step  *)
(* of one leaves the variables of the others as they are.                  *)
(***************************************************************************)
EXTENDS MCServices, FiniteSetTheorems, WellFoundedInduction, TLAPS

-----------------------------------------------------------------------------
(* Counting: the library's theorems of induction and recursion take         *)
(* operators; these take a set and a function instead.                      *)

\* A set of numbers has a least one.
LEMMA FirstOfSome ==
  ASSUME NEW S, S \subseteq Nat, S # {}
  PROVE  \E x \in S : \A y \in S : x <= y
<1>1. PICK x \in S : \A y \in S : ~(<<y, x>> \in OpToRel(<, Nat))
  BY NatLessThanWellFounded, WFMin
<1>2. \A y \in S : ~(y < x) /\ y \in Nat /\ x \in Nat
  BY <1>1 DEF OpToRel
<1> QED BY <1>2

\* Induction, said of a set of numbers.
LEMMA AllOfNat ==
  ASSUME NEW S, 0 \in S, \A n \in Nat : n \in S => n + 1 \in S
  PROVE  \A n \in Nat : n \in S
<1> SUFFICES ASSUME Nat \ S # {} PROVE FALSE
  OBVIOUS
<1>1. PICK x \in Nat \ S : \A y \in Nat \ S : x <= y
  BY FirstOfSome
<1>2. x # 0 /\ x - 1 \in Nat /\ (x - 1) + 1 = x
  BY <1>1
<1>3. x - 1 \in S
  BY <1>1, <1>2
<1> QED BY <1>1, <1>2, <1>3

\* A run of values in S from a, each found from the one before and its place.
Steps(S) == [Nat \X S -> S]

RunOf(S, a, step, f) == f \in [Nat -> S] /\ f[0] = a /\ \A n \in Nat : f[n + 1] = step[<<n, f[n]>>]

\* A function defined from one number to the next exists.
LEMMA RunExists ==
  ASSUME NEW S, NEW a \in S, NEW step \in Steps(S)
  PROVE  \E f : RunOf(S, a, step, f)
<1>0. step \in [Nat \X S -> S]
  BY DEF Steps
<1> DEFINE Upto(f, n) == f \in [0..n -> S] /\ f[0] = a /\ \A i \in 0..n : i + 1 \in 0..n => f[i + 1] = step[<<i, f[i]>>]
           Some == {n \in Nat : \E f : Upto(f, n)}
<1>1. 0 \in Some
  <2>1. Upto([i \in 0..0 |-> a], 0)
    OBVIOUS
  <2> QED BY <2>1
<1>2. ASSUME NEW n \in Nat, n \in Some PROVE n + 1 \in Some
  <2>1. PICK f : Upto(f, n)
    BY <1>2
  <2> DEFINE g == [i \in 0..(n + 1) |-> IF i = n + 1 THEN step[<<n, f[n]>>] ELSE f[i]]
  <2>2. step[<<n, f[n]>>] \in S
    BY <1>0, <2>1
  <2>3. g \in [0..(n + 1) -> S]
    BY <2>1, <2>2
  <2>4. \A i \in 0..n : g[i] = f[i]
    OBVIOUS
  <2>5. g[n + 1] = step[<<n, f[n]>>]
    OBVIOUS
  <2> HIDE DEF g
  <2>6. \A i \in 0..(n + 1) : i + 1 \in 0..(n + 1) => g[i + 1] = step[<<i, g[i]>>]
    <3> SUFFICES ASSUME NEW i \in 0..(n + 1), i + 1 \in 0..(n + 1) PROVE g[i + 1] = step[<<i, g[i]>>]
      OBVIOUS
    <3>1. CASE i = n
      BY <2>4, <2>5, <3>1
    <3>2. CASE i # n
      <4>1. i \in 0..n /\ i + 1 \in 0..n
        BY <3>2
      <4> QED BY <2>1, <2>4, <4>1
    <3> QED BY <3>1, <3>2
  <2>7. Upto(g, n + 1)
    BY <2>1, <2>3, <2>4, <2>6
  <2> QED BY <2>7
<1>3. \A n \in Nat : \E f : Upto(f, n)
  <2> HIDE DEF Upto
  <2>1. \A n \in Nat : n \in Some
    BY <1>1, <1>2, AllOfNat
  <2> QED BY <2>1
<1> DEFINE Of(n) == CHOOSE f : Upto(f, n)
           F == [n \in Nat |-> Of(n)[n]]
<1>4. \A n \in Nat : Upto(Of(n), n)
  BY <1>3
<1> HIDE DEF Of
<1>5. ASSUME NEW n \in Nat PROVE Of(n + 1)[n] = Of(n)[n]
  <2> DEFINE Same == {i \in Nat : i <= n => Of(n + 1)[i] = Of(n)[i]}
  <2>1. 0 \in Same
    BY <1>4
  <2>2. ASSUME NEW i \in Nat, i \in Same PROVE i + 1 \in Same
    <3> SUFFICES ASSUME i + 1 <= n PROVE Of(n + 1)[i + 1] = Of(n)[i + 1]
      OBVIOUS
    <3>1. i \in 0..n /\ i + 1 \in 0..n /\ i \in 0..(n + 1) /\ i + 1 \in 0..(n + 1)
      OBVIOUS
    <3>2. Of(n + 1)[i] = Of(n)[i]
      BY <2>2
    <3>3. Of(n)[i + 1] = step[<<i, Of(n)[i]>>] /\ Of(n + 1)[i + 1] = step[<<i, Of(n + 1)[i]>>]
      BY <1>4, <3>1
    <3> QED BY <3>2, <3>3
  <2> HIDE DEF Same
  <2>3. n \in Same
    BY <2>1, <2>2, AllOfNat
  <2> QED BY <2>3 DEF Same
<1>6. F \in [Nat -> S] /\ F[0] = a
  <2>1. \A n \in Nat : Of(n)[n] \in S
    BY <1>4
  <2>2. Of(0)[0] = a
    BY <1>4
  <2> QED BY <2>1, <2>2
<1>7. ASSUME NEW n \in Nat PROVE F[n + 1] = step[<<n, F[n]>>]
  <2>1. Of(n + 1)[n + 1] = step[<<n, Of(n + 1)[n]>>]
    BY <1>4
  <2> QED BY <1>5, <2>1
<1> HIDE DEF F
<1> QED BY <1>6, <1>7 DEF RunOf

\* The same up to a number, as a recursive function is defined.
RunUpTo(S, a, step, n0, f) ==
  f \in [0..n0 -> S] /\ f = [n \in 0..n0 |-> IF n = 0 THEN a ELSE step[<<n - 1, f[n - 1]>>]]

\* Such a function exists too.
LEMMA RecursionSteps ==
  ASSUME NEW S, NEW a \in S, NEW step \in Steps(S), NEW n0 \in Nat
  PROVE  \E f : RunUpTo(S, a, step, n0, f)
<1>1. PICK f : RunOf(S, a, step, f)
  BY RunExists
<1>2. f \in [Nat -> S] /\ f[0] = a /\ \A n \in Nat : f[n + 1] = step[<<n, f[n]>>]
  BY <1>1 DEF RunOf
<1> DEFINE g == [n \in 0..n0 |-> f[n]]
<1>3. g \in [0..n0 -> S]
  BY <1>2
<1>4. ASSUME NEW n \in 0..n0 PROVE g[n] = IF n = 0 THEN a ELSE step[<<n - 1, g[n - 1]>>]
  <2>1. CASE n = 0
    BY <1>2, <2>1
  <2>2. CASE n # 0
    <3>1. n - 1 \in Nat /\ n - 1 \in 0..n0 /\ (n - 1) + 1 = n
      BY <2>2
    <3>2. f[(n - 1) + 1] = step[<<n - 1, f[n - 1]>>]
      BY <1>2, <3>1
    <3>3. g[n - 1] = f[n - 1] /\ g[n] = f[n]
      BY <3>1
    <3> QED BY <2>2, <3>1, <3>2, <3>3
  <2> QED BY <2>1, <2>2
<1>5. g = [n \in 0..n0 |-> IF n = 0 THEN a ELSE step[<<n - 1, g[n - 1]>>]]
  <2> HIDE DEF g
  <2> QED BY <1>3, <1>4
<1>6. RunUpTo(S, a, step, n0, g)
  BY <1>3, <1>5 DEF RunUpTo
<1> QED BY <1>6

-----------------------------------------------------------------------------
(* Ground sessions.                                                         *)

GroundRow ==
  [source : Ground!Sources, airport : Airports \cup {NULL},
   stand : {NULL} \cup [value : Ground!Stands, author : Ground!Sources], standSource : Ground!Sources \cup {NULL},
   leg : {NULL} \cup [value : Legs, author : Ground!Sources], legSource : Ground!Sources \cup {NULL},
   aircraft : {"aircraft", NULL}, ended : Ground!Reasons \cup {NULL}, flight : {"flight", NULL},
   emptied : SUBSET {"stand", "leg"}]

\* What SessionsAreSound says of one row, and that nothing but the operator
\* ends a session of the operator's.
RowSound(r, existing) ==
  /\ Ground!TellsAuthor(r.stand, r.standSource, "stand" \in r.emptied)
  /\ Ground!TellsAuthor(r.leg, r.legSource, "leg" \in r.emptied)
  /\ r.leg # NULL => r.leg.value \in existing
  /\ r.flight # NULL => r.ended = "flight-started"
  /\ r.source = "manual" => r.ended \notin {"disconnect", "crash", "corrected"}

OneOpen(rs) == \A i, j \in DOMAIN rs : rs[i].ended = NULL /\ rs[j].ended = NULL => i = j

SomeOpen(rs) == \E i \in DOMAIN rs : rs[i].ended = NULL

GroundInv ==
  /\ rows \in Seq(GroundRow) /\ known \subseteq Legs /\ tracking \in BOOLEAN
  /\ \A i \in DOMAIN rows : RowSound(rows[i], known)
  /\ OneOpen(rows)
  /\ tracking => SomeOpen(rows)

GroundKept == /\ Len(rows') >= Len(rows)
              /\ \A i \in DOMAIN rows : Ground!RowIsKept(rows[i], rows'[i])

\* No session is open at the start.
LEMMA InitGround == Ground!Init => GroundInv
<1> SUFFICES ASSUME Ground!Init PROVE GroundInv
  OBVIOUS
<1>1. rows \in Seq(GroundRow) /\ DOMAIN rows = {} /\ known \subseteq Legs /\ tracking = FALSE
  BY DEF Ground!Init
<1> QED BY <1>1 DEF GroundInv, OneOpen

\* What the invariant says of one row is what SessionsAreSound says of all.
LEMMA InvGround == GroundInv => SessionsAreSound
BY DEF GroundInv, SessionsAreSound, Ground!SessionsAreSound, RowSound, OneOpen, SomeOpen, Ground!Open

\* A function on 1..n is a sequence, element by element.
LEMMA MappedSeq ==
  ASSUME NEW S, NEW T, NEW q \in Seq(S), NEW f, f = [i \in DOMAIN q |-> f[i]], \A i \in DOMAIN q : f[i] \in T
  PROVE  f \in Seq(T) /\ Len(f) = Len(q) /\ DOMAIN f = DOMAIN q
OBVIOUS

\* closeOpenGroundSession: what an end does to the rows.
LEMMA ClosedRows ==
  ASSUME GroundInv, NEW reason \in Ground!Reasons, NEW noted \in {"flight", NULL},
         noted # NULL => reason = "flight-started",
         reason \in {"disconnect", "crash", "corrected"} =>
           \A i \in DOMAIN rows : rows[i].ended = NULL => rows[i].source = "auto",
         NEW closed, closed = Ground!Closed(rows, reason, noted)
  PROVE  /\ closed \in Seq(GroundRow) /\ Len(closed) = Len(rows) /\ DOMAIN closed = DOMAIN rows
         /\ \A i \in DOMAIN rows : /\ closed[i].ended # NULL /\ RowSound(closed[i], known)
                                   /\ Ground!RowIsKept(rows[i], closed[i])
<1>1. closed = [i \in DOMAIN rows |-> closed[i]]
  BY DEF Ground!Closed
<1>2. ASSUME NEW i \in DOMAIN rows
      PROVE  /\ closed[i] \in GroundRow /\ closed[i].ended # NULL /\ RowSound(closed[i], known)
             /\ Ground!RowIsKept(rows[i], closed[i])
  <2>1. rows[i] \in GroundRow /\ RowSound(rows[i], known)
    BY DEF GroundInv
  <2>2. CASE rows[i].ended = NULL
    <3>1. closed[i] = [rows[i] EXCEPT !.ended = reason, !.flight = noted]
      BY <2>2 DEF Ground!Closed
    <3>2. closed[i] \in GroundRow /\ closed[i].ended # NULL
      <4>1. closed[i] = [source |-> rows[i].source, airport |-> rows[i].airport, stand |-> rows[i].stand,
                         standSource |-> rows[i].standSource, leg |-> rows[i].leg, legSource |-> rows[i].legSource,
                         aircraft |-> rows[i].aircraft, ended |-> reason, flight |-> noted,
                         emptied |-> rows[i].emptied]
        BY <2>1, <3>1 DEF GroundRow
      <4>2. /\ rows[i].source \in Ground!Sources /\ rows[i].airport \in Airports \cup {NULL}
            /\ rows[i].stand \in {NULL} \cup [value : Ground!Stands, author : Ground!Sources]
            /\ rows[i].standSource \in Ground!Sources \cup {NULL}
            /\ rows[i].leg \in {NULL} \cup [value : Legs, author : Ground!Sources]
            /\ rows[i].legSource \in Ground!Sources \cup {NULL} /\ rows[i].aircraft \in {"aircraft", NULL}
            /\ rows[i].emptied \in SUBSET {"stand", "leg"}
        BY <2>1 DEF GroundRow
      <4>3. reason # NULL
        BY GroundAssumption
      <4> QED BY <4>1, <4>2, <4>3 DEF GroundRow
    <3>3. RowSound(closed[i], known)
      BY <2>1, <2>2, <3>1 DEF GroundRow, RowSound, Ground!Sources
    <3>4. Ground!RowIsKept(rows[i], closed[i])
      BY <2>1, <2>2, <3>1 DEF GroundRow, Ground!RowIsKept, Ground!Sources
    <3> QED BY <3>2, <3>3, <3>4
  <2>3. CASE rows[i].ended # NULL
    <3>1. closed[i] = rows[i]
      BY <2>3 DEF Ground!Closed
    <3> QED BY <2>1, <2>3, <3>1 DEF Ground!RowIsKept, RowSound, GroundRow
  <2> QED BY <2>2, <2>3
<1>3. rows \in Seq(GroundRow)
  BY DEF GroundInv
<1>4. closed \in Seq(GroundRow) /\ Len(closed) = Len(rows) /\ DOMAIN closed = DOMAIN rows
  BY <1>1, <1>2, <1>3, MappedSeq
<1> QED BY <1>2, <1>4

\* Filling or correcting the open row.
LEMMA ChangedRows ==
  ASSUME GroundInv, NEW o \in DOMAIN rows, rows[o].ended = NULL,
         NEW row \in GroundRow, row.ended = NULL, RowSound(row, known), Ground!RowIsKept(rows[o], row),
         NEW changed, changed = Ground!Changed(row)
  PROVE  /\ changed \in Seq(GroundRow) /\ Len(changed) = Len(rows) /\ DOMAIN changed = DOMAIN rows
         /\ OneOpen(changed) /\ SomeOpen(changed)
         /\ \A i \in DOMAIN rows : RowSound(changed[i], known) /\ Ground!RowIsKept(rows[i], changed[i])
<1>1. changed = [i \in DOMAIN rows |-> changed[i]]
  BY DEF Ground!Changed
<1>2. \A i \in DOMAIN rows : changed[i] = IF i = o THEN row ELSE rows[i]
  BY DEF Ground!Changed, Ground!Open, GroundInv, OneOpen
<1>3. \A i \in DOMAIN rows : rows[i] \in GroundRow
  BY DEF GroundInv
<1>4. rows \in Seq(GroundRow)
  BY DEF GroundInv
<1>5. changed \in Seq(GroundRow) /\ Len(changed) = Len(rows) /\ DOMAIN changed = DOMAIN rows
  BY <1>1, <1>2, <1>3, <1>4, MappedSeq
<1>6. OneOpen(changed) /\ SomeOpen(changed)
  BY <1>2, <1>5 DEF OneOpen, SomeOpen, GroundInv
<1>7. ASSUME NEW i \in DOMAIN rows PROVE RowSound(changed[i], known) /\ Ground!RowIsKept(rows[i], changed[i])
  <2>1. CASE i = o
    BY <1>2, <2>1
  <2>2. CASE i # o
    <3>1. RowSound(rows[i], known) /\ rows[i] \in GroundRow /\ changed[i] = rows[i]
      BY <1>2, <1>3, <2>2 DEF GroundInv
    <3> QED BY <3>1 DEF GroundRow, RowSound, Ground!RowIsKept
  <2> QED BY <2>1, <2>2
<1> QED BY <1>5, <1>6, <1>7

\* A new row while none is open.
LEMMA InsertedRow ==
  ASSUME GroundInv, NEW closed \in Seq(GroundRow), Len(closed) = Len(rows),
         \A i \in DOMAIN closed : RowSound(closed[i], known) /\ closed[i].ended # NULL,
         \A i \in DOMAIN rows : Ground!RowIsKept(rows[i], closed[i]),
         NEW source \in Ground!Sources, NEW airport \in Airports \cup {NULL}, NEW stand \in Ground!Stands,
         NEW l \in known \cup {NULL}, NEW aircraft \in {"aircraft", NULL},
         rows' = Ground!Inserted(closed, source, airport, stand, l, aircraft), UNCHANGED known
  PROVE  /\ rows' \in Seq(GroundRow) /\ OneOpen(rows') /\ SomeOpen(rows')
         /\ \A i \in DOMAIN rows' : RowSound(rows'[i], known')
         /\ GroundKept
<1> DEFINE row == [source |-> source, airport |-> airport, stand |-> Ground!Held(stand, source),
                   standSource |-> IF stand = NULL THEN NULL ELSE source,
                   leg |-> Ground!Held(l, source), legSource |-> IF l = NULL THEN NULL ELSE source,
                   aircraft |-> aircraft, ended |-> NULL, flight |-> NULL, emptied |-> {}]
<1>1. /\ Ground!Held(stand, source) \in {NULL} \cup [value : Ground!Stands, author : Ground!Sources]
      /\ Ground!Held(l, source) \in {NULL} \cup [value : Legs, author : Ground!Sources]
  BY DEF Ground!Held, GroundInv
<1>2. row \in GroundRow /\ row.ended = NULL
  BY <1>1 DEF GroundRow
<1>3. RowSound(row, known)
  <2>1. ASSUME NEW value \in Ground!Stands \cup Legs
        PROVE  Ground!TellsAuthor(Ground!Held(value, source), IF value = NULL THEN NULL ELSE source, FALSE)
    BY GroundAssumption DEF Ground!TellsAuthor, Ground!Held
  <2>2. row.leg # NULL => row.leg.value \in known
    BY DEF Ground!Held
  <2>3. /\ row.flight = NULL /\ row.ended = NULL /\ ("stand" \in row.emptied) = FALSE /\ ("leg" \in row.emptied) = FALSE
        /\ row.stand = Ground!Held(stand, source) /\ row.standSource = IF stand = NULL THEN NULL ELSE source
        /\ row.leg = Ground!Held(l, source) /\ row.legSource = IF l = NULL THEN NULL ELSE source
    OBVIOUS
  <2>4. NULL \notin {"disconnect", "crash", "corrected"}
    BY GroundAssumption DEF Ground!Reasons
  <2> HIDE DEF row
  <2>5. Ground!TellsAuthor(row.stand, row.standSource, "stand" \in row.emptied)
    BY <2>1, <2>3
  <2>6. Ground!TellsAuthor(row.leg, row.legSource, "leg" \in row.emptied)
    <3>1. l \in Ground!Stands \cup Legs
      BY DEF GroundInv, Ground!Stands
    <3> QED BY <2>1, <2>3, <3>1
  <2> QED BY <2>2, <2>3, <2>4, <2>5, <2>6 DEF RowSound
<1>4. rows' = Append(closed, row)
  BY DEF Ground!Inserted
<1> HIDE DEF row
<1>5. /\ rows' \in Seq(GroundRow) /\ Len(rows') = Len(closed) + 1 /\ rows'[Len(closed) + 1] = row
      /\ \A i \in DOMAIN closed : rows'[i] = closed[i]
      /\ DOMAIN rows' = DOMAIN closed \cup {Len(closed) + 1} /\ Len(closed) + 1 \notin DOMAIN closed
  BY <1>2, <1>4
<1>6. OneOpen(rows') /\ SomeOpen(rows')
  BY <1>2, <1>5 DEF OneOpen, SomeOpen
<1>7. \A i \in DOMAIN rows' : RowSound(rows'[i], known')
  BY <1>3, <1>5
<1>8. rows \in Seq(GroundRow) /\ DOMAIN rows = DOMAIN closed
  BY DEF GroundInv
<1>9. GroundKept
  BY <1>5, <1>8 DEF GroundKept
<1> QED BY <1>5, <1>6, <1>7, <1>9

\* A gap that is filled takes the filler as its author, unless a source was left
\* beside it.
LEMMA FillTellsAuthor ==
  ASSUME NEW gap, NEW source \in Ground!Sources \cup {NULL}, NEW emptied, NEW value \in Ground!Stands \cup Legs,
         gap # NULL => gap.author \in Ground!Sources,
         Ground!TellsAuthor(gap, source, emptied)
  PROVE  Ground!TellsAuthor(Ground!Fill(gap, Ground!Held(value, "auto")),
                            Ground!Fill(source, IF value = NULL THEN NULL ELSE "auto"), emptied)
<1>1. NULL \notin Ground!Sources /\ "auto" \in Ground!Sources
  BY GroundAssumption DEF Ground!Sources
<1>2. CASE gap # NULL
  <2>1. source # NULL
    BY <1>1, <1>2 DEF Ground!TellsAuthor, Ground!Sources
  <2> QED BY <1>2, <2>1 DEF Ground!Fill
<1>3. CASE gap = NULL /\ value = NULL
  BY <1>3 DEF Ground!Fill, Ground!Held
<1>4. CASE gap = NULL /\ value # NULL
  <2>1. /\ Ground!Fill(gap, Ground!Held(value, "auto")) = [value |-> value, author |-> "auto"]
        /\ [value |-> value, author |-> "auto"] # NULL
    BY <1>1, <1>4, GroundAssumption DEF Ground!Fill, Ground!Held
  <2>2. CASE source = NULL
    BY <1>4, <2>1, <2>2 DEF Ground!Fill, Ground!TellsAuthor
  <2>3. CASE source # NULL
    BY <1>4, <2>1, <2>3 DEF Ground!Fill, Ground!TellsAuthor, Ground!Sources
  <2> QED BY <2>2, <2>3
<1> QED BY <1>2, <1>3, <1>4

\* What the operator gives is the operator's.
LEMMA TypedTellsAuthor ==
  ASSUME NEW value \in Ground!Stands \cup Legs, NEW emptied, value = NULL => emptied
  PROVE  Ground!TellsAuthor(Ground!Held(value, "manual"), "manual", emptied)
<1>1. "manual" \in Ground!Sources
  BY DEF Ground!Sources
<1>2. CASE value = NULL
  BY <1>2 DEF Ground!TellsAuthor, Ground!Held
<1>3. CASE value # NULL
  <2>1. [value |-> value, author |-> "manual"] # NULL
    BY <1>1, GroundAssumption
  <2> QED BY <1>3, <2>1 DEF Ground!TellsAuthor, Ground!Held
<1> QED BY <1>2, <1>3

\* enterGround: an open session takes what it lacked, or a new one is opened.
LEMMA EnterKeepsGround ==
  ASSUME GroundInv, NEW ap \in Airports \cup {NULL}, NEW l \in known \cup {NULL}, Ground!EnterGround(ap, l)
  PROVE  GroundInv' /\ GroundKept
<1> DEFINE stand == IF l = NULL THEN NULL ELSE Stand[l]
<1>1. stand \in Ground!Stands /\ UNCHANGED known /\ tracking' = TRUE
  BY DEF GroundInv, Ground!Stands, Ground!EnterGround
<1>2. CASE Ground!Open # {}
  <2> DEFINE o == CHOOSE i \in Ground!Open : TRUE
             row == Ground!Filled(Ground!OpenRow, ap, stand, l, "aircraft")
  <2>1. o \in DOMAIN rows /\ rows[o].ended = NULL /\ Ground!OpenRow = rows[o]
    BY <1>2 DEF Ground!Open, Ground!OpenRow
  <2>2. rows' = Ground!Changed(row)
    BY <1>2 DEF Ground!EnterGround
  <2> HIDE DEF o, stand
  <2>3. rows[o] \in GroundRow /\ RowSound(rows[o], known) /\ known \subseteq Legs
    BY <2>1 DEF GroundInv
  <2>4. /\ Ground!Held(stand, "auto") \in {NULL} \cup [value : Ground!Stands, author : {"auto"}]
        /\ Ground!Held(l, "auto") \in {NULL} \cup [value : known, author : {"auto"}]
        /\ stand = NULL => Ground!Held(stand, "auto") = NULL
        /\ l = NULL => Ground!Held(l, "auto") = NULL
    BY <1>1 DEF Ground!Held
  <2>5. row \in GroundRow /\ row.ended = NULL
    <3>1. /\ Ground!Held(stand, "auto") \in {NULL} \cup [value : Ground!Stands, author : Ground!Sources]
          /\ Ground!Held(l, "auto") \in {NULL} \cup [value : Legs, author : Ground!Sources]
      BY <2>3, <2>4 DEF Ground!Sources
    <3>2. "auto" \in Ground!Sources
      BY DEF Ground!Sources
    <3>3. /\ row.airport \in Airports \cup {NULL} /\ row.aircraft \in {"aircraft", NULL}
          /\ row.stand \in {NULL} \cup [value : Ground!Stands, author : Ground!Sources]
          /\ row.leg \in {NULL} \cup [value : Legs, author : Ground!Sources]
          /\ row.standSource \in Ground!Sources \cup {NULL} /\ row.legSource \in Ground!Sources \cup {NULL}
      BY <2>1, <2>3, <3>1, <3>2 DEF Ground!Filled, Ground!Fill, GroundRow
    <3>4. /\ row = [source |-> rows[o].source, airport |-> row.airport, stand |-> row.stand,
                    standSource |-> row.standSource, leg |-> row.leg, legSource |-> row.legSource,
                    aircraft |-> row.aircraft, ended |-> NULL, flight |-> rows[o].flight,
                    emptied |-> rows[o].emptied]
          /\ rows[o].source \in Ground!Sources /\ rows[o].flight \in {"flight", NULL}
          /\ rows[o].emptied \in SUBSET {"stand", "leg"}
      <4>1. DOMAIN rows[o] = {"source", "airport", "stand", "standSource", "leg", "legSource", "aircraft",
                              "ended", "flight", "emptied"}
        BY <2>3 DEF GroundRow
      <4>2. /\ rows[o].source \in Ground!Sources /\ rows[o].flight \in {"flight", NULL}
            /\ rows[o].emptied \in SUBSET {"stand", "leg"}
        BY <2>3 DEF GroundRow
      <4>3. /\ DOMAIN row = DOMAIN rows[o] /\ row.source = rows[o].source /\ row.ended = NULL
            /\ row.flight = rows[o].flight /\ row.emptied = rows[o].emptied /\ row = [f \in DOMAIN row |-> row[f]]
        BY <2>1, <4>1 DEF Ground!Filled
      <4> HIDE DEF row
      <4> QED BY <4>1, <4>2, <4>3
    <3> HIDE DEF row
    <3> QED BY <3>3, <3>4 DEF GroundRow
  <2>6. RowSound(row, known)
    <3>1. /\ row.stand = Ground!Fill(rows[o].stand, Ground!Held(stand, "auto"))
          /\ row.standSource = Ground!Fill(rows[o].standSource, IF stand = NULL THEN NULL ELSE "auto")
          /\ row.leg = Ground!Fill(rows[o].leg, Ground!Held(l, "auto"))
          /\ row.legSource = Ground!Fill(rows[o].legSource, IF l = NULL THEN NULL ELSE "auto")
          /\ row.emptied = rows[o].emptied /\ row.flight = rows[o].flight /\ row.ended = rows[o].ended
          /\ row.source = rows[o].source
      BY <2>1, <2>3 DEF Ground!Filled, GroundRow
    <3>2. Ground!TellsAuthor(row.stand, row.standSource, "stand" \in row.emptied)
      BY <1>1, <2>3, <3>1, FillTellsAuthor DEF RowSound, GroundRow
    <3>3. Ground!TellsAuthor(row.leg, row.legSource, "leg" \in row.emptied)
      <4>1. l \in Ground!Stands \cup Legs
        BY <2>3 DEF Ground!Stands
      <4> QED BY <2>3, <3>1, <4>1, FillTellsAuthor DEF RowSound, GroundRow
    <3> HIDE DEF row
    <3>4. row.leg # NULL => row.leg.value \in known
      BY <2>3, <2>4, <3>1 DEF Ground!Fill, RowSound
    <3>5. /\ row.flight # NULL => row.ended = "flight-started"
          /\ row.source = "manual" => row.ended \notin {"disconnect", "crash", "corrected"}
      BY <2>3, <3>1 DEF RowSound
    <3> QED BY <3>2, <3>3, <3>4, <3>5 DEF RowSound
  <2>7. Ground!RowIsKept(rows[o], row)
    BY <2>1, <2>3, GroundAssumption DEF Ground!Filled, Ground!Fill, GroundRow, Ground!RowIsKept, Ground!Reasons
  <2> HIDE DEF row
  <2>8. /\ rows' \in Seq(GroundRow) /\ Len(rows') = Len(rows) /\ DOMAIN rows' = DOMAIN rows
        /\ OneOpen(rows') /\ SomeOpen(rows')
        /\ \A i \in DOMAIN rows : RowSound(rows'[i], known) /\ Ground!RowIsKept(rows[i], rows'[i])
    BY <2>1, <2>2, <2>5, <2>6, <2>7, ChangedRows
  <2>9. rows \in Seq(GroundRow)
    BY DEF GroundInv
  <2> QED BY <1>1, <2>3, <2>8, <2>9 DEF GroundInv, GroundKept
<1>3. CASE Ground!Open = {}
  <2>1. rows' = Ground!Inserted(rows, "auto", ap, stand, l, "aircraft")
    BY <1>3 DEF Ground!EnterGround
  <2>2. \A i \in DOMAIN rows : RowSound(rows[i], known) /\ rows[i].ended # NULL /\ rows[i] \in GroundRow
    BY <1>3 DEF GroundInv, Ground!Open
  <2>3. \A i \in DOMAIN rows : Ground!RowIsKept(rows[i], rows[i])
    BY <2>2 DEF Ground!RowIsKept, RowSound, GroundRow
  <2>4. rows \in Seq(GroundRow) /\ "auto" \in Ground!Sources /\ known \subseteq Legs
    BY DEF GroundInv, Ground!Sources
  <2> HIDE DEF stand
  <2>5. /\ rows' \in Seq(GroundRow) /\ OneOpen(rows') /\ SomeOpen(rows')
        /\ \A i \in DOMAIN rows' : RowSound(rows'[i], known')
        /\ GroundKept
    BY <1>1, <2>1, <2>2, <2>3, <2>4, InsertedRow
  <2> QED BY <1>1, <2>4, <2>5 DEF GroundInv
<1> QED BY <1>2, <1>3

\* Every end of the open session.
LEMMA ClosingKeepsGround ==
  ASSUME GroundInv, NEW reason \in Ground!Reasons, NEW noted \in {"flight", NULL},
         noted # NULL => reason = "flight-started",
         reason \in {"disconnect", "crash", "corrected"} =>
           \A i \in DOMAIN rows : rows[i].ended = NULL => rows[i].source = "auto",
         rows' = Ground!Closed(rows, reason, noted), tracking' = FALSE, UNCHANGED known
  PROVE  GroundInv' /\ GroundKept
<1>1. /\ rows' \in Seq(GroundRow) /\ Len(rows') = Len(rows) /\ DOMAIN rows' = DOMAIN rows
      /\ \A i \in DOMAIN rows : /\ rows'[i].ended # NULL /\ RowSound(rows'[i], known)
                                /\ Ground!RowIsKept(rows[i], rows'[i])
  BY ClosedRows
<1>2. known \subseteq Legs /\ rows \in Seq(GroundRow)
  BY DEF GroundInv
<1>3. GroundKept
  BY <1>1, <1>2 DEF GroundKept
<1>4. OneOpen(rows') /\ \A i \in DOMAIN rows' : RowSound(rows'[i], known')
  BY <1>1 DEF OneOpen
<1> QED BY <1>1, <1>2, <1>3, <1>4 DEF GroundInv

\* Rows that stay as they are.
LEMMA StayingKeepsGround ==
  ASSUME GroundInv, UNCHANGED <<rows, known>>, tracking' = FALSE \/ tracking' = tracking
  PROVE  GroundInv' /\ GroundKept
<1>1. \A i \in DOMAIN rows : rows[i] \in GroundRow /\ RowSound(rows[i], known)
  BY DEF GroundInv
<1>2. GroundKept
  <2>1. \A i \in DOMAIN rows : Ground!RowIsKept(rows[i], rows[i])
    BY <1>1 DEF Ground!RowIsKept, RowSound, GroundRow
  <2>2. Len(rows) \in Nat
    BY DEF GroundInv
  <2> QED BY <2>1, <2>2 DEF GroundKept
<1>3. OneOpen(rows') /\ (SomeOpen(rows) => SomeOpen(rows'))
  BY DEF GroundInv, OneOpen, SomeOpen
<1>4. tracking' \in BOOLEAN /\ (tracking' => tracking)
  <2>1. tracking \in BOOLEAN
    BY DEF GroundInv
  <2>2. CASE tracking' = FALSE
    BY <2>2
  <2>3. CASE tracking' = tracking
    BY <2>1, <2>3
  <2> QED BY <2>2, <2>3
<1>5. rows' \in Seq(GroundRow) /\ known' \subseteq Legs /\ \A i \in DOMAIN rows' : RowSound(rows'[i], known')
  <2>1. rows' = rows /\ known' = known
    OBVIOUS
  <2> QED BY <1>1, <2>1 DEF GroundInv
<1> QED BY <1>2, <1>3, <1>4, <1>5 DEF GroundInv

\* POST: the automatic session is refined where it is, or the open one ends.
LEMMA PostKeepsGround ==
  ASSUME GroundInv, NEW icao \in Airports, NEW s \in {Ground!Absent, NULL, "typed"},
         NEW l \in known \cup {Ground!Absent}, NEW aircraft \in {"aircraft", NULL},
         Ground!PostGroundSession(icao, s, l, aircraft)
  PROVE  GroundInv' /\ GroundKept
<1> DEFINE o == CHOOSE i \in Ground!Open : TRUE
           refine == Ground!Open # {} /\ Ground!OpenRow.source = "auto" /\ Ground!OpenRow.airport = icao
<1>1. Ground!Open # {} => o \in DOMAIN rows /\ rows[o].ended = NULL /\ Ground!OpenRow = rows[o]
  BY DEF Ground!Open, Ground!OpenRow
<1> HIDE DEF o
<1>2. UNCHANGED <<known, tracking>> /\ known \subseteq Legs /\ rows \in Seq(GroundRow)
  BY DEF Ground!PostGroundSession, GroundInv
<1>3. CASE refine
  <2> DEFINE row == Ground!Refined(Ground!OpenRow, s, l)
  <2>1. rows' = Ground!Changed(row) /\ o \in DOMAIN rows /\ rows[o].ended = NULL /\ Ground!OpenRow = rows[o]
    BY <1>1, <1>3 DEF Ground!PostGroundSession
  <2>2. rows[o] \in GroundRow /\ RowSound(rows[o], known) /\ rows[o].source = "auto"
    BY <1>3, <2>1 DEF GroundInv
  <2>3. /\ s # Ground!Absent => Ground!Held(s, "manual") \in {NULL} \cup [value : {"typed"}, author : {"manual"}]
        /\ l # Ground!Absent => Ground!Held(l, "manual") \in {NULL} \cup [value : known, author : {"manual"}]
    BY DEF Ground!Held
  <2>4. row \in GroundRow /\ row.ended = NULL
    <3>1. /\ s # Ground!Absent => Ground!Held(s, "manual") \in {NULL} \cup [value : Ground!Stands, author : Ground!Sources]
          /\ l # Ground!Absent => Ground!Held(l, "manual") \in {NULL} \cup [value : Legs, author : Ground!Sources]
      BY <1>2, <2>3 DEF Ground!Sources, Ground!Stands
    <3>2. "manual" \in Ground!Sources
      BY DEF Ground!Sources
    <3>3. /\ row.stand \in {NULL} \cup [value : Ground!Stands, author : Ground!Sources]
          /\ row.leg \in {NULL} \cup [value : Legs, author : Ground!Sources]
          /\ row.standSource \in Ground!Sources \cup {NULL} /\ row.legSource \in Ground!Sources \cup {NULL}
      BY <2>1, <2>2, <3>1, <3>2 DEF Ground!Refined, GroundRow
    <3>4. /\ row = [source |-> rows[o].source, airport |-> rows[o].airport, stand |-> row.stand,
                    standSource |-> row.standSource, leg |-> row.leg, legSource |-> row.legSource,
                    aircraft |-> rows[o].aircraft, ended |-> NULL, flight |-> rows[o].flight,
                    emptied |-> row.emptied]
          /\ row.emptied \in SUBSET {"stand", "leg"}
          /\ rows[o].source \in Ground!Sources /\ rows[o].flight \in {"flight", NULL}
          /\ rows[o].airport \in Airports \cup {NULL} /\ rows[o].aircraft \in {"aircraft", NULL}
      BY <2>1, <2>2 DEF Ground!Refined, GroundRow
    <3> HIDE DEF row
    <3> QED BY <3>3, <3>4 DEF GroundRow
  <2>5. RowSound(row, known)
    <3>1. Ground!TellsAuthor(row.stand, row.standSource, "stand" \in row.emptied)
      <4>1. s = Ground!Absent => /\ row.stand = rows[o].stand /\ row.standSource = rows[o].standSource
                                /\ ("stand" \in row.emptied) = ("stand" \in rows[o].emptied)
        BY <2>1, <2>2 DEF Ground!Refined, GroundRow
      <4>2. s # Ground!Absent => /\ row.stand = Ground!Held(s, "manual") /\ row.standSource = "manual"
                                /\ (s = NULL => "stand" \in row.emptied)
        BY <2>1, <2>2 DEF Ground!Refined, GroundRow
      <4> HIDE DEF row
      <4>3. CASE s = Ground!Absent
        BY <2>2, <4>1, <4>3 DEF RowSound
      <4>4. CASE s # Ground!Absent
        <5>1. s \in Ground!Stands \cup Legs
          BY <4>4 DEF Ground!Stands
        <5> QED BY <4>2, <4>4, <5>1, TypedTellsAuthor
      <4> QED BY <4>3, <4>4
    <3>2. Ground!TellsAuthor(row.leg, row.legSource, "leg" \in row.emptied)
      <4>1. l = Ground!Absent => /\ row.leg = rows[o].leg /\ row.legSource = rows[o].legSource
                                /\ ("leg" \in row.emptied) = ("leg" \in rows[o].emptied)
        BY <2>1, <2>2 DEF Ground!Refined, GroundRow
      <4>2. l # Ground!Absent => row.leg = Ground!Held(l, "manual") /\ row.legSource = "manual"
        BY <2>1, <2>2 DEF Ground!Refined, GroundRow
      <4> HIDE DEF row
      <4>3. CASE l = Ground!Absent
        BY <2>2, <4>1, <4>3 DEF RowSound
      <4>4. CASE l # Ground!Absent
        <5>1. l # NULL /\ l \in Ground!Stands \cup Legs
          BY <1>2, <4>4, GroundAssumption
        <5> QED BY <4>2, <4>4, <5>1, TypedTellsAuthor
      <4> QED BY <4>3, <4>4
    <3>3. row.leg # NULL => row.leg.value \in known
      BY <2>1, <2>2, <2>3 DEF Ground!Refined, GroundRow, RowSound
    <3>4. /\ row.flight # NULL => row.ended = "flight-started"
          /\ row.source = "manual" => row.ended \notin {"disconnect", "crash", "corrected"}
      BY <2>1, <2>2 DEF Ground!Refined, GroundRow, RowSound
    <3> HIDE DEF row
    <3> QED BY <3>1, <3>2, <3>3, <3>4 DEF RowSound
  <2>6. Ground!RowIsKept(rows[o], row)
    BY <2>1, <2>2, <2>3 DEF Ground!Refined, GroundRow, Ground!RowIsKept, Ground!Value
  <2> HIDE DEF row
  <2>7. /\ rows' \in Seq(GroundRow) /\ Len(rows') = Len(rows) /\ DOMAIN rows' = DOMAIN rows
        /\ OneOpen(rows') /\ SomeOpen(rows')
        /\ \A i \in DOMAIN rows : RowSound(rows'[i], known) /\ Ground!RowIsKept(rows[i], rows'[i])
    BY <2>1, <2>4, <2>5, <2>6, ChangedRows
  <2> QED BY <1>2, <2>7 DEF GroundInv, GroundKept
<1>4. CASE ~refine
  <2> DEFINE closed == IF Ground!Open = {} THEN rows
                       ELSE Ground!Closed(rows, IF Ground!OpenRow.source = "manual" THEN "superseded" ELSE "corrected", NULL)
  <2>1. rows' = Ground!Inserted(closed, "manual", icao, Ground!Given(s), Ground!Given(l), aircraft)
    BY <1>4 DEF Ground!PostGroundSession
  <2>2. /\ closed \in Seq(GroundRow) /\ Len(closed) = Len(rows) /\ DOMAIN closed = DOMAIN rows
        /\ \A i \in DOMAIN rows : /\ closed[i].ended # NULL /\ RowSound(closed[i], known)
                                  /\ Ground!RowIsKept(rows[i], closed[i])
    <3>1. CASE Ground!Open = {}
      <4>1. \A i \in DOMAIN rows : rows[i].ended # NULL /\ RowSound(rows[i], known) /\ rows[i] \in GroundRow
        BY <3>1 DEF GroundInv, Ground!Open
      <4>2. \A i \in DOMAIN rows : Ground!RowIsKept(rows[i], rows[i])
        BY <4>1 DEF Ground!RowIsKept, RowSound, GroundRow
      <4> QED BY <1>2, <3>1, <4>1, <4>2
    <3>2. CASE Ground!Open # {}
      <4> DEFINE reason == IF Ground!OpenRow.source = "manual" THEN "superseded" ELSE "corrected"
      <4>1. o \in DOMAIN rows /\ rows[o] \in GroundRow /\ Ground!OpenRow = rows[o] /\ rows[o].ended = NULL
        BY <1>1, <3>2 DEF GroundInv
      <4>2. reason = "corrected" => \A i \in DOMAIN rows : rows[i].ended = NULL => rows[i].source = "auto"
        BY <4>1 DEF GroundInv, OneOpen, GroundRow, Ground!Sources
      <4>3. reason \in Ground!Reasons /\ reason \notin {"disconnect", "crash"}
        BY DEF Ground!Reasons
      <4>4. closed = Ground!Closed(rows, reason, NULL)
        BY <3>2
      <4> HIDE DEF reason, closed
      <4> QED BY <4>2, <4>3, <4>4, ClosedRows
    <3> QED BY <3>1, <3>2
  <2>3. Ground!Given(s) \in Ground!Stands /\ Ground!Given(l) \in known \cup {NULL} /\ icao \in Airports \cup {NULL}
    BY DEF Ground!Given, Ground!Stands
  <2>4. "manual" \in Ground!Sources
    BY DEF Ground!Sources
  <2> HIDE DEF closed
  <2>5. /\ rows' \in Seq(GroundRow) /\ OneOpen(rows') /\ SomeOpen(rows')
        /\ \A i \in DOMAIN rows' : RowSound(rows'[i], known')
        /\ GroundKept
    BY <1>2, <2>1, <2>2, <2>3, <2>4, InsertedRow
  <2> QED BY <1>2, <2>5 DEF GroundInv
<1> QED BY <1>3, <1>4

\* ON DELETE SET NULL of a leg.
LEMMA LegGoneKeepsGround ==
  ASSUME GroundInv, NEW l \in Legs, Ground!DeleteLeg(l)
  PROVE  GroundInv' /\ GroundKept
<1>1. rows \in Seq(GroundRow) /\ known \subseteq Legs /\ known' = known \ {l} /\ UNCHANGED tracking
  BY DEF Ground!DeleteLeg, GroundInv
<1>2. rows' = [i \in DOMAIN rows |-> rows'[i]]
  BY DEF Ground!DeleteLeg
<1>3. ASSUME NEW i \in DOMAIN rows
      PROVE  /\ rows'[i] \in GroundRow /\ rows'[i].ended = rows[i].ended /\ RowSound(rows'[i], known')
             /\ Ground!RowIsKept(rows[i], rows'[i])
  <2>1. rows[i] \in GroundRow /\ RowSound(rows[i], known)
    BY DEF GroundInv
  <2>2. CASE Ground!Value(rows[i].leg) = l
    <3>1. rows'[i] = [rows[i] EXCEPT !.leg = NULL, !.emptied = @ \cup {"leg"}]
      BY <2>2 DEF Ground!DeleteLeg
    <3>2. rows'[i] \in GroundRow /\ rows'[i].ended = rows[i].ended
      BY <2>1, <3>1 DEF GroundRow
    <3>3. RowSound(rows'[i], known')
      BY <2>1, <3>1 DEF GroundRow, RowSound, Ground!TellsAuthor
    <3>4. Ground!RowIsKept(rows[i], rows'[i])
      <4>1. /\ [rows'[i] EXCEPT !.leg = rows[i].leg, !.flight = rows[i].flight, !.emptied = rows[i].emptied] = rows[i]
            /\ rows'[i].leg = NULL /\ rows'[i].source = rows[i].source /\ rows'[i].airport = rows[i].airport
            /\ rows'[i].stand = rows[i].stand /\ rows'[i].ended = rows[i].ended
        BY <2>1, <3>1 DEF GroundRow
      <4> QED BY <2>1, <4>1 DEF Ground!RowIsKept, RowSound
    <3> QED BY <3>2, <3>3, <3>4
  <2>3. CASE Ground!Value(rows[i].leg) # l
    <3>1. rows'[i] = rows[i]
      BY <2>3 DEF Ground!DeleteLeg
    <3>2. rows[i].leg # NULL => rows[i].leg.value \in known'
      BY <1>1, <2>1, <2>3 DEF RowSound, Ground!Value
    <3> QED BY <2>1, <3>1, <3>2 DEF GroundRow, RowSound, Ground!RowIsKept
  <2> QED BY <2>2, <2>3
<1>4. rows' \in Seq(GroundRow) /\ Len(rows') = Len(rows) /\ DOMAIN rows' = DOMAIN rows
  BY <1>1, <1>2, <1>3, MappedSeq
<1>5. OneOpen(rows') /\ (SomeOpen(rows) => SomeOpen(rows'))
  BY <1>3, <1>4 DEF GroundInv, OneOpen, SomeOpen
<1>6. tracking' \in BOOLEAN /\ (tracking' => SomeOpen(rows'))
  BY <1>1, <1>5 DEF GroundInv
<1>7. GroundKept
  BY <1>1, <1>3, <1>4 DEF GroundKept
<1> QED BY <1>1, <1>3, <1>4, <1>5, <1>6, <1>7 DEF GroundInv

\* ON DELETE SET NULL of a flight.
LEMMA FlightGoneKeepsGround ==
  ASSUME GroundInv, Ground!DeleteFlight
  PROVE  GroundInv' /\ GroundKept
<1>1. rows \in Seq(GroundRow) /\ known \subseteq Legs /\ UNCHANGED <<known, tracking>>
  BY DEF Ground!DeleteFlight, GroundInv
<1>2. rows' = [i \in DOMAIN rows |-> rows'[i]] /\ \A i \in DOMAIN rows : rows'[i] = [rows[i] EXCEPT !.flight = NULL]
  BY DEF Ground!DeleteFlight
<1>3. ASSUME NEW i \in DOMAIN rows
      PROVE  /\ rows'[i] \in GroundRow /\ rows'[i].ended = rows[i].ended /\ RowSound(rows'[i], known')
             /\ Ground!RowIsKept(rows[i], rows'[i])
  <2>1. rows[i] \in GroundRow /\ RowSound(rows[i], known)
    BY DEF GroundInv
  <2>2. rows'[i] = [rows[i] EXCEPT !.flight = NULL]
    BY <1>2
  <2>3. rows'[i] \in GroundRow /\ rows'[i].ended = rows[i].ended
    BY <2>1, <2>2 DEF GroundRow
  <2>4. RowSound(rows'[i], known')
    BY <1>1, <2>1, <2>2 DEF GroundRow, RowSound
  <2>5. Ground!RowIsKept(rows[i], rows'[i])
    BY <2>1, <2>2 DEF GroundRow, RowSound, Ground!RowIsKept
  <2> QED BY <2>3, <2>4, <2>5
<1>4. rows' \in Seq(GroundRow) /\ Len(rows') = Len(rows) /\ DOMAIN rows' = DOMAIN rows
  BY <1>1, <1>2, <1>3, MappedSeq
<1>5. OneOpen(rows') /\ (SomeOpen(rows) => SomeOpen(rows'))
  BY <1>3, <1>4 DEF GroundInv, OneOpen, SomeOpen
<1>6. tracking' \in BOOLEAN /\ (tracking' => SomeOpen(rows'))
  BY <1>1, <1>5 DEF GroundInv
<1>7. GroundKept
  BY <1>1, <1>3, <1>4 DEF GroundKept
<1> QED BY <1>1, <1>3, <1>4, <1>5, <1>6, <1>7 DEF GroundInv

\* Every step of the machine, the operator and the database keeps the
\* invariant, and every row what RowIsKept says of it.
LEMMA StepKeepsGround == GroundInv /\ Ground!Next => GroundInv' /\ GroundKept
<1> SUFFICES ASSUME GroundInv, Ground!Next PROVE GroundInv' /\ GroundKept
  OBVIOUS
<1>1. CASE \E ap \in Airports \cup {NULL}, l \in known \cup {NULL} : Ground!EnterGround(ap, l)
  BY <1>1, EnterKeepsGround
<1>2. ASSUME NEW reason \in {"slew", "superseded", "sim-exit"}, Ground!LeaveGround(reason)
      PROVE  GroundInv' /\ GroundKept
  <2>1. /\ reason \in Ground!Reasons /\ reason \notin {"disconnect", "crash", "corrected"}
        /\ rows' = Ground!Closed(rows, reason, NULL) /\ tracking' = FALSE /\ UNCHANGED known
    BY <1>2 DEF Ground!LeaveGround, Ground!Reasons
  <2> QED BY <2>1, ClosingKeepsGround
<1>3. ASSUME NEW reason \in {"disconnect", "crash"}, Ground!LoseContact(reason)
      PROVE  GroundInv' /\ GroundKept
  <2>1. CASE Ground!Open # {} /\ Ground!OpenRow.source = "auto"
    <3>1. \A i \in DOMAIN rows : rows[i].ended = NULL => rows[i].source = "auto"
      BY <2>1 DEF GroundInv, OneOpen, Ground!Open, Ground!OpenRow
    <3>2. /\ reason \in Ground!Reasons /\ rows' = Ground!Closed(rows, reason, NULL)
          /\ tracking' = FALSE /\ UNCHANGED known
      BY <1>3, <2>1 DEF Ground!LoseContact, Ground!Reasons
    <3> QED BY <3>1, <3>2, ClosingKeepsGround
  <2>2. CASE ~(Ground!Open # {} /\ Ground!OpenRow.source = "auto")
    <3>1. UNCHANGED <<rows, known>> /\ tracking' = FALSE
      BY <1>3, <2>2 DEF Ground!LoseContact
    <3> QED BY <3>1, StayingKeepsGround
  <2> QED BY <2>1, <2>2
<1>4. CASE Ground!TakeOff
  <2>1. /\ "flight-started" \in Ground!Reasons /\ rows' = Ground!Closed(rows, "flight-started", "flight")
        /\ tracking' = FALSE /\ UNCHANGED known
    BY <1>4 DEF Ground!TakeOff, Ground!Reasons
  <2> QED BY <2>1, ClosingKeepsGround
<1>5. CASE Ground!Restart
  <2>1. UNCHANGED <<rows, known>> /\ tracking' = FALSE
    BY <1>5 DEF Ground!Restart
  <2> QED BY <2>1, StayingKeepsGround
<1>6. ASSUME NEW icao \in Airports, NEW s \in {Ground!Absent, NULL, "typed"}, NEW l \in known \cup {Ground!Absent},
             Ground!PostGroundSession(icao, s, l, IF tracking THEN "aircraft" ELSE NULL)
      PROVE  GroundInv' /\ GroundKept
  <2>1. (IF tracking THEN "aircraft" ELSE NULL) \in {"aircraft", NULL}
    OBVIOUS
  <2> QED BY <1>6, <2>1, PostKeepsGround
<1>7. CASE Ground!DeleteGroundSession
  <2>1. /\ "manual" \in Ground!Reasons /\ rows' = Ground!Closed(rows, "manual", NULL)
        /\ tracking' = FALSE /\ UNCHANGED known
    BY <1>7 DEF Ground!DeleteGroundSession, Ground!Reasons
  <2> QED BY <2>1, ClosingKeepsGround
<1> QED BY <1>1, <1>2, <1>3, <1>4, <1>5, <1>6, <1>7, LegGoneKeepsGround, FlightGoneKeepsGround DEF Ground!Next

\* A step of another machine.
LEMMA StutterKeepsGround == GroundInv /\ UNCHANGED groundVars => GroundInv' /\ GroundKept
BY StayingKeepsGround DEF groundVars

\* The ground sessions' invariant holds throughout.
LEMMA GroundAlways == Spec => []GroundInv
<1>1. Init => GroundInv
  BY InitGround DEF Init
<1>2. GroundInv /\ [Next]_vars => GroundInv'
  <2>1. CASE GroundNext
    BY <2>1, StepKeepsGround DEF GroundNext
  <2>2. CASE Next /\ ~GroundNext
    <3>1. UNCHANGED groundVars
      BY <2>2 DEF Next, ClockNext, SchemaNext, SignInNext, PlanNext, ReplayNext, FeaturesNext
    <3> QED BY <3>1, StutterKeepsGround
  <2>3. CASE UNCHANGED vars
    BY <2>3, StutterKeepsGround DEF vars
  <2> QED BY <2>1, <2>2, <2>3
<1> QED BY <1>1, <1>2, PTL DEF Spec

\* src/db/groundSessions.ts: at most one session is open, every value says who
\* put it there unless its column was emptied with a source left beside it, no
\* row names a leg that is gone, and a row notes a flight only if that flight
\* ended it.
THEOREM SessionsStaySound == Spec => []SessionsAreSound
BY GroundAlways, InvGround, PTL

\* The same, of the rows' history: whatever the machine, the operator and the
\* database do, no ended row changes but where a key is deleted, and nothing the
\* operator put is replaced by what telemetry detects.
THEOREM SessionsStayHistory == Spec => Ground!SessionsAreHistory
<1>1. GroundInv /\ [Next]_vars => [GroundKept]_groundVars
  <2>1. CASE GroundNext
    BY <2>1, StepKeepsGround DEF GroundNext
  <2>2. CASE Next /\ ~GroundNext
    BY <2>2 DEF Next, ClockNext, SchemaNext, SignInNext, PlanNext, ReplayNext, FeaturesNext
  <2>3. CASE UNCHANGED vars
    BY <2>3 DEF vars
  <2> QED BY <2>1, <2>2, <2>3
<1>2. [GroundKept]_groundVars
         => [/\ Len(rows') >= Len(rows)
             /\ \A i \in DOMAIN rows : Ground!RowIsKept(rows[i], rows'[i])]_(Ground!groundVars)
  BY DEF GroundKept, groundVars, Ground!groundVars
<1> QED BY <1>1, <1>2, GroundAlways, PTL DEF Spec, Ground!SessionsAreHistory

-----------------------------------------------------------------------------
(* The clock of a replay.                                                   *)

\* The frame the clock would cancel is the only one out, and only while it
\* plays on a page that is shown.
FrameLoop ==
  /\ handle \in {NULL} \cup 1..3
  /\ outstanding = IF playing /\ mounted THEN {handle} ELSE {}
  /\ playing /\ mounted => handle \in 1..3

ReplayInv ==
  /\ duration \in Nat /\ speed \in Nat /\ virtual \in 0..duration
  /\ FrameLoop
  /\ mounted /\ ~playing => shown = virtual

\* A smallest element of a non-empty set of handles, and of two numbers.
LEMMA FreshHandleIs ==
  ASSUME handle \in {NULL} \cup 1..3, outstanding \subseteq {handle}
  PROVE  Replay!FreshHandle \in 1..3 /\ Replay!FreshHandle # handle
<1> DEFINE S == 1..3 \ (outstanding \cup {handle})
<1>1. \E x \in S : \A y \in S : x <= y
  <2>1. S = 1..3 \ {handle}
    OBVIOUS
  <2>2. CASE handle = 1
    <3>1. 2 \in S /\ \A y \in S : 2 <= y
      BY <2>1, <2>2
    <3> QED BY <3>1
  <2>3. CASE handle # 1
    <3>1. 1 \in S /\ \A y \in S : 1 <= y
      BY <2>1, <2>3
    <3> QED BY <3>1
  <2> QED BY <2>2, <2>3
<1>2. Replay!FreshHandle \in S
  BY <1>1 DEF Replay!FreshHandle, Replay!Min
<1> QED BY <1>2

\* Math.min of two counts.
LEMMA LeastOfTwo ==
  ASSUME NEW x \in Int, NEW y \in Int
  PROVE  /\ Replay!Min({x, y}) = IF x <= y THEN x ELSE y
         /\ Replay!Max({x, y}) = IF x <= y THEN y ELSE x
<1>1. \E m \in {x, y} : \A z \in {x, y} : m <= z
  OBVIOUS
<1>2. \E m \in {x, y} : \A z \in {x, y} : m >= z
  OBVIOUS
<1> QED BY <1>1, <1>2 DEF Replay!Min, Replay!Max

\* A replay starts on a page that is shown, at 0, standing still.
LEMMA InitReplay == Replay!Init => ReplayInv
BY ReplayAssumption DEF Replay!Init, ReplayInv, FrameLoop

\* FrameLoop is OneFrameLoop, and the readout follows a replay that stands.
LEMMA InvReplay == ReplayInv => Replay!OneFrameLoop /\ Replay!ReadoutIsThePosition
BY ReplayAssumption DEF ReplayInv, FrameLoop, Replay!OneFrameLoop, Replay!ReadoutIsThePosition

\* finish(): the frame that is out is cancelled.
LEMMA FinishKeepsReplay ==
  ASSUME ReplayInv, Replay!Finish, UNCHANGED <<duration, speed, mounted>>
  PROVE  ReplayInv'
BY DEF ReplayInv, FrameLoop, Replay!Finish, Replay!CancelFrame

\* start() asks for the one frame.
LEMMA StartKeepsReplay ==
  ASSUME ReplayInv, mounted, NEW from \in 0..duration, Replay!StartPlaying(from), UNCHANGED <<duration, speed, mounted>>
  PROVE  ReplayInv'
<1>1. CASE duration <= 0
  BY <1>1, FinishKeepsReplay DEF Replay!StartPlaying
<1>2. CASE ~(duration <= 0)
  <2>1. Replay!FreshHandle \in 1..3
    BY FreshHandleIs DEF ReplayInv, FrameLoop
  <2>2. Replay!CancelFrame = {}
    BY DEF Replay!CancelFrame, ReplayInv, FrameLoop
  <2>3. /\ virtual' = from /\ playing' = TRUE
        /\ handle' = Replay!FreshHandle /\ outstanding' = {handle'}
    BY <1>2, <2>2 DEF Replay!StartPlaying
  <2>4. FrameLoop'
    BY <2>1, <2>3 DEF FrameLoop
  <2> QED BY <2>3, <2>4 DEF ReplayInv
<1> QED BY <1>1, <1>2

\* A frame that is delivered asks for the next, unless the replay ends with it.
LEMMA FrameKeepsReplay ==
  ASSUME ReplayInv, Replay!Frame
  PROVE  ReplayInv'
<1>1. playing /\ mounted /\ handle \in 1..3 /\ outstanding = {handle} /\ UNCHANGED <<duration, speed, mounted>>
  BY DEF Replay!Frame, ReplayInv, FrameLoop
<1>2. PICK late \in 1..LongFrame : Replay!Advance(late)
  BY <1>1 DEF Replay!Frame
<1> DEFINE step == Replay!Counted(late) * speed
<1>3. step \in Nat
  <2>1. Replay!Counted(late) \in Nat
    BY LeastOfTwo, ReplayAssumption DEF Replay!Counted
  <2> QED BY <2>1 DEF ReplayInv
<1> HIDE DEF step
<1>4. CASE virtual + step >= duration
  <2>1. Replay!Finish
    BY <1>2, <1>4 DEF Replay!Advance, step
  <2> QED BY <1>1, <2>1, FinishKeepsReplay
<1>5. CASE ~(virtual + step >= duration)
  <2>1. /\ virtual' = virtual + step /\ playing' = playing
        /\ handle' = Replay!FreshHandle /\ outstanding' = (outstanding \ {handle}) \cup {handle'}
    BY <1>2, <1>5 DEF Replay!Advance, step
  <2>2. handle' \in 1..3
    BY <1>1, <2>1, FreshHandleIs
  <2>3. virtual' \in 0..duration'
    BY <1>1, <1>3, <1>5, <2>1 DEF ReplayInv
  <2>4. outstanding' = {handle'}
    BY <1>1, <2>1
  <2>5. FrameLoop'
    BY <1>1, <2>1, <2>2, <2>4 DEF FrameLoop
  <2> QED BY <1>1, <2>1, <2>3, <2>5 DEF ReplayInv
<1> QED BY <1>4, <1>5

\* A seek shows where it puts the replay.
LEMMA SeekKeepsReplay ==
  ASSUME ReplayInv, NEW x \in Int, Replay!SeekTo(x)
  PROVE  ReplayInv'
<1>1. UNCHANGED <<duration, speed, playing, handle, outstanding, mounted>> /\ shown' = virtual'
  BY DEF Replay!SeekTo
<1>2. virtual' \in 0..duration
  <2>1. duration \in Int /\ duration >= 0 /\ 0 \in Int /\ virtual' = Replay!Max({0, Replay!Min({x, duration})})
    BY DEF Replay!SeekTo, ReplayInv
  <2>2. Replay!Min({x, duration}) = IF x <= duration THEN x ELSE duration
    BY <2>1, LeastOfTwo
  <2>3. Replay!Min({x, duration}) \in Int
    BY <2>1, <2>2
  <2>4. virtual' = IF 0 <= Replay!Min({x, duration}) THEN Replay!Min({x, duration}) ELSE 0
    BY <2>1, <2>3, LeastOfTwo
  <2> QED BY <2>1, <2>2, <2>4
<1>3. FrameLoop'
  BY <1>1 DEF ReplayInv, FrameLoop
<1> QED BY <1>1, <1>2, <1>3 DEF ReplayInv

\* Every step of the replay keeps its invariant.
LEMMA StepKeepsReplay == ReplayInv /\ Replay!Next => ReplayInv'
<1> SUFFICES ASSUME ReplayInv, Replay!Next PROVE ReplayInv'
  OBVIOUS
<1>1. CASE Replay!Play
  <2>1. mounted /\ UNCHANGED <<duration, speed, mounted>> /\ Replay!StartPlaying(IF finished THEN 0 ELSE virtual)
    BY <1>1 DEF Replay!Play, Replay!Viewer
  <2>2. (IF finished THEN 0 ELSE virtual) \in 0..duration
    BY DEF ReplayInv
  <2> QED BY <2>1, <2>2, StartKeepsReplay
<1>2. CASE Replay!Pause
  <2>1. /\ outstanding' = {} /\ handle' = NULL /\ playing' = FALSE /\ shown' = virtual
        /\ UNCHANGED <<duration, speed, virtual, mounted>>
    BY <1>2 DEF Replay!Pause, Replay!CancelFrame, ReplayInv, FrameLoop
  <2> QED BY <2>1 DEF ReplayInv, FrameLoop
<1>3. CASE Replay!Restart
  <2>1. mounted /\ UNCHANGED <<duration, speed, mounted>> /\ Replay!StartPlaying(0) /\ 0 \in 0..duration
    BY <1>3 DEF Replay!Restart, Replay!Viewer, ReplayInv
  <2> QED BY <2>1, StartKeepsReplay
<1>4. CASE Replay!SetSpeed
  <2>1. UNCHANGED <<duration, virtual, playing, handle, outstanding, shown, mounted>> /\ speed' \in Nat
    BY <1>4, ReplayAssumption DEF Replay!SetSpeed
  <2>2. FrameLoop'
    BY <2>1 DEF ReplayInv, FrameLoop
  <2> QED BY <2>1, <2>2 DEF ReplayInv
<1>5. CASE Replay!Grow
  <2>1. /\ UNCHANGED <<speed, virtual, playing, handle, outstanding, mounted>> /\ shown' = virtual
        /\ duration' \in Nat /\ duration' > duration
    BY <1>5, ReplayAssumption DEF Replay!Grow
  <2>2. FrameLoop'
    BY <2>1 DEF ReplayInv, FrameLoop
  <2> QED BY <2>1, <2>2 DEF ReplayInv
<1>6. CASE Replay!Unmount
  <2>1. outstanding' = {} /\ handle' = NULL /\ mounted' = FALSE /\ UNCHANGED <<duration, speed, virtual, playing>>
    BY <1>6 DEF Replay!Unmount, Replay!CancelFrame, ReplayInv, FrameLoop
  <2> QED BY <2>1 DEF ReplayInv, FrameLoop
<1>7. ASSUME NEW x \in {-1, 0, virtual - 1, virtual + 1, duration}, Replay!SeekTo(x)
      PROVE  ReplayInv'
  <2>1. x \in Int
    BY DEF ReplayInv
  <2> QED BY <1>7, <2>1, SeekKeepsReplay
<1> QED BY <1>1, <1>2, <1>3, <1>4, <1>5, <1>6, <1>7, FrameKeepsReplay DEF Replay!Next

\* So does a step of another machine.
LEMMA StutterKeepsReplay == ReplayInv /\ UNCHANGED replayVars => ReplayInv'
BY DEF replayVars, ReplayInv, FrameLoop

-----------------------------------------------------------------------------
(* The features of a map.                                                   *)

FeatureTypes ==
  /\ visible \subseteq Kinds /\ view \in Nat /\ lost \in Nat /\ stray \in Nat
  /\ debounce \in BOOLEAN /\ retry \in BOOLEAN /\ loading \in BOOLEAN /\ stuck \in BOOLEAN
  /\ request \in {NULL} \cup [view : Nat, kinds : SUBSET Kinds, again : BOOLEAN]
  /\ data \in {NULL} \cup [view : Nat, kinds : SUBSET Kinds]

\* A request that is out asks for what is ticked, from where the map was not
\* before what is drawn was.
RequestIsNewer ==
  /\ request # NULL => request.kinds = visible /\ request.view <= view
  /\ data # NULL => data.view <= view
  /\ request # NULL /\ data # NULL => data.view <= request.view

\* Without its overlay a map has no request and no timer, and no spinner turns.
OverlayGone ==
  ~Features!Mounted =>
    visible = {} /\ request = NULL /\ ~loading /\ ~debounce /\ ~retry /\ lost = 0 /\ stray = 0

FeaturesInv == FeatureTypes /\ RequestIsNewer /\ OverlayGone /\ Features!SpinnerIsHonest

\* What a step may do to the features drawn.
DrawsNewer ==
  data' # data /\ data' # NULL =>
    /\ data'.kinds = visible
    /\ data # NULL => data.view <= data'.view

\* A map starts with nothing requested and nothing drawn.
LEMMA InitFeatures == Features!Init => FeaturesInv
<1> SUFFICES ASSUME Features!Init PROVE FeaturesInv
  OBVIOUS
<1>1. FeatureTypes
  BY DEF Features!Init, FeatureTypes
<1>2. RequestIsNewer /\ OverlayGone /\ Features!SpinnerIsHonest
  BY DEF Features!Init, RequestIsNewer, OverlayGone, Features!SpinnerIsHonest
<1> QED BY <1>1, <1>2 DEF FeaturesInv

\* The overlay goes with all its state.
LEMMA UnmountKeepsFeatures ==
  ASSUME FeaturesInv, Features!Unmount, UNCHANGED view
  PROVE  FeaturesInv' /\ DrawsNewer
<1>1. /\ visible' = {} /\ ~debounce' /\ ~retry' /\ lost' = 0 /\ stray' = 0 /\ request' = NULL /\ data' = NULL
      /\ ~loading' /\ ~stuck'
  BY DEF Features!Unmount
<1>2. FeatureTypes'
  BY DEF FeaturesInv, FeatureTypes, Features!Unmount
<1>3. RequestIsNewer' /\ OverlayGone' /\ Features!SpinnerIsHonest'
  BY <1>1 DEF RequestIsNewer, OverlayGone, Features!SpinnerIsHonest, Features!Live
<1> QED BY <1>1, <1>2, <1>3 DEF FeaturesInv, DrawsNewer

\* The poll, while the overlay stays as it is.
LEMMA PollKeepsFeatures ==
  ASSUME FeaturesInv, UNCHANGED <<visible, view, Features!featureVars>>, status' # status => Features!Mounted'
  PROVE  FeaturesInv' /\ DrawsNewer
<1>1. UNCHANGED <<visible, view, debounce, retry, lost, stray, request, aborted, data, loading, error, stuck>>
  BY DEF Features!featureVars
<1>2. FeatureTypes' /\ RequestIsNewer'
  BY <1>1 DEF FeaturesInv, FeatureTypes, RequestIsNewer
<1>3. OverlayGone'
  BY <1>1 DEF FeaturesInv, OverlayGone, Features!Mounted
<1>4. Features!SpinnerIsHonest'
  BY <1>1 DEF FeaturesInv, OverlayGone, Features!SpinnerIsHonest, Features!Live, Features!Mounted
<1> QED BY <1>1, <1>2, <1>3, <1>4 DEF FeaturesInv, DrawsNewer

\* load(): what is asked for is what is ticked, where the map is.
LEMMA LoadKeepsFeatures ==
  ASSUME FeaturesInv, Features!Mounted, NEW again \in BOOLEAN, Features!Load(again), lost' \in Nat, stray' \in Nat,
         debounce' \in BOOLEAN, retry' \in BOOLEAN
  PROVE  FeaturesInv' /\ DrawsNewer
<1>1. /\ request' = [view |-> view, kinds |-> visible, again |-> again]
      /\ loading' = TRUE /\ UNCHANGED <<status, visible, view, data, stuck>>
  BY DEF Features!Load
<1>2. request' \in [view : Nat, kinds : SUBSET Kinds, again : BOOLEAN]
  BY <1>1 DEF FeaturesInv, FeatureTypes
<1>3. request' # NULL
  BY <1>2, FeaturesAssumption
<1>4. FeatureTypes'
  BY <1>1, <1>2 DEF FeaturesInv, FeatureTypes
<1>5. RequestIsNewer'
  BY <1>1 DEF FeaturesInv, FeatureTypes, RequestIsNewer
<1>6. Features!SpinnerIsHonest'
  BY <1>3 DEF Features!SpinnerIsHonest
<1> QED BY <1>1, <1>4, <1>5, <1>6 DEF FeaturesInv, DrawsNewer, OverlayGone, Features!Mounted

\* An answer, an error or a retry ends the request; a disposed effect only
\* turns the spinner.
LEMMA EndKeepsFeatures ==
  ASSUME FeaturesInv, Features!Ends \/ Features!StrayFires
  PROVE  FeaturesInv' /\ DrawsNewer
<1>1. CASE Features!Answered
  <2>1. /\ request # NULL /\ request' = NULL /\ loading' = FALSE /\ stuck' = FALSE
        /\ data' = [view |-> request.view, kinds |-> request.kinds]
        /\ UNCHANGED <<status, visible, view, debounce, retry, lost, stray>>
    BY <1>1 DEF Features!Answered, Features!Settled
  <2>2. request \in [view : Nat, kinds : SUBSET Kinds, again : BOOLEAN]
    BY <2>1 DEF FeaturesInv, FeatureTypes
  <2>3. FeatureTypes'
    BY <2>1, <2>2 DEF FeaturesInv, FeatureTypes
  <2>4. RequestIsNewer' /\ DrawsNewer
    BY <2>1, <2>2 DEF FeaturesInv, FeatureTypes, RequestIsNewer, DrawsNewer
  <2>5. OverlayGone' /\ Features!SpinnerIsHonest'
    BY <2>1 DEF FeaturesInv, OverlayGone, Features!SpinnerIsHonest, Features!Mounted
  <2> QED BY <2>3, <2>4, <2>5 DEF FeaturesInv
<1>2. CASE Features!Fails
  <2>1. /\ request' = NULL /\ loading' = FALSE /\ stuck' = FALSE
        /\ UNCHANGED <<status, visible, view, debounce, retry, lost, stray, data>>
    BY <1>2 DEF Features!Fails, Features!Settled
  <2>2. FeatureTypes'
    BY <2>1 DEF FeaturesInv, FeatureTypes
  <2>3. RequestIsNewer' /\ OverlayGone' /\ Features!SpinnerIsHonest' /\ DrawsNewer
    BY <2>1 DEF FeaturesInv, RequestIsNewer, OverlayGone, Features!SpinnerIsHonest, Features!Mounted, DrawsNewer
  <2> QED BY <2>2, <2>3 DEF FeaturesInv
<1>3. CASE Features!Busy
  <2>1. request # NULL /\ UNCHANGED <<status, visible, view, debounce, stray, data>> /\ request' = NULL
    BY <1>3 DEF Features!Busy, Features!Settled
  <2>2. CASE request.again
    <3>1. /\ retry' = TRUE /\ lost' = lost + (IF retry THEN 1 ELSE 0) /\ UNCHANGED <<loading, error, stuck>>
      BY <1>3, <2>2 DEF Features!Busy
    <3>2. lost' \in Nat
      <4>1. (IF retry THEN 1 ELSE 0) \in Nat
        OBVIOUS
      <4> QED BY <3>1, <4>1 DEF FeaturesInv, FeatureTypes
    <3>3. FeatureTypes'
      BY <2>1, <3>1, <3>2 DEF FeaturesInv, FeatureTypes
    <3>4. Features!Mounted
      BY <2>1 DEF FeaturesInv, OverlayGone, Features!Mounted
    <3>5. RequestIsNewer' /\ OverlayGone' /\ Features!SpinnerIsHonest' /\ DrawsNewer
      BY <2>1, <3>1, <3>4 DEF FeaturesInv, RequestIsNewer, OverlayGone, Features!SpinnerIsHonest, Features!Mounted, DrawsNewer
    <3> QED BY <3>3, <3>5 DEF FeaturesInv
  <2>3. CASE ~request.again
    <3>1. /\ loading' = FALSE /\ stuck' = FALSE /\ UNCHANGED <<retry, lost>>
      BY <1>3, <2>3 DEF Features!Busy, Features!Settled
    <3>2. FeatureTypes'
      BY <2>1, <3>1 DEF FeaturesInv, FeatureTypes
    <3>3. RequestIsNewer' /\ OverlayGone' /\ Features!SpinnerIsHonest' /\ DrawsNewer
      BY <2>1, <3>1 DEF FeaturesInv, RequestIsNewer, OverlayGone, Features!SpinnerIsHonest, Features!Mounted, DrawsNewer
    <3> QED BY <3>2, <3>3 DEF FeaturesInv
  <2> QED BY <2>2, <2>3
<1>4. CASE Features!StrayFires
  <2>1. /\ stray > 0 /\ stray' = stray - 1 /\ loading' = TRUE /\ stuck' = TRUE
        /\ UNCHANGED <<status, visible, view, debounce, retry, lost, request, data>>
    BY <1>4 DEF Features!StrayFires
  <2>2. FeatureTypes'
    BY <2>1 DEF FeaturesInv, FeatureTypes
  <2>3. RequestIsNewer' /\ OverlayGone' /\ Features!SpinnerIsHonest' /\ DrawsNewer
    BY <2>1 DEF FeaturesInv, FeatureTypes, RequestIsNewer, OverlayGone, Features!SpinnerIsHonest, Features!Mounted, DrawsNewer
  <2> QED BY <2>2, <2>3 DEF FeaturesInv
<1> QED BY <1>1, <1>2, <1>3, <1>4 DEF Features!Ends

\* The kinds are ticked anew: what was asked for is given up.
LEMMA ToggleKeepsFeatures ==
  ASSUME FeaturesInv, NEW k \in Kinds, Features!Toggle(k)
  PROVE  FeaturesInv' /\ DrawsNewer
<1>1. /\ visible' \subseteq Kinds /\ stray' = stray + lost /\ lost' = 0 /\ request' = NULL
      /\ retry' = FALSE /\ debounce' = (visible' # {}) /\ UNCHANGED <<status, view>> /\ Features!Mounted
      /\ \/ visible' = {} /\ data' = NULL /\ loading' = FALSE /\ stuck' = FALSE
         \/ visible' # {} /\ UNCHANGED <<data, loading, stuck>>
  BY DEF Features!Toggle, FeaturesInv, FeatureTypes
<1>2. stray' \in Nat /\ lost' \in Nat
  BY <1>1 DEF FeaturesInv, FeatureTypes
<1>3. debounce' \in BOOLEAN /\ retry' \in BOOLEAN /\ loading' \in BOOLEAN /\ stuck' \in BOOLEAN
  BY <1>1 DEF FeaturesInv, FeatureTypes
<1>4. FeatureTypes'
  BY <1>1, <1>2, <1>3 DEF FeaturesInv, FeatureTypes
<1>5. RequestIsNewer' /\ OverlayGone' /\ DrawsNewer
  BY <1>1 DEF FeaturesInv, RequestIsNewer, OverlayGone, DrawsNewer, Features!Mounted
<1>6. Features!SpinnerIsHonest'
  BY <1>1 DEF Features!SpinnerIsHonest, Features!Live
<1> QED BY <1>4, <1>5, <1>6 DEF FeaturesInv

\* Every step of the map keeps its invariant and draws nothing older.
LEMMA StepKeepsFeatures == FeaturesInv /\ Features!Next => FeaturesInv' /\ DrawsNewer
<1> SUFFICES ASSUME FeaturesInv, Features!Next PROVE FeaturesInv' /\ DrawsNewer
  OBVIOUS
<1>1. CASE Features!StatusAnswered
  <2>1. CASE status' = "absent"
    <3>1. Features!Unmount /\ UNCHANGED view
      BY <1>1, <2>1 DEF Features!StatusAnswered
    <3> QED BY <3>1, UnmountKeepsFeatures
  <2>2. CASE status' # "absent"
    <3>1. UNCHANGED <<visible, view, Features!featureVars>> /\ Features!Mounted'
      BY <1>1, <2>2 DEF Features!StatusAnswered, Features!Mounted
    <3> QED BY <3>1, PollKeepsFeatures
  <2> QED BY <2>1, <2>2
<1>2. CASE Features!StatusFails \/ Features!PollAgain
  <2>1. UNCHANGED <<visible, view, Features!featureVars, status>>
    BY <1>2 DEF Features!StatusFails, Features!PollAgain
  <2> QED BY <2>1, PollKeepsFeatures
<1>3. CASE Features!Leave
  BY <1>3, UnmountKeepsFeatures DEF Features!Leave
<1>4. CASE Features!Move
  <2>1. /\ view' = view + 1 /\ UNCHANGED <<status, visible, lost, stray, request, data, loading, stuck>>
        /\ \/ Features!Live /\ debounce' = TRUE /\ retry' = FALSE
           \/ ~Features!Live /\ UNCHANGED <<debounce, retry>>
    BY <1>4 DEF Features!Move, Features!Schedule
  <2>2. debounce' \in BOOLEAN /\ retry' \in BOOLEAN
    BY <2>1 DEF FeaturesInv, FeatureTypes
  <2>3. FeatureTypes'
    BY <2>1, <2>2 DEF FeaturesInv, FeatureTypes
  <2>4. RequestIsNewer' /\ DrawsNewer
    BY <2>1 DEF FeaturesInv, FeatureTypes, RequestIsNewer, DrawsNewer
  <2>5. OverlayGone' /\ Features!SpinnerIsHonest'
    BY <2>1 DEF FeaturesInv, OverlayGone, Features!SpinnerIsHonest, Features!Live, Features!Mounted
  <2> QED BY <2>3, <2>4, <2>5 DEF FeaturesInv
<1>5. ASSUME NEW k \in Kinds, Features!Toggle(k) PROVE FeaturesInv' /\ DrawsNewer
  BY <1>5, ToggleKeepsFeatures
<1>6. CASE Features!Loads
  <2>1. lost \in Nat /\ stray \in Nat /\ debounce \in BOOLEAN /\ retry \in BOOLEAN
    BY DEF FeaturesInv, FeatureTypes
  <2>2. CASE Features!DebounceFires
    <3>1. debounce /\ debounce' = FALSE /\ Features!Load(TRUE) /\ UNCHANGED <<retry, lost, stray>>
      BY <2>2 DEF Features!DebounceFires
    <3>2. Features!Mounted
      BY <3>1 DEF FeaturesInv, OverlayGone
    <3> QED BY <2>1, <3>1, <3>2, LoadKeepsFeatures
  <2>3. CASE Features!RetryFires
    <3>1. retry /\ retry' = FALSE /\ Features!Load(FALSE) /\ UNCHANGED <<debounce, lost, stray>>
      BY <2>3 DEF Features!RetryFires
    <3>2. Features!Mounted
      BY <3>1 DEF FeaturesInv, OverlayGone
    <3> QED BY <2>1, <3>1, <3>2, LoadKeepsFeatures
  <2>4. CASE Features!LostFires
    <3>1. lost > 0 /\ lost' = lost - 1 /\ Features!Load(FALSE) /\ UNCHANGED <<debounce, retry, stray>>
      BY <2>4 DEF Features!LostFires
    <3>2. Features!Mounted
      BY <3>1 DEF FeaturesInv, OverlayGone
    <3>3. lost' \in Nat
      BY <2>1, <3>1
    <3> QED BY <2>1, <3>1, <3>2, <3>3, LoadKeepsFeatures
  <2> QED BY <1>6, <2>2, <2>3, <2>4 DEF Features!Loads
<1>7. CASE Features!Ends \/ Features!StrayFires
  BY <1>7, EndKeepsFeatures
<1>8. ASSUME NEW r \in aborted, Features!AbortedEnds(r) PROVE FeaturesInv' /\ DrawsNewer
  <2>1. UNCHANGED <<status, visible, view, debounce, retry, lost, stray, request, data, loading, error, stuck>>
    BY <1>8 DEF Features!AbortedEnds
  <2>2. FeatureTypes'
    BY <2>1 DEF FeaturesInv, FeatureTypes
  <2>3. RequestIsNewer' /\ OverlayGone' /\ Features!SpinnerIsHonest' /\ DrawsNewer
    BY <2>1 DEF FeaturesInv, RequestIsNewer, OverlayGone, Features!SpinnerIsHonest, Features!Live, Features!Mounted, DrawsNewer
  <2> QED BY <2>2, <2>3 DEF FeaturesInv
<1> QED BY <1>1, <1>2, <1>3, <1>4, <1>5, <1>6, <1>7, <1>8 DEF Features!Next

\* So does a step of another machine.
LEMMA StutterKeepsFeatures == FeaturesInv /\ UNCHANGED mapVars => FeaturesInv' /\ DrawsNewer
<1> SUFFICES ASSUME FeaturesInv, UNCHANGED mapVars PROVE FeaturesInv' /\ DrawsNewer
  OBVIOUS
<1>1. UNCHANGED <<visible, view, Features!featureVars, status>>
  BY DEF mapVars, Features!featureVars
<1> QED BY <1>1, PollKeepsFeatures

-----------------------------------------------------------------------------
(* Replay and map together.                                                 *)

PagesInv == ReplayInv /\ FeaturesInv

\* Both invariants hold throughout.
LEMMA PagesAlways == Spec => []PagesInv
<1>1. Init => PagesInv
  BY InitReplay, InitFeatures DEF Init, PagesInv
<1>2. PagesInv /\ [Next]_vars => PagesInv'
  <2>1. CASE ReplayNext
    BY <2>1, StepKeepsReplay, StutterKeepsFeatures DEF ReplayNext, PagesInv
  <2>2. CASE FeaturesNext
    BY <2>2, StepKeepsFeatures, StutterKeepsReplay DEF FeaturesNext, PagesInv
  <2>3. CASE Next /\ ~ReplayNext /\ ~FeaturesNext
    <3>1. UNCHANGED replayVars /\ UNCHANGED mapVars
      BY <2>3 DEF Next, ClockNext, SchemaNext, SignInNext, GroundNext, PlanNext
    <3> QED BY <3>1, StutterKeepsReplay, StutterKeepsFeatures DEF PagesInv
  <2>4. CASE UNCHANGED vars
    BY <2>4, StutterKeepsReplay, StutterKeepsFeatures DEF vars, PagesInv
  <2> QED BY <2>1, <2>2, <2>3, <2>4
<1> QED BY <1>1, <1>2, PTL DEF Spec

\* useReplayClock, useNavdataFeatures: one frame is out while a replay plays and
\* none else, a replay that stands still shows where it stands, and a spinner
\* that turns has something that will end it.
THEOREM PagesStayHonest == Spec => []PagesAreHonest
<1>1. PagesInv => PagesAreHonest
  BY InvReplay DEF PagesInv, FeaturesInv, PagesAreHonest
<1> QED BY <1>1, PagesAlways, PTL

\* useNavdataFeatures: what a map draws next is of the kinds then ticked and of
\* no earlier view, whatever answers late, is retried or was given up.
THEOREM MapsDrawNewer == Spec => Features!NewerIsDrawn
<1>1. PagesInv /\ [Next]_vars => [DrawsNewer]_mapVars
  <2>1. CASE FeaturesNext
    BY <2>1, StepKeepsFeatures DEF FeaturesNext, PagesInv
  <2>2. CASE Next /\ ~FeaturesNext
    BY <2>2 DEF Next, ClockNext, SchemaNext, SignInNext, GroundNext, PlanNext, ReplayNext
  <2>3. CASE UNCHANGED vars
    BY <2>3 DEF vars
  <2> QED BY <2>1, <2>2, <2>3
<1>2. [DrawsNewer]_mapVars
         => [data' # data /\ data' # NULL =>
               /\ data'.kinds = visible
               /\ data # NULL => data.view <= data'.view]_(Features!mapVars)
  BY DEF DrawsNewer, mapVars, Features!mapVars, Features!featureVars
<1> QED BY <1>1, <1>2, PagesAlways, PTL DEF Spec, Features!NewerIsDrawn

-----------------------------------------------------------------------------
(* The session store.                                                       *)

SessionRow == [expires : Nat, whole : BOOLEAN]

\* A session that was stored and not destroyed since is there as it was stored,
\* unless it has expired; any other row does not parse.
StoredAsHeld(row, told, t) ==
  /\ told # NULL => told.whole /\ (row = told \/ (row = NULL /\ told.expires <= t))
  /\ told = NULL => row = NULL \/ ~row.whole

StoreInv ==
  /\ clock \in Nat
  /\ stored \in [Sids -> {NULL} \cup SessionRow] /\ held \in [Sids -> {NULL} \cup SessionRow]
  /\ \A s \in Sids : StoredAsHeld(stored[s], held[s], clock)

\* An empty table is what a store that was told nothing holds.
LEMMA InitStore == SignIn!Init => StoreInv
BY DEF SignIn!Init, StoreInv, StoredAsHeld

\* get() answers from a row that is as it was stored.
LEMMA InvStore == StoreInv => SignIn!StoreIsItsCalls
<1> SUFFICES ASSUME StoreInv, NEW s \in Sids
             PROVE  SignIn!Got(s) = IF held[s] = NULL THEN NULL ELSE IF held[s].expires <= clock THEN NULL ELSE held[s]
  BY DEF SignIn!StoreIsItsCalls
<1>1. StoredAsHeld(stored[s], held[s], clock)
  BY DEF StoreInv
<1> QED BY <1>1 DEF SignIn!Got, SignIn!Expired, StoredAsHeld

\* Rows that are expired may go at any time.
LEMMA SweepKeepsStore ==
  ASSUME StoreInv, UNCHANGED <<clock, held>>, stored' \in [Sids -> {NULL} \cup SessionRow],
         \A s \in Sids : \/ stored'[s] = stored[s]
                         \/ stored[s] # NULL /\ stored[s].expires <= clock /\ stored'[s] = NULL
  PROVE  StoreInv'
<1>1. \A s \in Sids : StoredAsHeld(stored[s], held[s], clock) => StoredAsHeld(stored'[s], held[s], clock)
  BY DEF StoredAsHeld
<1> QED BY <1>1 DEF StoreInv

\* What is stored is what the store was told, when it parses.
LEMMA StoredIsHeld ==
  ASSUME NEW row, row # NULL, row.whole, NEW t
  PROVE  StoredAsHeld(row, row, t)
BY DEF StoredAsHeld

\* Every call of the store, and time, keeps what was stored.
LEMMA StepKeepsStore == StoreInv /\ SignIn!Next => StoreInv'
<1> SUFFICES ASSUME StoreInv, SignIn!Next PROVE StoreInv'
  OBVIOUS
<1> USE DEF StoreInv
<1>1. CASE SignIn!Set
  <2>1. PICK s \in Sids, cookie \in {NULL, clock + 1} :
          LET row == [expires |-> SignIn!ExpiryFor(cookie), whole |-> TRUE]
          IN  stored' = [stored EXCEPT ![s] = row] /\ held' = [held EXCEPT ![s] = row]
    BY <1>1 DEF SignIn!Set
  <2> DEFINE row == [expires |-> SignIn!ExpiryFor(cookie), whole |-> TRUE]
  <2>2. SignIn!ExpiryFor(cookie) \in Nat
    BY SignInAssumption DEF SignIn!ExpiryFor
  <2>3. row \in SessionRow /\ row.whole
    BY <2>2 DEF SessionRow
  <2>4. stored' = [stored EXCEPT ![s] = row] /\ held' = [held EXCEPT ![s] = row] /\ clock' = clock
    BY <1>1, <2>1 DEF SignIn!Set
  <2> HIDE DEF row
  <2>5. StoredAsHeld(row, row, clock)
    <3>1. row # NULL
      BY <2>3, SignInAssumption DEF SessionRow
    <3> QED BY <2>3, <3>1, StoredIsHeld
  <2> QED BY <2>3, <2>4, <2>5
<1>2. CASE SignIn!Get
  <2>1. PICK s \in Sids : /\ stored[s] # NULL /\ stored[s].expires <= clock
                          /\ stored' = [stored EXCEPT ![s] = NULL] /\ UNCHANGED <<clock, held>>
    BY <1>2 DEF SignIn!Get, SignIn!Expired
  <2> QED BY <2>1, SweepKeepsStore
<1>3. CASE SignIn!Destroy
  <2>1. PICK s \in Sids : stored' = [stored EXCEPT ![s] = NULL] /\ held' = [held EXCEPT ![s] = NULL] /\ clock' = clock
    BY <1>3 DEF SignIn!Destroy
  <2> QED BY <2>1 DEF StoredAsHeld
<1>4. CASE SignIn!Damage
  <2>1. PICK s \in Sids : /\ stored[s] # NULL /\ stored' = [stored EXCEPT ![s] = [stored[s] EXCEPT !.whole = FALSE]]
                          /\ held' = [held EXCEPT ![s] = NULL] /\ clock' = clock
    BY <1>4 DEF SignIn!Damage
  <2> DEFINE row == [stored[s] EXCEPT !.whole = FALSE]
  <2>2. row \in SessionRow /\ ~row.whole
    BY <2>1 DEF SessionRow
  <2>3. StoredAsHeld(row, NULL, clock)
    BY <2>2 DEF StoredAsHeld
  <2> HIDE DEF row
  <2>4. stored' = [stored EXCEPT ![s] = row]
    BY <2>1 DEF row
  <2> QED BY <2>1, <2>2, <2>3, <2>4
<1>5. CASE SignIn!Sweep \/ SignIn!Restart
  <2>1. /\ UNCHANGED <<clock, held>>
        /\ stored' = [s \in Sids |-> IF stored[s] # NULL /\ stored[s].expires <= clock THEN NULL ELSE stored[s]]
    BY <1>5 DEF SignIn!Sweep, SignIn!Restart, SignIn!Swept
  <2> QED BY <2>1, SweepKeepsStore
<1>6. CASE SignIn!Tick
  <2>1. clock' = clock + 1 /\ UNCHANGED <<stored, held>>
    BY <1>6 DEF SignIn!Tick
  <2>2. ASSUME NEW s \in Sids PROVE StoredAsHeld(stored[s], held[s], clock + 1)
    <3>1. held[s] \in {NULL} \cup SessionRow
      OBVIOUS
    <3>2. held[s] # NULL /\ held[s].expires <= clock => held[s].expires <= clock + 1
      BY <3>1 DEF SessionRow
    <3> QED BY <3>2 DEF StoredAsHeld
  <2> QED BY <2>1, <2>2
<1>7. CASE SignIn!Refused \/ SignIn!Failed \/ SignIn!Succeeded
  BY <1>7 DEF SignIn!Refused, SignIn!Failed, SignIn!Succeeded
<1> QED BY <1>1, <1>2, <1>3, <1>4, <1>5, <1>6, <1>7 DEF SignIn!Next

\* So does a step of another machine.
LEMMA StutterKeepsStore == StoreInv /\ UNCHANGED signInVars => StoreInv'
BY DEF StoreInv, signInVars

-----------------------------------------------------------------------------
(* The login throttle.                                                      *)

\* The failures of an address in order, and no two of them that stand
\* 2 * MaxFailures - 1 apart within one window.
History(f, t) ==
  /\ f \in Seq(Nat)
  /\ \A i, j \in DOMAIN f : i <= j => f[i] <= f[j]
  /\ \A i \in DOMAIN f : f[i] <= t
  /\ \A i, j \in DOMAIN f : j = i + 2 * MaxFailures - 1 => f[i] + Window <= f[j]

\* A window that starts at t after k failures: all k are earlier, and of those
\* the MaxFailures-th last is a window earlier.
StartsAfter(f, k, t) ==
  /\ k \in DOMAIN f => f[k] < t
  /\ k - MaxFailures + 1 \in DOMAIN f => f[k - MaxFailures + 1] + Window <= t

\* What an entry of the throttle knows of them: the failures since the one
\* that started its window, or that a new window may start.
Remembers(e, f, t) ==
  /\ e = NULL => StartsAfter(f, Len(f), t)
  /\ e # NULL => /\ e.count \in 1..MaxFailures /\ e.count <= Len(f)
                 /\ e.start = f[Len(f) - e.count + 1] /\ f[Len(f)] < e.start + Window
                 /\ StartsAfter(f, Len(f) - e.count, e.start)

ThrottleInv ==
  /\ clock \in Nat
  /\ entries \in [Addresses -> {NULL} \cup [count : Nat, start : Nat]]
  /\ failures \in [Addresses -> Seq(Nat)]
  /\ \A a \in Addresses : History(failures[a], clock) /\ Remembers(entries[a], failures[a], clock)

\* An entry whose window is over may be dropped.
LEMMA OverIsForgotten ==
  ASSUME NEW t \in Nat, NEW f, History(f, t), NEW e \in [count : Nat, start : Nat],
         e # NULL, Remembers(e, f, t), t - e.start >= Window
  PROVE  Remembers(NULL, f, t)
<1> DEFINE n == Len(f)
           first == n - e.count + 1
<1>a. /\ n \in Nat /\ DOMAIN f = 1..n /\ \A i, j \in 1..n : i <= j => f[i] <= f[j]
      /\ \A i \in 1..n : f[i] \in Nat
  BY DEF History
<1>b. /\ e.count \in 1..MaxFailures /\ e.count <= n /\ e.start = f[first]
       /\ f[n] < e.start + Window
  BY DEF Remembers
<1>1. /\ n \in Nat /\ DOMAIN f = 1..n /\ e.count \in 1..MaxFailures /\ e.count <= n /\ e.start = f[first]
      /\ f[n] < e.start + Window /\ \A i, j \in 1..n : i <= j => f[i] <= f[j]
      /\ \A i \in 1..n : f[i] \in Nat
  BY <1>a, <1>b
<1>2. e.start \in Nat /\ Window \in Nat /\ MaxFailures \in Nat \ {0} /\ e.start + Window <= t
  BY SignInAssumption
<1>3. n \in 1..n /\ first \in 1..n
  BY <1>1, <1>2
<1>4. f[n] < t
  BY <1>1, <1>2, <1>3
<1>5. n - MaxFailures + 1 \in 1..n => f[n - MaxFailures + 1] + Window <= t
  <2> SUFFICES ASSUME n - MaxFailures + 1 \in 1..n PROVE f[n - MaxFailures + 1] + Window <= t
    OBVIOUS
  <2> DEFINE i == n - MaxFailures + 1
  <2>1. i \in 1..n /\ i <= first
    BY <1>1, <1>2
  <2>2. f[i] <= f[first] /\ f[i] \in Nat
    BY <1>1, <1>3, <2>1
  <2> QED BY <1>1, <1>2, <2>2
<1> QED BY <1>1, <1>4, <1>5 DEF Remembers, StartsAfter

\* A failure that is let in, in a window of its own or in one that is not full.
LEMMA FailureIsRemembered ==
  ASSUME clock \in Nat, NEW f, History(f, clock), NEW e \in {NULL} \cup [count : Nat, start : Nat],
         Remembers(e, f, clock),
         e # NULL => clock - e.start < Window /\ e.count < MaxFailures
  PROVE  /\ SignIn!AfterFailure(e) \in [count : Nat, start : Nat]
         /\ History(Append(f, clock), clock)
         /\ Remembers(SignIn!AfterFailure(e), Append(f, clock), clock)
<1> DEFINE n == Len(f)
           g == Append(f, clock)
           count == IF e = NULL THEN 1 ELSE e.count + 1
           start == IF e = NULL THEN clock ELSE e.start
<1>1. /\ n \in Nat /\ DOMAIN f = 1..n /\ \A i, j \in 1..n : i <= j => f[i] <= f[j]
      /\ \A i \in 1..n : f[i] \in Nat /\ f[i] <= clock
      /\ \A i, j \in 1..n : j = i + 2 * MaxFailures - 1 => f[i] + Window <= f[j]
  BY DEF History
<1>2. /\ g \in Seq(Nat) /\ Len(g) = n + 1 /\ DOMAIN g = 1..(n + 1) /\ g[n + 1] = clock
      /\ \A i \in 1..n : g[i] = f[i]
  BY DEF History
<1> HIDE DEF g
<1>3. Window \in Nat \ {0} /\ MaxFailures \in Nat \ {0}
  BY SignInAssumption
<1>4. SignIn!AfterFailure(e) = [count |-> count, start |-> start] /\ count \in Nat /\ start \in Nat
  <2>1. CASE e = NULL
    BY <2>1 DEF SignIn!AfterFailure
  <2>2. CASE e # NULL
    <3>1. e \in [count : Nat, start : Nat] /\ ~SignIn!Over(e)
      BY <1>3, <2>2 DEF SignIn!Over
    <3>2. SignIn!AfterFailure(e) = [e EXCEPT !.count = e.count + 1]
      BY <2>2, <3>1 DEF SignIn!AfterFailure
    <3> QED BY <2>2, <3>1, <3>2
  <2> QED BY <2>1, <2>2
<1>5. /\ count \in 1..MaxFailures /\ count <= n + 1 /\ clock < start + Window
      /\ start = g[n + 1 - count + 1]
  <2>1. CASE e = NULL
    BY <1>2, <1>3, <2>1
  <2>2. CASE e # NULL
    <3>1. e \in [count : Nat, start : Nat] /\ e.count \in 1..MaxFailures /\ e.count <= n /\ e.start = f[n - e.count + 1]
      BY <2>2 DEF Remembers
    <3>2. n - e.count + 1 \in 1..n /\ n + 1 - count + 1 = n - e.count + 1
      BY <1>1, <2>2, <3>1
    <3>3. start = g[n + 1 - count + 1]
      BY <1>2, <2>2, <3>1, <3>2
    <3>4. count \in 1..MaxFailures /\ count <= n + 1
      BY <1>1, <1>3, <2>2, <3>1
    <3>5. clock < start + Window
      BY <1>3, <2>2, <3>1
    <3> QED BY <3>3, <3>4, <3>5
  <2> QED BY <2>1, <2>2
<1>6. StartsAfter(f, n + 1 - count, start)
  <2>1. CASE e = NULL
    BY <1>1, <2>1 DEF Remembers
  <2>2. CASE e # NULL
    <3>1. n + 1 - count = n - e.count
      BY <1>1, <2>2
    <3> QED BY <2>2, <3>1 DEF Remembers
  <2> QED BY <2>1, <2>2
<1> HIDE DEF count, start, n
<1>7. StartsAfter(g, n + 1 - count, start)
  <2> DEFINE k == n + 1 - count
             j == k - MaxFailures + 1
  <2>1. k \in DOMAIN g => k \in DOMAIN f
    BY <1>1, <1>2, <1>4, <1>5
  <2>2. j \in DOMAIN g => j \in DOMAIN f
    BY <1>1, <1>2, <1>3, <1>4, <1>5
  <2>3. k \in DOMAIN f => f[k] < start
    BY <1>6 DEF StartsAfter
  <2>4. j \in DOMAIN f => f[j] + Window <= start
    BY <1>6 DEF StartsAfter
  <2>5. k \in DOMAIN g => g[k] < start
    <3> HIDE DEF k
    <3> QED BY <1>1, <1>2, <2>1, <2>3
  <2>6. j \in DOMAIN g => g[j] + Window <= start
    <3> HIDE DEF j
    <3> QED BY <1>1, <1>2, <2>2, <2>4
  <2> QED BY <2>5, <2>6 DEF StartsAfter
<1>8. History(g, clock)
  <2>1. \A i, j \in 1..(n + 1) : i <= j => g[i] <= g[j]
    <3> SUFFICES ASSUME NEW i \in 1..(n + 1), NEW j \in 1..(n + 1), i <= j PROVE g[i] <= g[j]
      OBVIOUS
    <3>1. CASE j = n + 1 /\ i = n + 1
      BY <1>2, <3>1
    <3>2. CASE j = n + 1 /\ i # n + 1
      <4>1. i \in 1..n
        BY <1>1, <3>2
      <4> QED BY <1>1, <1>2, <3>2, <4>1
    <3>3. CASE j # n + 1
      <4>1. i \in 1..n /\ j \in 1..n
        BY <1>1, <3>3
      <4> QED BY <1>1, <1>2, <4>1
    <3> QED BY <3>1, <3>2, <3>3
  <2>2. \A i \in 1..(n + 1) : g[i] <= clock
    <3> SUFFICES ASSUME NEW i \in 1..(n + 1) PROVE g[i] <= clock
      OBVIOUS
    <3>1. i = n + 1 \/ i \in 1..n
      BY <1>1
    <3> QED BY <1>1, <1>2, <3>1
  <2>3. ASSUME NEW i \in 1..(n + 1), NEW j \in 1..(n + 1), j = i + 2 * MaxFailures - 1
        PROVE  g[i] + Window <= g[j]
    <3>1. CASE j # n + 1
      <4>1. i \in 1..n /\ j \in 1..n
        BY <1>1, <1>3, <2>3, <3>1
      <4> QED BY <1>1, <1>2, <2>3, <4>1
    <3>2. CASE j = n + 1
      <4> DEFINE c == n + 1 - count
                 k == c - MaxFailures + 1
      <4>1. i \in 1..n /\ i <= k /\ k \in 1..n
        BY <1>1, <1>3, <1>4, <1>5, <2>3, <3>2
      <4>2. f[k] + Window <= start
        <5>1. StartsAfter(f, c, start)
          BY <1>6
        <5> HIDE DEF c
        <5>2. k \in DOMAIN f => f[k] + Window <= start
          BY <5>1 DEF StartsAfter
        <5> HIDE DEF k
        <5> QED BY <1>1, <4>1, <5>2
      <4>3. start <= clock
        <5>1. n + 1 - count + 1 \in 1..(n + 1)
          BY <1>1, <1>4, <1>5
        <5> QED BY <1>5, <2>2, <5>1
      <4>4. f[i] <= f[k] /\ f[i] \in Nat /\ f[k] \in Nat /\ g[i] = f[i] /\ g[j] = clock
        BY <1>1, <1>2, <3>2, <4>1
      <4> QED BY <1>3, <1>4, <4>2, <4>3, <4>4
    <3> QED BY <3>1, <3>2
  <2> QED BY <1>2, <2>1, <2>2, <2>3 DEF History
<1>9. Remembers(SignIn!AfterFailure(e), g, clock)
  <2> DEFINE after == SignIn!AfterFailure(e)
  <2>1. after \in [count : Nat, start : Nat] /\ after.count = count /\ after.start = start
    BY <1>4
  <2>2. after # NULL
    BY <2>1, SignInAssumption
  <2> HIDE DEF after
  <2>3. StartsAfter(g, Len(g) - after.count, after.start) /\ after.start = g[Len(g) - after.count + 1]
    <3> DEFINE d == Len(g) - after.count
               c == n + 1 - count
    <3>1. d = c /\ d \in Int
      BY <1>1, <1>2, <1>4, <2>1 DEF n
    <3>2. StartsAfter(g, c, start) /\ start = g[c + 1]
      BY <1>5, <1>7
    <3> HIDE DEF d, c
    <3>3. StartsAfter(g, d, after.start) /\ after.start = g[d + 1]
      BY <2>1, <3>1, <3>2
    <3> QED BY <3>3 DEF d
  <2>4. after.count \in 1..MaxFailures /\ after.count <= Len(g) /\ g[Len(g)] < after.start + Window
    BY <1>2, <1>5, <2>1
  <2>5. Remembers(after, g, clock)
    BY <2>2, <2>3, <2>4 DEF Remembers
  <2> QED BY <2>5 DEF after
<1> QED BY <1>4, <1>8, <1>9 DEF g

\* LoginThrottle.check drops only entries whose window is over, and what it
\* leaves of the address it is asked for is in its window.
LEMMA CheckedRemembers ==
  ASSUME ThrottleInv, NEW a \in Addresses
  PROVE  /\ SignIn!Checked(a) \in [Addresses -> {NULL} \cup [count : Nat, start : Nat]]
         /\ \A b \in Addresses : Remembers(SignIn!Checked(a)[b], failures[b], clock)
         /\ SignIn!Checked(a)[a] # NULL => SignIn!Checked(a)[a] = entries[a] /\ clock - entries[a].start < Window
<1>1. ASSUME NEW b \in Addresses
      PROVE  /\ \/ SignIn!Checked(a)[b] = entries[b] 
                \/ entries[b] # NULL /\ SignIn!Over(entries[b]) /\ SignIn!Checked(a)[b] = NULL
             /\ b = a /\ SignIn!Checked(a)[b] # NULL => ~SignIn!Over(entries[b])
  BY DEF SignIn!Checked
<1>2. ASSUME NEW b \in Addresses PROVE Remembers(SignIn!Checked(a)[b], failures[b], clock)
  <2>1. Remembers(entries[b], failures[b], clock) /\ History(failures[b], clock) /\ clock \in Nat
        /\ entries[b] \in {NULL} \cup [count : Nat, start : Nat]
    BY DEF ThrottleInv
  <2>2. CASE entries[b] # NULL /\ SignIn!Over(entries[b]) /\ SignIn!Checked(a)[b] = NULL
    <3>1. entries[b] \in [count : Nat, start : Nat] /\ clock - entries[b].start >= Window
      BY <2>1, <2>2 DEF SignIn!Over
    <3>2. Remembers(NULL, failures[b], clock)
      BY <2>1, <2>2, <3>1, OverIsForgotten
    <3> QED BY <2>2, <3>2
  <2>3. CASE SignIn!Checked(a)[b] = entries[b]
    BY <2>1, <2>3
  <2> QED BY <1>1, <2>2, <2>3
<1>3. SignIn!Checked(a) \in [Addresses -> {NULL} \cup [count : Nat, start : Nat]]
  BY DEF SignIn!Checked, ThrottleInv
<1>4. SignIn!Checked(a)[a] # NULL => SignIn!Checked(a)[a] = entries[a] /\ clock - entries[a].start < Window
  <2>1. ASSUME SignIn!Checked(a)[a] # NULL
        PROVE  SignIn!Checked(a)[a] = entries[a] /\ ~SignIn!Over(entries[a])
    BY <1>1, <2>1
  <2>2. clock \in Nat /\ Window \in Nat /\ entries[a] \in {NULL} \cup [count : Nat, start : Nat]
    BY SignInAssumption DEF ThrottleInv
  <2> QED BY <2>1, <2>2 DEF SignIn!Over
<1> QED BY <1>2, <1>3, <1>4

\* An address that never failed, or of which nothing is kept any more.
LEMMA NothingToRemember ==
  ASSUME NEW t \in Nat
  PROVE  History(<< >>, t) /\ Remembers(NULL, << >>, t)
BY SignInAssumption DEF History, Remembers, StartsAfter

\* Nobody failed at the start.
LEMMA InitThrottle == SignIn!Init => ThrottleInv
<1> SUFFICES ASSUME SignIn!Init PROVE ThrottleInv
  OBVIOUS
<1>1. clock = 0 /\ entries = [a \in Addresses |-> NULL] /\ failures = [a \in Addresses |-> << >>]
  BY DEF SignIn!Init
<1>2. failures \in [Addresses -> Seq(Nat)]
  BY <1>1
<1> QED BY <1>1, <1>2, NothingToRemember DEF ThrottleInv

\* A tick later the same is remembered.
LEMMA TickKeepsThrottle == ThrottleInv /\ SignIn!Tick => ThrottleInv'
<1> SUFFICES ASSUME ThrottleInv, SignIn!Tick PROVE ThrottleInv'
  OBVIOUS
<1>1. clock \in Nat /\ clock' = clock + 1 /\ UNCHANGED <<entries, failures>>
  BY DEF ThrottleInv, SignIn!Tick
<1>2. ASSUME NEW a \in Addresses
      PROVE  History(failures[a], clock + 1) /\ Remembers(entries[a], failures[a], clock + 1)
  <2>1. History(failures[a], clock) /\ Remembers(entries[a], failures[a], clock)
    BY DEF ThrottleInv
  <2>2. Window \in Nat /\ MaxFailures \in Nat
    BY SignInAssumption
  <2>3. \A i \in DOMAIN failures[a] : failures[a][i] \in Nat
    BY <2>1 DEF History
  <2>4. ASSUME NEW k, StartsAfter(failures[a], k, clock) PROVE StartsAfter(failures[a], k, clock + 1)
    BY <1>1, <2>2, <2>3, <2>4 DEF StartsAfter
  <2>5. History(failures[a], clock + 1)
    BY <1>1, <2>1, <2>3 DEF History
  <2>6. Remembers(entries[a], failures[a], clock + 1)
    BY <2>1, <2>4 DEF Remembers
  <2> QED BY <2>5, <2>6
<1> QED BY <1>1, <1>2 DEF ThrottleInv

\* No call of the throttle or of the store, and no restart, loses what it needs.
LEMMA StepKeepsThrottle == ThrottleInv /\ SignIn!Next => ThrottleInv'
<1> SUFFICES ASSUME ThrottleInv, SignIn!Next PROVE ThrottleInv'
  OBVIOUS
<1>0. /\ clock \in Nat /\ entries \in [Addresses -> {NULL} \cup [count : Nat, start : Nat]]
      /\ failures \in [Addresses -> Seq(Nat)]
      /\ \A a \in Addresses : History(failures[a], clock) /\ Remembers(entries[a], failures[a], clock)
  BY DEF ThrottleInv
<1>1. CASE SignIn!Refused
  <2>1. PICK a \in Addresses : entries' = SignIn!Checked(a) /\ UNCHANGED <<clock, failures>>
    BY <1>1 DEF SignIn!Refused
  <2> QED BY <1>0, <2>1, CheckedRemembers DEF ThrottleInv
<1>2. CASE SignIn!Failed
  <2>1. PICK a \in Addresses : /\ ~SignIn!Throttled(a)
                               /\ entries' = [SignIn!Checked(a) EXCEPT ![a] = SignIn!AfterFailure(@)]
                               /\ failures' = [failures EXCEPT ![a] = Append(@, clock)]
                               /\ clock' = clock
    BY <1>2 DEF SignIn!Failed
  <2> DEFINE kept == SignIn!Checked(a)
  <2>2. /\ kept \in [Addresses -> {NULL} \cup [count : Nat, start : Nat]]
        /\ \A b \in Addresses : Remembers(kept[b], failures[b], clock)
        /\ kept[a] # NULL => kept[a] = entries[a] /\ clock - entries[a].start < Window
    BY CheckedRemembers
  <2>3. kept[a] # NULL => clock - kept[a].start < Window /\ kept[a].count < MaxFailures
    <3>1. kept[a] # NULL => ~(kept[a].count >= MaxFailures)
      BY <2>1 DEF SignIn!Throttled
    <3>2. MaxFailures \in Nat /\ kept[a] \in {NULL} \cup [count : Nat, start : Nat]
      BY <2>2, SignInAssumption
    <3>3. kept[a] # NULL => clock - kept[a].start < Window
      BY <2>2
    <3>4. kept[a] # NULL => kept[a].count < MaxFailures
      BY <3>1, <3>2
    <3> QED BY <3>3, <3>4
  <2> DEFINE after == SignIn!AfterFailure(kept[a])
  <2>4. entries' = [kept EXCEPT ![a] = after]
    BY <2>1
  <2> HIDE DEF kept
  <2>5. /\ after \in [count : Nat, start : Nat]
        /\ History(Append(failures[a], clock), clock)
        /\ Remembers(after, Append(failures[a], clock), clock)
    <3>1. History(failures[a], clock) /\ Remembers(kept[a], failures[a], clock)
          /\ kept[a] \in {NULL} \cup [count : Nat, start : Nat]
      BY <1>0, <2>2
    <3> QED BY <1>0, <2>3, <3>1, FailureIsRemembered
  <2> HIDE DEF after
  <2>6. Append(failures[a], clock) \in Seq(Nat)
    BY <1>0
  <2>7. failures' \in [Addresses -> Seq(Nat)] /\ entries' \in [Addresses -> {NULL} \cup [count : Nat, start : Nat]]
    BY <1>0, <2>1, <2>2, <2>4, <2>5, <2>6
  <2>8. ASSUME NEW b \in Addresses PROVE History(failures'[b], clock) /\ Remembers(entries'[b], failures'[b], clock)
    <3>1. CASE b = a
      <4>1. failures'[b] = Append(failures[a], clock) /\ entries'[b] = after
        BY <1>0, <2>1, <2>2, <2>4, <3>1
      <4> QED BY <2>5, <4>1
    <3>2. CASE b # a
      <4>1. failures'[b] = failures[b] /\ entries'[b] = kept[b]
        BY <1>0, <2>1, <2>2, <2>4, <3>2
      <4> QED BY <1>0, <2>2, <4>1
    <3> QED BY <3>1, <3>2
  <2> QED BY <1>0, <2>1, <2>7, <2>8 DEF ThrottleInv
<1>3. CASE SignIn!Succeeded
  <2>1. PICK a \in Addresses : /\ entries' = [SignIn!Checked(a) EXCEPT ![a] = NULL]
                               /\ failures' = [failures EXCEPT ![a] = << >>]
                               /\ clock' = clock
    BY <1>3 DEF SignIn!Succeeded
  <2> DEFINE kept == SignIn!Checked(a)
  <2>2. /\ kept \in [Addresses -> {NULL} \cup [count : Nat, start : Nat]]
        /\ \A b \in Addresses : Remembers(kept[b], failures[b], clock)
    BY CheckedRemembers
  <2>3. entries' = [kept EXCEPT ![a] = NULL]
    BY <2>1
  <2> HIDE DEF kept
  <2>a. failures' \in [Addresses -> Seq(Nat)]
    <3>1. <<>> \in Seq(Nat)
      OBVIOUS
    <3> QED BY <1>0, <2>1, <3>1
  <2>b. entries' \in [Addresses -> {NULL} \cup [count : Nat, start : Nat]]
    BY <2>2, <2>3
  <2>4. failures' \in [Addresses -> Seq(Nat)] /\ entries' \in [Addresses -> {NULL} \cup [count : Nat, start : Nat]]
    BY <2>a, <2>b
  <2>5. ASSUME NEW b \in Addresses PROVE History(failures'[b], clock) /\ Remembers(entries'[b], failures'[b], clock)
    <3>1. CASE b = a
      <4>1. failures'[b] = << >> /\ entries'[b] = NULL
        BY <1>0, <2>1, <2>2, <2>3, <3>1
      <4> QED BY <1>0, <4>1, NothingToRemember
    <3>2. CASE b # a
      <4>1. failures'[b] = failures[b] /\ entries'[b] = kept[b]
        BY <1>0, <2>1, <2>2, <2>3, <3>2
      <4> QED BY <1>0, <2>2, <4>1
    <3> QED BY <3>1, <3>2
  <2> QED BY <1>0, <2>1, <2>4, <2>5 DEF ThrottleInv
<1>4. CASE SignIn!Restart
  <2>1. entries' = [a \in Addresses |-> NULL] /\ failures' = [a \in Addresses |-> << >>] /\ clock' = clock
    BY <1>4 DEF SignIn!Restart
  <2>2. failures' \in [Addresses -> Seq(Nat)]
    BY <2>1
  <2> QED BY <1>0, <2>1, <2>2, NothingToRemember DEF ThrottleInv
<1>5. CASE SignIn!Tick
  BY <1>5, TickKeepsThrottle
<1>6. CASE SignIn!Set \/ SignIn!Get \/ SignIn!Destroy \/ SignIn!Damage \/ SignIn!Sweep
  <2>1. UNCHANGED <<clock, entries, failures>>
    BY <1>6 DEF SignIn!Set, SignIn!Get, SignIn!Destroy, SignIn!Damage, SignIn!Sweep
  <2> QED BY <2>1 DEF ThrottleInv
<1> QED BY <1>1, <1>2, <1>3, <1>4, <1>5, <1>6 DEF SignIn!Next

\* A step of another machine leaves the throttle alone.
LEMMA StutterKeepsThrottle == ThrottleInv /\ UNCHANGED signInVars => ThrottleInv'
BY DEF ThrottleInv, signInVars

\* The positions of an interval are as many as it is long.
LEMMA CardinalityOfInterval ==
  ASSUME NEW i \in Nat, NEW k \in Nat
  PROVE  IsFiniteSet(i..(i + k - 1)) /\ Cardinality(i..(i + k - 1)) = k
<1>1. CASE k = 0
  <2>1. i..(i + k - 1) = {}
    BY <1>1
  <2> QED BY <1>1, <2>1, FS_EmptySet
<1>2. CASE k # 0
  <2>1. i <= i + k - 1 /\ i \in Int /\ i + k - 1 \in Int /\ (i + k - 1) - i + 1 = k
    BY <1>2
  <2> QED BY <2>1, FS_Interval
<1> QED BY <1>1, <1>2

\* In no window of a history stand 2 * MaxFailures failures.
LEMMA FewInAWindow ==
  ASSUME NEW f, NEW t, History(f, t), NEW from \in Nat
  PROVE  Cardinality({i \in DOMAIN f : f[i] \in from..(from + Window - 1)}) < 2 * MaxFailures
<1> DEFINE S == {i \in DOMAIN f : f[i] \in from..(from + Window - 1)}
<1>1. /\ Len(f) \in Nat /\ DOMAIN f = 1..Len(f) /\ \A i \in DOMAIN f : f[i] \in Nat
      /\ \A i, j \in DOMAIN f : i <= j => f[i] <= f[j]
      /\ \A i, j \in DOMAIN f : j = i + 2 * MaxFailures - 1 => f[i] + Window <= f[j]
  BY DEF History
<1>2. Window \in Nat /\ MaxFailures \in Nat \ {0}
  BY SignInAssumption
<1>3. CASE S = {}
  BY <1>2, <1>3, FS_EmptySet
<1>4. CASE S # {}
  <2>1. S \subseteq Nat
    BY <1>1
  <2>2. PICK x \in S : \A y \in S : x <= y
    BY <1>4, <2>1, FirstOfSome
  <2> DEFINE k == 2 * MaxFailures - 1
             late == x + k
  <2>3. x \in DOMAIN f /\ x \in Nat /\ f[x] >= from /\ f[x] \in Nat /\ k \in Nat
    BY <1>1, <1>2, <2>2
  <2>4. ASSUME NEW y \in S PROVE y \in x..(x + k - 1)
    <3>1. y \in DOMAIN f /\ y \in Nat /\ x <= y /\ f[y] \in Nat /\ f[y] <= from + Window - 1
      BY <1>1, <1>2, <2>1, <2>2, <2>4
    <3>2. ASSUME late <= y PROVE FALSE
      <4>1. late \in DOMAIN f
        BY <1>1, <2>3, <3>1, <3>2
      <4>2. f[late] <= f[y] /\ f[late] \in Nat
        BY <1>1, <3>1, <3>2, <4>1
      <4>3. late = x + 2 * MaxFailures - 1
        BY <1>2, <2>3
      <4> HIDE DEF late
      <4>4. f[x] + Window <= f[late]
        BY <1>1, <2>3, <4>1, <4>3
      <4> QED BY <1>2, <2>3, <3>1, <4>2, <4>4
    <3> QED BY <2>3, <3>1, <3>2
  <2>5. S \subseteq x..(x + k - 1)
    BY <2>4
  <2> HIDE DEF S, k
  <2>6. Cardinality(S) <= k
    <3> DEFINE T == x..(x + k - 1)
    <3>1. Cardinality(T) = k /\ IsFiniteSet(T)
      BY <2>3, CardinalityOfInterval
    <3> HIDE DEF T
    <3>2. Cardinality(S) <= Cardinality(T)
      BY <2>5, <3>1, FS_Subset DEF T
    <3> QED BY <3>1, <3>2
  <2>7. IsFiniteSet(S)
    BY <2>3, <2>5, CardinalityOfInterval, FS_Subset
  <2>8. Cardinality(S) \in Nat
    BY <2>7, FS_CardinalityType
  <2> QED BY <1>2, <2>6, <2>8 DEF k, S
<1> QED BY <1>3, <1>4

\* The failures an entry counts are the last of the history, and no other
\* falls in its window.
LEMMA CountedInItsWindow ==
  ASSUME NEW f, NEW t, History(f, t), NEW e \in [count : Nat, start : Nat], e # NULL, Remembers(e, f, t)
  PROVE  /\ Cardinality({i \in DOMAIN f : f[i] \in e.start..(e.start + Window - 1)}) = e.count
         /\ e.count <= MaxFailures /\ e.start <= t
<1> DEFINE n == Len(f)
           first == n - e.count + 1
           S == {i \in DOMAIN f : f[i] \in e.start..(e.start + Window - 1)}
<1>1. /\ n \in Nat /\ DOMAIN f = 1..n /\ \A i \in 1..n : f[i] \in Nat /\ f[i] <= t
      /\ \A i, j \in 1..n : i <= j => f[i] <= f[j]
  BY DEF History
<1>2. /\ e.count \in 1..MaxFailures /\ e.count <= n /\ e.start = f[first] /\ f[n] < e.start + Window
      /\ StartsAfter(f, n - e.count, e.start)
  BY DEF Remembers
<1>3. Window \in Nat /\ MaxFailures \in Nat \ {0} /\ e.count \in Nat /\ e.start \in Nat
  BY SignInAssumption
<1> DEFINE k == n - e.count
<1>4. first \in 1..n /\ n \in 1..n /\ first \in Nat /\ k \in Int /\ first = k + 1
  BY <1>1, <1>2, <1>3
<1>5. k \in DOMAIN f => f[k] < e.start
  BY <1>2 DEF StartsAfter
<1> DEFINE from == e.start
           c == e.count
<1>6. ASSUME NEW i \in 1..n PROVE i \in S <=> i >= first
  <2> HIDE DEF first, k
  <2>1. f[i] \in Nat /\ f[n] \in Nat /\ f[i] <= f[n]
    BY <1>1, <1>4, <1>6
  <2>2. ASSUME i >= first PROVE i \in S
    <3>1. f[first] <= f[i]
      BY <1>1, <1>4, <1>6, <2>2
    <3>2. f[i] \in e.start..(e.start + Window - 1)
      BY <1>2, <1>3, <2>1, <3>1
    <3> QED BY <1>1, <3>2
  <2>3. ASSUME ~(i >= first) PROVE i \notin S
    <3>1. k \in 1..n /\ i <= k
      BY <1>1, <1>4, <2>3
    <3>2. f[i] <= f[k] /\ f[k] < e.start /\ f[k] \in Nat
      BY <1>1, <1>5, <3>1
    <3>3. f[i] < e.start
      BY <1>3, <2>1, <3>2
    <3> QED BY <1>3, <2>1, <3>3
  <2> QED BY <2>2, <2>3
<1>7. S = first..(first + c - 1)
  <2>1. first + c - 1 = n
    BY <1>1, <1>3
  <2>2. S \subseteq 1..n
    BY <1>1
  <2> HIDE DEF S, first, c
  <2>3. first..n \subseteq 1..n
    BY <1>1, <1>4
  <2>4. \A i \in 1..n : i \in first..n <=> i >= first
    BY <1>1, <1>4
  <2>5. S = first..n
    BY <1>6, <2>2, <2>3, <2>4
  <2> QED BY <2>1, <2>5
<1> HIDE DEF first
<1>8. Cardinality(first..(first + c - 1)) = c
  BY <1>3, <1>4, CardinalityOfInterval
<1>9. e.start <= t
  BY <1>1, <1>2, <1>4
<1>10. e.count <= MaxFailures
  BY <1>2, <1>3
<1> HIDE DEF S
<1>11. Cardinality(S) = c
  BY <1>7, <1>8
<1> QED BY <1>9, <1>10, <1>11 DEF S

\* What is remembered of the failures bounds and justifies every refusal.
LEMMA InvThrottle == ThrottleInv => SignIn!ThrottleIsFair
<1> SUFFICES ASSUME ThrottleInv, NEW a \in Addresses
             PROVE  /\ \A from \in 0..LastLogin :
                         Cardinality({i \in DOMAIN failures[a] : failures[a][i] \in from..(from + Window - 1)}) < 2 * MaxFailures
                    /\ SignIn!Throttled(a) =>
                         /\ Cardinality({i \in DOMAIN failures[a] :
                                           failures[a][i] \in entries[a].start..(entries[a].start + Window - 1)}) = MaxFailures
                         /\ SignIn!Wait(a) \in 1..Window
  <2>1. \A S : SignIn!Cardinality(S) = Cardinality(S)
    BY DEF SignIn!Cardinality, Cardinality
  <2> QED BY <2>1 DEF SignIn!ThrottleIsFair
<1>1. /\ clock \in Nat /\ History(failures[a], clock) /\ Remembers(entries[a], failures[a], clock)
      /\ entries[a] \in {NULL} \cup [count : Nat, start : Nat]
  BY DEF ThrottleInv
<1>2. \A from \in 0..LastLogin :
        Cardinality({i \in DOMAIN failures[a] : failures[a][i] \in from..(from + Window - 1)}) < 2 * MaxFailures
  <2>1. 0..LastLogin \subseteq Nat
    BY SignInAssumption
  <2> QED BY <1>1, <2>1, FewInAWindow
<1>3. ASSUME SignIn!Throttled(a)
      PROVE  /\ Cardinality({i \in DOMAIN failures[a] :
                               failures[a][i] \in entries[a].start..(entries[a].start + Window - 1)}) = MaxFailures
             /\ SignIn!Wait(a) \in 1..Window
  <2>1. SignIn!Checked(a)[a] # NULL /\ SignIn!Checked(a)[a].count >= MaxFailures
    BY <1>3 DEF SignIn!Throttled
  <2>2. SignIn!Checked(a)[a] = entries[a] /\ clock - entries[a].start < Window
    BY <2>1, CheckedRemembers
  <2>3. entries[a] # NULL /\ entries[a].count >= MaxFailures /\ entries[a] \in [count : Nat, start : Nat]
    BY <1>1, <2>1, <2>2
  <2> DEFINE S == {i \in DOMAIN failures[a] : failures[a][i] \in entries[a].start..(entries[a].start + Window - 1)}
  <2>4. Cardinality(S) = entries[a].count /\ entries[a].count <= MaxFailures /\ entries[a].start <= clock
    BY <1>1, <2>3, CountedInItsWindow
  <2> HIDE DEF S
  <2>5. MaxFailures \in Nat /\ Window \in Nat /\ entries[a].start \in Nat /\ entries[a].count \in Nat
    BY <2>3, SignInAssumption
  <2>6. Cardinality(S) = MaxFailures
    BY <2>3, <2>4, <2>5
  <2>7. Window - (clock - entries[a].start) \in 1..Window
    BY <1>1, <2>2, <2>4, <2>5
  <2> QED BY <2>6, <2>7 DEF S, SignIn!Wait
<1> QED BY <1>2, <1>3

-----------------------------------------------------------------------------
(* Store and throttle together.                                             *)

SignInInv == StoreInv /\ ThrottleInv

\* SqliteSessionStore, LoginThrottle: for any sessions, addresses and limits,
\* the store answers as if it kept just what it was told until it expires;
\* no window holds 2 * MaxFailures failures of one address, and whoever is
\* turned away failed MaxFailures times in the window it has to wait out.
THEOREM SignInStaysFair == Spec => []SignInIsFair
<1>1. Init => SignInInv
  BY InitStore, InitThrottle DEF Init, SignInInv
<1>2. SignInInv /\ [Next]_vars => SignInInv'
  <2>1. CASE SignInNext
    BY <2>1, StepKeepsStore, StepKeepsThrottle DEF SignInNext, SignInInv
  <2>2. CASE Next /\ ~SignInNext
    <3>1. UNCHANGED signInVars
      BY <2>2 DEF Next, ClockNext, SchemaNext, GroundNext, PlanNext, ReplayNext, FeaturesNext
    <3> QED BY <3>1, StutterKeepsStore, StutterKeepsThrottle DEF SignInInv
  <2>3. CASE UNCHANGED vars
    BY <2>3, StutterKeepsStore, StutterKeepsThrottle DEF vars, SignInInv
  <2> QED BY <2>1, <2>2, <2>3
<1>3. SignInInv => SignInIsFair
  BY InvStore, InvThrottle DEF SignInInv, SignInIsFair
<1> QED BY <1>1, <1>2, <1>3, PTL DEF Spec

-----------------------------------------------------------------------------
(* The upgrade of the database: its script, whose parts 30..34 rebuild      *)
(* planned_legs and whose statement 20 makes the index of trip_id.          *)

\* applySchema runs 37 statements; it reads the columns of flights with the
\* seventeenth.
LEMMA ScriptLength ==
  /\ Len(Schema!Script) = 37 /\ DOMAIN Schema!Script = 1..37
  /\ Schema!ReadColumns = 17 /\ Len(Schema!Rebuild) = 5
BY DEF Schema!Script, Schema!ReadColumns, Schema!BaseTables, Schema!DependentTables, Schema!LateColumns,
       Schema!Rebuild, Schema!LastStatements

\* Where the parts of the rebuild stand.
LEMMA ScriptParts ==
  /\ Schema!Script[30].unless = "begin" /\ Schema!Script[31].unless = "copy"
  /\ Schema!Script[32].unless = "drop" /\ Schema!Script[33].unless = "rename"
  /\ Schema!Script[34].unless = "commit"
  /\ \A i \in 1..37 : i \notin 30..34 => Schema!Script[i].unless \notin Schema!Parts
BY DEF Schema!Script, Schema!BaseTables, Schema!DependentTables, Schema!LateColumns, Schema!Rebuild,
       Schema!LastStatements, Schema!Added, Schema!Object, Schema!Part, Schema!Parts

\* Every statement but the index of trip_id makes the object it looks for; that
\* one looks for the column the statement before it made.
LEMMA ScriptAdds ==
  /\ \A i \in 1..37 : i \notin 30..34 /\ i # 20 => Schema!Script[i].unless \in Schema!Script[i].adds
  /\ Schema!Script[20].unless = Schema!Script[19].unless
  /\ \A i \in 1..17 : Schema!Script[i].once = FALSE
BY DEF Schema!Script, Schema!BaseTables, Schema!DependentTables, Schema!LateColumns, Schema!Rebuild,
       Schema!LastStatements, Schema!Added, Schema!Object

\* Every object of the schema but that index is looked for by a statement.
LEMMA EverythingIsLookedFor ==
  ASSUME NEW o \in Schema!Everything, o # "idx_flights_trip"
  PROVE  \E i \in 1..37 : i \notin 30..34 /\ Schema!Script[i].unless = o
<1>1. PICK j \in 1..37 : o \in Schema!Script[j].adds
  BY ScriptLength DEF Schema!Everything
<1>2. CASE j \in 2..17
  <2>1. Schema!Script[j].adds = {Schema!Script[j].unless}
    BY <1>2 DEF Schema!Script, Schema!BaseTables, Schema!DependentTables, Schema!LateColumns, Schema!Rebuild,
                Schema!LastStatements, Schema!Added, Schema!Object, Schema!Part
  <2> QED BY <1>1, <1>2, <2>1
<1>3. CASE j \in 18..37
  <2>1. j \notin 30..34 /\ Schema!Script[j].adds = {Schema!Script[j].unless}
    BY <1>1, <1>3 DEF Schema!Script, Schema!BaseTables, Schema!DependentTables, Schema!LateColumns,
                      Schema!Rebuild, Schema!LastStatements, Schema!Added, Schema!Object, Schema!Part
  <2> QED BY <1>1, <1>3, <2>1
<1>4. CASE j = 1
  <2>1. o \in {Schema!Script[1].unless, Schema!Script[18].unless, Schema!Script[21].unless,
               Schema!Script[22].unless, Schema!Script[23].unless, Schema!Script[24].unless}
    BY <1>1, <1>4 DEF Schema!Script, Schema!BaseTables, Schema!DependentTables, Schema!LateColumns,
                      Schema!Rebuild, Schema!LastStatements, Schema!Added, Schema!Object, Schema!Part
  <2> QED BY <2>1
<1> QED BY <1>1, <1>2, <1>3, <1>4

\* What a statement makes is of the schema, and so is what an old file has.
LEMMA ScriptMakesTheSchema ==
  /\ \A i \in 1..37 : Schema!Script[i].adds \subseteq Schema!Everything
  /\ "idx_planned_legs" \in Schema!Everything
  /\ {"flights", "flights.notes", "flight_points", "idx_points_flight"} \subseteq Schema!Everything
<1>1. \A i \in 1..37 : Schema!Script[i].adds \subseteq Schema!Everything
  BY ScriptLength DEF Schema!Everything
<1>2. /\ "idx_planned_legs" \in Schema!Script[8].adds
      /\ "flights" \in Schema!Script[1].adds /\ "flights.notes" \in Schema!Script[1].adds
      /\ "flight_points" \in Schema!Script[2].adds /\ "idx_points_flight" \in Schema!Script[3].adds
  BY DEF Schema!Script, Schema!BaseTables, Schema!DependentTables, Schema!LateColumns,
         Schema!Rebuild, Schema!LastStatements, Schema!Added, Schema!Object, Schema!Part
<1> HIDE DEF Schema!Script
<1> QED BY <1>1, <1>2

\* A statement of the rebuild that runs stands where that part stands.
LEMMA WhereAPartStands ==
  ASSUME NEW i \in 1..37
  PROVE  /\ Schema!Script[i].unless = "begin" => i = 30
         /\ Schema!Script[i].unless = "copy" => i = 31
         /\ Schema!Script[i].unless = "drop" => i = 32
         /\ Schema!Script[i].unless = "rename" => i = 33
         /\ Schema!Script[i].unless = "commit" => i = 34
         /\ Schema!Script[i].unless \notin Schema!Parts => i \notin 30..34
<1>1. CASE i \notin 30..34
  BY <1>1, ScriptParts DEF Schema!Parts
<1>2. CASE i \in 30..34
  BY <1>2, ScriptParts DEF Schema!Parts
<1> QED BY <1>1, <1>2

-----------------------------------------------------------------------------
(* The upgrade's invariant, by the statement that is next.                  *)

SchemaFile == [have : SUBSET Schema!Everything, strict : BOOLEAN, legs : SUBSET Nat, children : SUBSET Nat,
               links : SUBSET Nat, counter : Nat]

\* The file: ids are below its counter, and what the statements before made
\* stands.
FileStands ==
  /\ file \in SchemaFile
  /\ file.legs \subseteq 1..file.counter /\ issued \subseteq 1..file.counter
  /\ \A i \in 1..37 : (at = NULL \/ i < at) /\ i \notin 30..34 => Schema!Script[i].unless \in file.have
  /\ at = NULL \/ at \in 35..37 => ~file.strict

\* The columns were read, and none was dropped since.
ColumnsStand == at \in 18..37 => columns \subseteq file.have

\* Foreign keys are enforced and no transaction is open but in the rebuild.
HandleStands ==
  /\ at = NULL \/ at \in 1..30 \/ at \in 35..37 => enforced = TRUE
  /\ at = NULL \/ at \in 0..30 \/ at \in 35..37 => work = NULL
  /\ at \in 31..34 => enforced = FALSE

\* The rebuild has the rows of the file, and at its end everything else too.
WorkStands ==
  at \in 31..34 =>
    /\ work \in SchemaFile
    /\ work.legs = file.legs /\ work.children = file.children /\ work.links = file.links
    /\ file.have \subseteq work.have \cup {"idx_planned_legs"}
    /\ at = 34 => file.have \subseteq work.have /\ ~work.strict /\ file.counter <= work.counter

SchemaInv ==
  /\ at \in {NULL} \cup 0..37
  /\ FileStands /\ ColumnsStand /\ HandleStands /\ WorkStands

\* No step but an import changes a row, and an import hands out a new id.
RowsKept ==
  /\ at # NULL => file'.legs = file.legs /\ file'.children = file.children /\ file'.links = file.links
  /\ (file'.legs \ file.legs) \cap issued = {}

\* The highest of some ids below a bound is one of them.
LEMMA HighestIsCounted ==
  ASSUME NEW n \in Nat, NEW ids, ids \subseteq 1..n
  PROVE  Schema!Highest(ids) \in 0..n /\ \A i \in ids : i <= Schema!Highest(ids)
<1>1. CASE ids = {}
  BY <1>1 DEF Schema!Highest
<1>2. CASE ids # {}
  <2> DEFINE S == {n - i : i \in ids}
  <2>1. S \subseteq Nat /\ S # {}
    <3>1. \A i \in ids : n - i \in Nat
      OBVIOUS
    <3>2. PICK i \in ids : TRUE
      BY <1>2
    <3>3. n - i \in S
      BY <3>2
    <3> QED BY <3>1, <3>3
  <2>2. PICK x \in S : \A y \in S : x <= y
    BY <2>1, FirstOfSome
  <2>3. PICK m \in ids : x = n - m
    BY <2>2
  <2>4. \A j \in ids : j <= m
    <3> SUFFICES ASSUME NEW j \in ids PROVE j <= m
      OBVIOUS
    <3>1. n - j \in S
      OBVIOUS
    <3>2. n - m <= n - j /\ j \in Nat /\ m \in Nat
      BY <2>2, <2>3, <3>1
    <3> QED BY <3>2
  <2>5. Schema!Highest(ids) \in ids /\ \A j \in ids : j <= Schema!Highest(ids)
    BY <1>2, <2>4 DEF Schema!Highest
  <2> HIDE DEF S
  <2>6. \A i \in ids : i \in 0..n
    OBVIOUS
  <2> QED BY <2>5, <2>6
<1> QED BY <1>1, <1>2

\* A file an older version left has some of the schema, and ids below its
\* counter.
LEMMA OldFilesStand ==
  ASSUME NEW f \in Schema!OldFiles
  PROVE  f \in SchemaFile /\ f.legs \subseteq 1..f.counter
<1> DEFINE Made(have, strict, r) == [have |-> have, strict |-> strict, legs |-> r.legs, children |-> r.children,
                                     links |-> r.links, counter |-> r.counter]
           Rows == [legs : SUBSET Nat, children : SUBSET Nat, links : SUBSET Nat, counter : Nat]
<1>1. ASSUME NEW have \in SUBSET Schema!Everything, NEW strict \in BOOLEAN, NEW r \in Rows,
             r.legs \subseteq 1..r.counter, f = Made(have, strict, r)
      PROVE  f \in SchemaFile /\ f.legs \subseteq 1..f.counter
  BY <1>1 DEF SchemaFile
<1> DEFINE first == {"flights", "flights.notes", "flight_points", "idx_points_flight"}
           Upto(n) == Schema!Everything \ ({Schema!Late[i] : i \in (n + 1)..Len(Schema!Late)}
                                              \cup {"idx_flights_planned_leg", "navdata_requests"})
           good == {r \in [legs : SUBSET (1..MaxLeg), children : SUBSET (1..MaxLeg), links : SUBSET (1..MaxLeg),
                           counter : 0..MaxLeg] :
                      r.legs \subseteq 1..r.counter /\ r.children \subseteq r.legs /\ r.links \subseteq r.legs}
           Fresh == {Made(have, FALSE, Schema!NoRows) : have \in {{}, first}}
           Older == {Made(Upto(n), strict, r) : n \in {7, 10}, strict \in BOOLEAN, r \in good}
<1>2. Schema!OldFiles = Fresh \cup Older
  BY DEF Schema!OldFiles
<1>3. \A n : Upto(n) \in SUBSET Schema!Everything
  OBVIOUS
<1>4. good \subseteq Rows /\ \A r \in good : r.legs \subseteq 1..r.counter
  <2>1. 1..MaxLeg \subseteq Nat /\ 0..MaxLeg \subseteq Nat
    BY SchemaAssumption
  <2>2. \A r \in good : r \in Rows
    <3> SUFFICES ASSUME NEW r \in good PROVE r \in Rows
      OBVIOUS
    <3>1. r \in [legs : SUBSET (1..MaxLeg), children : SUBSET (1..MaxLeg), links : SUBSET (1..MaxLeg),
                 counter : 0..MaxLeg]
      OBVIOUS
    <3>2. r.legs \subseteq Nat /\ r.children \subseteq Nat /\ r.links \subseteq Nat /\ r.counter \in Nat
      BY <2>1, <3>1
    <3>3. r = [legs |-> r.legs, children |-> r.children, links |-> r.links, counter |-> r.counter]
      BY <3>1
    <3> QED BY <3>2, <3>3
  <2> QED BY <2>2
<1>5. first \in SUBSET Schema!Everything /\ {} \in SUBSET Schema!Everything
  BY ScriptMakesTheSchema
<1>6. Schema!NoRows \in Rows /\ Schema!NoRows.legs \subseteq 1..Schema!NoRows.counter
  BY DEF Schema!NoRows
<1> HIDE DEF Made, Rows, first, Upto, good
<1>7. CASE f \in Fresh
  <2>1. PICK have \in SUBSET Schema!Everything : f = Made(have, FALSE, Schema!NoRows)
    BY <1>5, <1>7
  <2> QED BY <1>1, <1>6, <2>1
<1>8. CASE f \in Older
  <2>1. PICK n \in {7, 10}, strict \in BOOLEAN, r \in good : f = Made(Upto(n), strict, r)
    BY <1>8
  <2>2. Upto(n) \in SUBSET Schema!Everything /\ r \in Rows /\ r.legs \subseteq 1..r.counter
    BY <1>3, <1>4
  <2> QED BY <1>1, <2>1, <2>2
<1> HIDE DEF Fresh, Older
<1> QED BY <1>2, <1>7, <1>8

\* A file an older version left stands, and no statement is next.
LEMMA InitSchema == Schema!Init => SchemaInv
<1> SUFFICES ASSUME Schema!Init PROVE SchemaInv
  OBVIOUS
<1>1. /\ file \in Schema!OldFiles /\ work = NULL /\ enforced = FALSE /\ at = 0 /\ columns = {}
      /\ issued = 1..file.counter
  BY DEF Schema!Init
<1>2. file \in SchemaFile /\ file.legs \subseteq 1..file.counter
  BY <1>1, OldFilesStand
<1>3. at # NULL
  BY <1>1, SchemaAssumption
<1> QED BY <1>1, <1>2, <1>3 DEF SchemaInv, FileStands, ColumnsStand, HandleStands, WorkStands

\* initDb: the handle enforces its keys.
LEMMA OpenKeepsSchema == SchemaInv /\ Schema!Open => SchemaInv' /\ RowsKept
<1> SUFFICES ASSUME SchemaInv, Schema!Open PROVE SchemaInv' /\ RowsKept
  OBVIOUS
<1>1. at = 0 /\ at' = 1 /\ enforced' = TRUE /\ UNCHANGED <<file, work, columns, issued>> /\ at' # NULL /\ at # NULL
  BY SchemaAssumption, ScriptLength DEF Schema!Open
<1>2. FileStands'
  BY <1>1 DEF SchemaInv, FileStands
<1>3. HandleStands' /\ ColumnsStand' /\ WorkStands'
  BY <1>1 DEF SchemaInv, ColumnsStand, HandleStands, WorkStands
<1> QED BY <1>1, <1>2, <1>3 DEF SchemaInv, RowsKept

\* The next statement, or up.
LEMMA AdvanceIsNext ==
  ASSUME at \in 1..37, Schema!Advance
  PROVE  at' = (IF at = 37 THEN NULL ELSE at + 1) /\ at # NULL /\ (at < 37 => at' # NULL)
<1>1. NULL \notin 0..37
  BY ScriptLength, SchemaAssumption
<1>2. at + 1 \in 1..37 \/ at = 37
  OBVIOUS
<1> QED BY <1>1, <1>2, ScriptLength DEF Schema!Advance

\* A statement under way has a place in the script.
LEMMA UnderWay ==
  ASSUME SchemaInv, at # NULL, at > 0
  PROVE  at \in 1..37
BY DEF SchemaInv

\* A statement leaves its object, and no object less.
LEMMA StatementKeepsSchema == SchemaInv /\ Schema!Statement => SchemaInv' /\ RowsKept
<1> SUFFICES ASSUME SchemaInv, Schema!Statement PROVE SchemaInv' /\ RowsKept
  OBVIOUS
<1> DEFINE s == Schema!Script[at]
           there == IF s.once THEN s.unless \in columns ELSE s.unless \in file.have
<1>1. /\ at # NULL /\ at > 0 /\ s.unless \notin Schema!Parts
      /\ file' = IF there THEN file ELSE [file EXCEPT !.have = @ \cup s.adds]
      /\ columns' = IF at = Schema!ReadColumns THEN file'.have ELSE columns
      /\ Schema!Advance
      /\ UNCHANGED <<work, enforced, crashes, issued>>
  BY DEF Schema!Statement
<1>2. at \in 1..37 /\ at \notin 30..34
  BY <1>1, UnderWay, WhereAPartStands
<1>3. at' = (IF at = 37 THEN NULL ELSE at + 1) /\ (at < 37 => at' # NULL)
  BY <1>1, <1>2, AdvanceIsNext
<1>4. s.adds \subseteq Schema!Everything
  BY <1>2, ScriptMakesTheSchema
<1>5. file \in SchemaFile
  BY DEF SchemaInv, FileStands
<1>6. /\ file' \in SchemaFile /\ file.have \subseteq file'.have
      /\ file'.legs = file.legs /\ file'.children = file.children /\ file'.links = file.links
      /\ file'.counter = file.counter /\ file'.strict = file.strict
      /\ (there \/ s.adds \subseteq file'.have)
  <2> HIDE DEF s
  <2>1. CASE there
    BY <1>1, <1>5, <2>1
  <2>2. CASE ~there
    <3> DEFINE all == file.have \cup s.adds
    <3>1. file' = [file EXCEPT !.have = all] /\ all \in SUBSET Schema!Everything
      BY <1>1, <1>4, <1>5, <2>2 DEF SchemaFile
    <3> HIDE DEF all
    <3>2. file' \in SchemaFile /\ file'.have = all
      BY <1>5, <3>1 DEF SchemaFile
    <3>3. /\ file'.legs = file.legs /\ file'.children = file.children /\ file'.links = file.links
          /\ file'.counter = file.counter /\ file'.strict = file.strict
      BY <1>5, <3>1 DEF SchemaFile
    <3> QED BY <3>2, <3>3 DEF all
  <2> QED BY <2>1, <2>2
<1>7. s.unless \in file'.have
  <2>1. CASE at = 20
    <3>1. Schema!Script[19].unless \in file.have
      BY <1>1, <2>1 DEF SchemaInv, FileStands
    <3> QED BY <1>6, <2>1, <3>1, ScriptAdds
  <2>2. CASE at # 20
    <3>1. s.unless \in s.adds
      BY <1>2, <2>2, ScriptAdds
    <3>2. CASE there
      <4>1. s.unless \in columns \/ s.unless \in file.have
        BY <3>2
      <4>2. at \notin 18..37 => s.unless \in file.have
        <5>1. at \notin 18..37 => s.once = FALSE
          BY <1>2, ScriptAdds
        <5> QED BY <3>2, <5>1
      <4>3. at \in 18..37 => columns \subseteq file.have
        BY DEF SchemaInv, ColumnsStand
      <4> QED BY <1>6, <4>1, <4>2, <4>3
    <3>3. CASE ~there
      BY <1>6, <3>1, <3>3
    <3> QED BY <3>2, <3>3
  <2> QED BY <2>1, <2>2
<1> HIDE DEF s, there
<1>8. FileStands'
  <2>1. ASSUME NEW i \in 1..37, at' = NULL \/ i < at', i \notin 30..34
        PROVE  Schema!Script[i].unless \in file'.have
    <3>1. i = at \/ i < at
      BY <1>2, <1>3, <2>1
    <3>2. CASE i = at
      BY <1>7, <3>2 DEF s
    <3>3. CASE i < at
      BY <1>6, <2>1, <3>3 DEF SchemaInv, FileStands
    <3> QED BY <3>1, <3>2, <3>3
  <2>2. file'.legs \subseteq 1..file'.counter /\ issued' \subseteq 1..file'.counter
    BY <1>1, <1>6 DEF SchemaInv, FileStands
  <2>3. at' = NULL \/ at' \in 35..37 => ~file'.strict
    <3>1. at' = NULL \/ at' \in 35..37 => at \in 35..37
      BY <1>2, <1>3
    <3> QED BY <1>6, <3>1 DEF SchemaInv, FileStands
  <2> QED BY <1>6, <2>1, <2>2, <2>3 DEF FileStands
<1>9. ColumnsStand'
  <2> SUFFICES ASSUME at' \in 18..37 PROVE columns' \subseteq file'.have
    BY DEF ColumnsStand
  <2>1. at = 17 \/ at \in 18..37
    BY <1>2, <1>3, SchemaAssumption, ScriptLength
  <2>2. CASE at = 17
    BY <1>1, <2>2, ScriptLength
  <2>3. CASE at \in 18..37
    BY <1>1, <1>6, <2>3, ScriptLength DEF SchemaInv, ColumnsStand
  <2> QED BY <2>1, <2>2, <2>3
<1>10. HandleStands' /\ WorkStands'
  <2>1. at' = NULL \/ at' \in 1..30 \/ at' \in 35..37
    BY <1>2, <1>3
  <2>2. at' \notin 31..34
    <3>1. NULL \notin 31..34
      BY SchemaAssumption, ScriptLength
    <3> QED BY <1>2, <1>3, <3>1
  <2>3. enforced = TRUE /\ work = NULL
    BY <1>2 DEF SchemaInv, HandleStands
  <2> QED BY <1>1, <2>2, <2>3 DEF HandleStands, WorkStands
<1>11. at' \in {NULL} \cup 0..37
  BY <1>2, <1>3
<1> QED BY <1>1, <1>6, <1>8, <1>9, <1>10, <1>11 DEF SchemaInv, RowsKept

\* A file that is no longer strict needs no rebuild.
LEMMA SkipKeepsSchema == SchemaInv /\ Schema!Skip => SchemaInv' /\ RowsKept
<1> SUFFICES ASSUME SchemaInv, Schema!Skip PROVE SchemaInv' /\ RowsKept
  OBVIOUS
<1>1. at = 30 /\ at' = 35 /\ ~file.strict /\ UNCHANGED <<file, work, enforced, columns, issued>>
  BY UnderWay, WhereAPartStands, ScriptLength DEF Schema!Skip, Schema!Step
<1>2. at # NULL /\ at' # NULL
  BY <1>1, SchemaAssumption, ScriptLength
<1>3. FileStands'
  BY <1>1, <1>2 DEF SchemaInv, FileStands
<1>4. ColumnsStand' /\ HandleStands' /\ WorkStands'
  BY <1>1, <1>2 DEF SchemaInv, ColumnsStand, HandleStands, WorkStands
<1> QED BY <1>1, <1>3, <1>4 DEF SchemaInv, RowsKept

\* A part of the rebuild before its end changes the transaction and not the file.
LEMMA PartKeepsFile ==
  ASSUME SchemaInv, at \in 30..33, Schema!Advance, UNCHANGED <<file, columns, issued>>
  PROVE  at' = at + 1 /\ at' \in 31..34 /\ FileStands' /\ ColumnsStand' /\ RowsKept
<1>1. at' = at + 1 /\ at' # NULL /\ at # NULL
  BY AdvanceIsNext
<1>2. FileStands'
  BY <1>1 DEF SchemaInv, FileStands
<1>3. ColumnsStand' /\ RowsKept
  BY <1>1 DEF SchemaInv, ColumnsStand, RowsKept
<1> QED BY <1>1, <1>2, <1>3

\* The rebuild starts from the file, with the keys off.
LEMMA BeginKeepsSchema == SchemaInv /\ Schema!Begin => SchemaInv' /\ RowsKept
<1> SUFFICES ASSUME SchemaInv, Schema!Begin PROVE SchemaInv' /\ RowsKept
  OBVIOUS
<1>1. at = 30 /\ enforced' = FALSE /\ work' = file /\ Schema!Advance /\ UNCHANGED <<file, columns, issued>>
  BY UnderWay, WhereAPartStands DEF Schema!Begin, Schema!Step
<1>2. at' = 31 /\ FileStands' /\ ColumnsStand' /\ RowsKept
  BY <1>1, PartKeepsFile
<1>3. at' # NULL /\ HandleStands'
  BY <1>1, <1>2, SchemaAssumption, ScriptLength DEF HandleStands
<1>4. WorkStands'
  BY <1>1, <1>2 DEF SchemaInv, FileStands, WorkStands
<1> QED BY <1>2, <1>3, <1>4 DEF SchemaInv

\* While the rebuild runs, keys are off.
LEMMA RebuildKeepsHandle ==
  ASSUME HandleStands, at \in 31..34, at' \in 31..34, UNCHANGED enforced
  PROVE  HandleStands'
<1>1. at' # NULL
  BY SchemaAssumption, ScriptLength
<1> QED BY <1>1 DEF HandleStands

\* The copy has every leg; its counter is only the highest id.
LEMMA CopyKeepsSchema == SchemaInv /\ Schema!Copy => SchemaInv' /\ RowsKept
<1> SUFFICES ASSUME SchemaInv, Schema!Copy PROVE SchemaInv' /\ RowsKept
  OBVIOUS
<1> DEFINE high == Schema!Highest(work.legs)
<1>1. /\ at = 31 /\ work' = [work EXCEPT !.counter = high] /\ Schema!Advance
      /\ UNCHANGED <<file, enforced, columns, issued>>
  BY UnderWay, WhereAPartStands DEF Schema!Copy, Schema!Step
<1>2. at' = 32 /\ FileStands' /\ ColumnsStand' /\ RowsKept
  BY <1>1, PartKeepsFile
<1>3. HandleStands'
  BY <1>1, <1>2, RebuildKeepsHandle DEF SchemaInv
<1>4. /\ work \in SchemaFile /\ work.legs = file.legs /\ work.children = file.children /\ work.links = file.links
      /\ file.have \subseteq work.have \cup {"idx_planned_legs"}
  BY <1>1 DEF SchemaInv, WorkStands
<1>5. high \in Nat
  <2>1. file.counter \in Nat /\ work.legs \subseteq 1..file.counter
    BY <1>4 DEF SchemaInv, FileStands, SchemaFile
  <2> QED BY <2>1, HighestIsCounted
<1> HIDE DEF high
<1>6. /\ work' \in SchemaFile /\ work'.legs = work.legs /\ work'.children = work.children
      /\ work'.links = work.links /\ work'.have = work.have
  BY <1>1, <1>4, <1>5 DEF SchemaFile
<1>7. WorkStands'
  BY <1>1, <1>2, <1>4, <1>6 DEF WorkStands
<1> QED BY <1>2, <1>3, <1>7 DEF SchemaInv

\* The drop takes the index of the table, and with the keys off no row.
LEMMA DropKeepsSchema == SchemaInv /\ Schema!Drop => SchemaInv' /\ RowsKept
<1> SUFFICES ASSUME SchemaInv, Schema!Drop PROVE SchemaInv' /\ RowsKept
  OBVIOUS
<1>1. /\ at = 32 /\ work' = [Schema!Dropped(work, enforced) EXCEPT !.have = @ \ {"idx_planned_legs"}]
      /\ Schema!Advance /\ UNCHANGED <<file, enforced, columns, issued>>
  BY UnderWay, WhereAPartStands DEF Schema!Drop, Schema!Step
<1>2. at' = 33 /\ FileStands' /\ ColumnsStand' /\ RowsKept
  BY <1>1, PartKeepsFile
<1>3. HandleStands' /\ ~enforced
  <2>1. HandleStands /\ at \in 31..34 /\ at' \in 31..34 /\ UNCHANGED enforced
    BY <1>1, <1>2 DEF SchemaInv
  <2>2. HandleStands'
    BY <2>1, RebuildKeepsHandle
  <2>3. enforced = FALSE
    BY <2>1 DEF HandleStands
  <2> QED BY <2>2, <2>3
<1>4. /\ work \in SchemaFile /\ work.legs = file.legs /\ work.children = file.children /\ work.links = file.links
      /\ file.have \subseteq work.have \cup {"idx_planned_legs"}
  BY <1>1 DEF SchemaInv, WorkStands
<1> DEFINE left == work.have \ {"idx_planned_legs"}
<1>5. work' = [work EXCEPT !.have = left] /\ left \in SUBSET Schema!Everything
  BY <1>1, <1>3, <1>4 DEF Schema!Dropped, SchemaFile
<1>6. file.have \subseteq left \cup {"idx_planned_legs"}
  BY <1>4
<1> HIDE DEF left
<1>7. /\ work' \in SchemaFile /\ work'.legs = work.legs /\ work'.children = work.children
      /\ work'.links = work.links /\ work'.have = left
  BY <1>4, <1>5 DEF SchemaFile
<1>8. WorkStands'
  BY <1>1, <1>2, <1>4, <1>6, <1>7 DEF WorkStands
<1> QED BY <1>2, <1>3, <1>8 DEF SchemaInv

\* The rename gives back the index and never lowers the counter.
LEMMA RenameKeepsSchema == SchemaInv /\ Schema!Rename => SchemaInv' /\ RowsKept
<1> SUFFICES ASSUME SchemaInv, Schema!Rename PROVE SchemaInv' /\ RowsKept
  OBVIOUS
<1> DEFINE all == work.have \cup {"idx_planned_legs"}
           count == Schema!Counter(work.counter, file.counter)
<1>1. /\ at = 33 /\ Schema!Advance /\ UNCHANGED <<file, enforced, columns, issued>>
      /\ work' = [work EXCEPT !.have = @ \cup {"idx_planned_legs"}, !.strict = FALSE,
                              !.counter = Schema!Counter(@, file.counter)]
  BY UnderWay, WhereAPartStands DEF Schema!Rename, Schema!Step
<1>2. at' = 34 /\ FileStands' /\ ColumnsStand' /\ RowsKept
  BY <1>1, PartKeepsFile
<1>3. HandleStands'
  BY <1>1, <1>2, RebuildKeepsHandle DEF SchemaInv
<1>4. /\ work \in SchemaFile /\ work.legs = file.legs /\ work.children = file.children /\ work.links = file.links
      /\ file.have \subseteq all
  BY <1>1 DEF SchemaInv, WorkStands
<1>5. all \in SUBSET Schema!Everything
  BY <1>4, ScriptMakesTheSchema DEF SchemaFile
<1>6. count \in Nat /\ file.counter <= count
  <2>1. work.counter \in Nat /\ file.counter \in Nat
    BY <1>4 DEF SchemaInv, FileStands, SchemaFile
  <2> QED BY <2>1 DEF Schema!Counter
<1>7. work' = [work EXCEPT !.have = all, !.strict = FALSE, !.counter = count]
  BY <1>1, <1>4 DEF SchemaFile
<1> HIDE DEF all, count
<1>8. /\ work' \in SchemaFile /\ work'.legs = work.legs /\ work'.children = work.children
      /\ work'.links = work.links /\ work'.have = all /\ work'.counter = count
  BY <1>4, <1>5, <1>6, <1>7 DEF SchemaFile
<1>9. ~work'.strict
  BY <1>4, <1>7 DEF SchemaFile
<1>10. WorkStands'
  <2>1. file.have \subseteq work'.have \cup {"idx_planned_legs"} /\ file.have \subseteq work'.have
    BY <1>4, <1>8
  <2>2. file.counter <= work'.counter
    BY <1>6, <1>8
  <2> QED BY <1>1, <1>4, <1>8, <1>9, <2>1, <2>2 DEF WorkStands
<1> QED BY <1>2, <1>3, <1>10 DEF SchemaInv

\* A rebuild is committed with every row and every object of the file, or is
\* rolled back.
LEMMA CommitKeepsSchema == SchemaInv /\ Schema!Commit => SchemaInv' /\ RowsKept
<1> SUFFICES ASSUME SchemaInv, Schema!Commit PROVE SchemaInv' /\ RowsKept
  OBVIOUS
<1>1. /\ at = 34 /\ work' = NULL /\ enforced' = TRUE /\ UNCHANGED <<columns, issued>>
      /\ \/ file' = work /\ Schema!Advance
         \/ at' = 0 /\ UNCHANGED file
  BY UnderWay, WhereAPartStands DEF Schema!Commit, Schema!Step
<1>2. NULL \notin 0..37 /\ at # NULL
  BY <1>1, SchemaAssumption, ScriptLength
<1>3. CASE at' = 0 /\ UNCHANGED file
  <2>1. FileStands'
    BY <1>1, <1>2, <1>3 DEF SchemaInv, FileStands
  <2>2. ColumnsStand' /\ HandleStands' /\ WorkStands'
    BY <1>1, <1>2, <1>3 DEF ColumnsStand, HandleStands, WorkStands
  <2> QED BY <1>3, <2>1, <2>2 DEF SchemaInv, RowsKept
<1>4. CASE file' = work /\ Schema!Advance
  <2>1. at' = 35 /\ at' # NULL
    BY <1>1, <1>4, AdvanceIsNext
  <2>2. /\ work \in SchemaFile /\ work.legs = file.legs /\ work.children = file.children /\ work.links = file.links
        /\ file.have \subseteq work.have /\ ~work.strict /\ file.counter <= work.counter
    BY <1>1 DEF SchemaInv, WorkStands
  <2>3. file.counter \in Nat /\ work.counter \in Nat /\ 1..file.counter \subseteq 1..work.counter
    <3>1. file.counter \in Nat /\ work.counter \in Nat
      BY <2>2 DEF SchemaInv, FileStands, SchemaFile
    <3> QED BY <2>2, <3>1
  <2>4. FileStands'
    <3>1. file' \in SchemaFile /\ ~file'.strict
      BY <1>4, <2>2
    <3>2. file'.legs \subseteq 1..file'.counter /\ issued' \subseteq 1..file'.counter
      BY <1>1, <1>4, <2>2, <2>3 DEF SchemaInv, FileStands
    <3>3. ASSUME NEW i \in 1..37, at' = NULL \/ i < at', i \notin 30..34
          PROVE  Schema!Script[i].unless \in file'.have
      <4>1. i < at
        BY <1>1, <2>1, <3>3
      <4> QED BY <1>4, <2>2, <3>3, <4>1 DEF SchemaInv, FileStands
    <3> QED BY <3>1, <3>2, <3>3 DEF FileStands
  <2>5. ColumnsStand'
    BY <1>1, <1>4, <2>2 DEF SchemaInv, ColumnsStand
  <2>6. HandleStands' /\ WorkStands'
    BY <1>1, <2>1 DEF HandleStands, WorkStands
  <2>7. RowsKept
    BY <1>4, <2>2 DEF RowsKept
  <2> QED BY <2>1, <2>4, <2>5, <2>6, <2>7 DEF SchemaInv
<1> QED BY <1>1, <1>3, <1>4

\* A death rolls the rebuild back.
LEMMA CrashKeepsSchema == SchemaInv /\ Schema!Crash => SchemaInv' /\ RowsKept
<1> SUFFICES ASSUME SchemaInv, Schema!Crash PROVE SchemaInv' /\ RowsKept
  OBVIOUS
<1>1. at' = 0 /\ work' = NULL /\ columns' = {} /\ UNCHANGED <<file, issued>> /\ 0 # NULL
  BY SchemaAssumption DEF Schema!Crash
<1>2. FileStands'
  BY <1>1 DEF SchemaInv, FileStands
<1>3. ColumnsStand' /\ HandleStands' /\ WorkStands'
  BY <1>1 DEF ColumnsStand, HandleStands, WorkStands
<1> QED BY <1>1, <1>2, <1>3 DEF SchemaInv, RowsKept

\* A server that is up hands out the id after the counter, which none had.
LEMMA ImportKeepsSchema == SchemaInv /\ Schema!Import => SchemaInv' /\ RowsKept
<1> SUFFICES ASSUME SchemaInv, Schema!Import PROVE SchemaInv' /\ RowsKept
  OBVIOUS
<1> DEFINE id == file.counter + 1
           legs1 == file.legs \cup {id}
           children1 == file.children \cup {id}
<1>1. /\ at = NULL /\ issued' = issued \cup {id} /\ UNCHANGED <<work, enforced, at, columns>>
      /\ file' = [file EXCEPT !.legs = legs1, !.counter = id, !.children = children1]
  BY DEF Schema!Import
<1>2. /\ file \in SchemaFile /\ file.legs \subseteq 1..file.counter /\ issued \subseteq 1..file.counter
      /\ ~file.strict /\ \A i \in 1..37 : i \notin 30..34 => Schema!Script[i].unless \in file.have
  BY <1>1 DEF SchemaInv, FileStands
<1>3. file.counter \in Nat /\ id \in Nat /\ id \notin issued /\ 1..file.counter \subseteq 1..id /\ id \in 1..id
  <2>1. file.counter \in Nat
    BY <1>2 DEF SchemaFile
  <2> QED BY <1>2, <2>1
<1>4. legs1 \in SUBSET Nat /\ children1 \in SUBSET Nat /\ legs1 \subseteq 1..id
  BY <1>2, <1>3 DEF SchemaFile
<1> HIDE DEF id, legs1, children1
<1>5. /\ file' \in SchemaFile /\ file'.legs = legs1 /\ file'.counter = id /\ file'.have = file.have
      /\ file'.strict = file.strict
  BY <1>1, <1>2, <1>3, <1>4 DEF SchemaFile
<1>6. FileStands'
  BY <1>1, <1>2, <1>3, <1>4, <1>5 DEF FileStands
<1>7. ColumnsStand' /\ HandleStands' /\ WorkStands'
  <2>1. NULL \notin 0..37
    BY SchemaAssumption, ScriptLength
  <2> QED BY <1>1, <2>1 DEF SchemaInv, ColumnsStand, HandleStands, WorkStands
<1>8. RowsKept
  BY <1>1, <1>3, <1>5 DEF RowsKept, legs1
<1> QED BY <1>1, <1>6, <1>7, <1>8 DEF SchemaInv

\* Every step of a start keeps the invariant and the rows.
LEMMA StepKeepsSchema == SchemaInv /\ Schema!Next => SchemaInv' /\ RowsKept
BY OpenKeepsSchema, StatementKeepsSchema, SkipKeepsSchema, BeginKeepsSchema, CopyKeepsSchema, DropKeepsSchema,
   RenameKeepsSchema, CommitKeepsSchema, CrashKeepsSchema, ImportKeepsSchema DEF Schema!Next

\* A step of another machine leaves the upgrade alone.
LEMMA StutterKeepsSchema == SchemaInv /\ UNCHANGED schemaVars => SchemaInv'
BY DEF SchemaInv, FileStands, ColumnsStand, HandleStands, WorkStands, schemaVars

\* The upgrade's invariant holds throughout.
LEMMA SchemaAlways == Spec => []SchemaInv
<1>1. Init => SchemaInv
  BY InitSchema DEF Init
<1>2. SchemaInv /\ [Next]_vars => SchemaInv'
  <2>1. CASE SchemaNext
    BY <2>1, StepKeepsSchema DEF SchemaNext
  <2>2. CASE Next /\ ~SchemaNext
    <3>1. UNCHANGED schemaVars
      BY <2>2 DEF Next, ClockNext, SignInNext, GroundNext, PlanNext, ReplayNext, FeaturesNext
    <3> QED BY <3>1, StutterKeepsSchema
  <2>3. CASE UNCHANGED vars
    BY <2>3, StutterKeepsSchema DEF vars
  <2> QED BY <2>1, <2>2, <2>3
<1> QED BY <1>1, <1>2, PTL DEF Spec

\* applySchema: whatever older file a start finds, and however many starts
\* end between two statements, a server that is up has the whole schema, has
\* the keys enforced and no transaction open.
THEOREM UpStaysComplete == Spec => []UpMeansComplete
<1>1. SchemaInv => UpMeansComplete
  <2> SUFFICES ASSUME SchemaInv, at = NULL
               PROVE  /\ Schema!Everything \ {"idx_flights_trip"} \subseteq file.have
                      /\ ~file.strict /\ enforced /\ work = NULL
    BY DEF UpMeansComplete, Schema!UpMeansComplete
  <2>1. ASSUME NEW o \in Schema!Everything, o # "idx_flights_trip" PROVE o \in file.have
    <3>1. PICK i \in 1..37 : i \notin 30..34 /\ Schema!Script[i].unless = o
      BY <2>1, EverythingIsLookedFor
    <3> QED BY <3>1 DEF SchemaInv, FileStands
  <2>2. ~file.strict /\ enforced /\ work = NULL
    BY DEF SchemaInv, FileStands, HandleStands
  <2> QED BY <2>1, <2>2
<1> QED BY <1>1, SchemaAlways, PTL

\* migratePlannedLegsTripIdNullable, AUTOINCREMENT: no start changes a row, and
\* no import hands out an id a leg ever had, not even one deleted before the
\* rebuild.
THEOREM UpgradesStayHarmless == Spec => Schema!UpgradesKeepRows
<1>1. SchemaInv /\ [Next]_vars => [RowsKept]_schemaVars
  <2>1. CASE SchemaNext
    BY <2>1, StepKeepsSchema DEF SchemaNext
  <2>2. CASE Next /\ ~SchemaNext
    BY <2>2 DEF Next, ClockNext, SignInNext, GroundNext, PlanNext, ReplayNext, FeaturesNext
  <2>3. CASE UNCHANGED vars
    BY <2>3 DEF vars
  <2> QED BY <2>1, <2>2, <2>3
<1>2. [RowsKept]_schemaVars
         => [/\ at # NULL => file'.legs = file.legs /\ file'.children = file.children /\ file'.links = file.links
             /\ (file'.legs \ file.legs) \cap issued = {}]_(Schema!vars)
  BY DEF RowsKept, schemaVars, Schema!vars
<1> QED BY <1>1, <1>2, SchemaAlways, PTL DEF Spec, Schema!UpgradesKeepRows

-----------------------------------------------------------------------------
(* The import of planned legs.                                              *)

LegRow(id, pool, seq, plan) == [id |-> id, pool |-> pool, seq |-> seq, plan |-> plan]

\* The rows up to an id: each has one of its own, and within its pool a
\* position of its own; positions are bounded.
PlanRows(rs, n) ==
  /\ \A l \in rs : l = LegRow(l.id, l.pool, l.seq, l.plan) /\ l.id \in 1..n /\ l.seq \in Nat
  /\ \A k, l \in rs : k.id = l.id => k = l
  /\ \A k, l \in rs : k.pool = l.pool /\ k.seq = l.seq => k = l
  /\ \E bound \in Nat : \A l \in rs : l.seq <= bound

PlanInv == lastId \in Nat /\ PlanRows(legs, lastId)

\* What an import or a deletion does to the order of the legs.
PlanKept ==
  {l.id : l \in legs} # {l.id : l \in legs'} =>
    /\ \A k, l \in legs' : k.pool = l.pool /\ k.id <= lastId /\ l.id > lastId => k.seq < l.seq
    /\ \A k, l \in legs \cap legs' : Plan!Before(k, l, legs) => Plan!Before(k, l, legs')

\* MAX(seq) of some positions below a bound.
LEMMA MaxOfBounded ==
  ASSUME NEW S, S \subseteq Nat, S # {}, NEW bound \in Nat, \A x \in S : x <= bound
  PROVE  Plan!Max(S) \in S /\ \A x \in S : x <= Plan!Max(S)
<1> DEFINE T == {bound - x : x \in S}
<1>1. T \subseteq Nat /\ T # {}
  <2>1. \A x \in S : bound - x \in Nat
    OBVIOUS
  <2>2. PICK x \in S : TRUE
    OBVIOUS
  <2>3. bound - x \in T
    BY <2>2
  <2> QED BY <2>1, <2>3
<1>2. PICK low \in T : \A y \in T : low <= y
  BY <1>1, FirstOfSome
<1>3. PICK m \in S : low = bound - m
  BY <1>2
<1>4. \A x \in S : m >= x
  <2> SUFFICES ASSUME NEW x \in S PROVE m >= x
    OBVIOUS
  <2>1. bound - x \in T
    OBVIOUS
  <2>2. bound - m <= bound - x /\ m \in Nat /\ x \in Nat
    BY <1>2, <1>3, <2>1
  <2> QED BY <2>2
<1> HIDE DEF T
<1>5. Plan!Max(S) \in S /\ \A x \in S : Plan!Max(S) >= x
  BY <1>3, <1>4 DEF Plan!Max
<1>6. \A x \in S : x <= Plan!Max(S)
  BY <1>5
<1> QED BY <1>5, <1>6

\* createPlannedLeg() puts a leg after every leg of its pool.
LEMMA NextSeqIsNext ==
  ASSUME NEW rs, NEW n \in Nat, PlanRows(rs, n), NEW p
  PROVE  /\ Plan!NextSeq(p, rs) \in Nat
         /\ \A l \in rs : l.pool = p => l.seq < Plan!NextSeq(p, rs)
<1> DEFINE S == {l.seq : l \in Plan!LegsOf(p, rs)} \cup {0}
<1>1. PICK bound \in Nat : \A l \in rs : l.seq <= bound
  BY DEF PlanRows
<1>2. S \subseteq Nat /\ S # {} /\ \A x \in S : x <= bound
  BY <1>1 DEF PlanRows, Plan!LegsOf
<1>3. Plan!Max(S) \in S /\ \A x \in S : x <= Plan!Max(S)
  BY <1>2, MaxOfBounded
<1>4. \A l \in rs : l.pool = p => l.seq \in S
  BY DEF Plan!LegsOf
<1>5. Plan!NextSeq(p, rs) = 1 + Plan!Max(S)
  BY DEF Plan!NextSeq
<1> HIDE DEF S
<1>6. Plan!Max(S) \in Nat /\ \A l \in rs : l.pool = p => l.seq \in Nat /\ l.seq <= Plan!Max(S)
  BY <1>2, <1>3, <1>4
<1> QED BY <1>5, <1>6

\* Legs that are added one after the other keep the order total and come after
\* those that were there.
LEMMA AddedComeLast ==
  ASSUME PlanInv, NEW p, NEW plans, NEW d \in Nat, lastId' = lastId + d,
         legs' = legs \cup {LegRow(lastId + i, p, Plan!NextSeq(p, legs) + i - 1, plans[i]) : i \in 1..d}
  PROVE  PlanInv' /\ PlanKept
<1> DEFINE next == Plan!NextSeq(p, legs)
           Row(i) == LegRow(lastId + i, p, next + i - 1, plans[i])
<1>1. lastId \in Nat /\ PlanRows(legs, lastId) /\ next \in Nat
      /\ \A l \in legs : l.pool = p => l.seq < next
  BY NextSeqIsNext DEF PlanInv
<1> HIDE DEF next
<1>2. legs' = legs \cup {Row(i) : i \in 1..d}
  BY DEF next
<1>3. ASSUME NEW i \in 1..d
      PROVE  /\ Row(i).id = lastId + i /\ Row(i).pool = p /\ Row(i).seq = next + i - 1 /\ Row(i).plan = plans[i]
             /\ Row(i).id \in 1..(lastId + d) /\ Row(i).seq \in Nat /\ Row(i).seq >= next /\ Row(i).id > lastId
             /\ Row(i).seq <= next + d
  BY <1>1 DEF LegRow
<1>4. ASSUME NEW l \in legs
      PROVE  /\ l.id \in 1..lastId /\ l.seq \in Nat /\ l.id \in 1..(lastId + d)
             /\ l = LegRow(l.id, l.pool, l.seq, l.plan)
  BY <1>1 DEF PlanRows
<1>5. \A i, j \in 1..d : Row(i).id = Row(j).id \/ Row(i).seq = Row(j).seq => i = j
  <2> SUFFICES ASSUME NEW i \in 1..d, NEW j \in 1..d, Row(i).id = Row(j).id \/ Row(i).seq = Row(j).seq PROVE i = j
    OBVIOUS
  <2>1. /\ Row(i).id = lastId + i /\ Row(i).seq = next + i - 1
        /\ Row(j).id = lastId + j /\ Row(j).seq = next + j - 1
    BY <1>3
  <2> HIDE DEF Row
  <2> QED BY <1>1, <2>1
<1>6. \A i \in 1..d : Row(i) = LegRow(Row(i).id, Row(i).pool, Row(i).seq, Row(i).plan)
  <2> SUFFICES ASSUME NEW i \in 1..d PROVE Row(i) = LegRow(Row(i).id, Row(i).pool, Row(i).seq, Row(i).plan)
    OBVIOUS
  <2> QED BY <1>3 DEF LegRow
<1> HIDE DEF Row
<1>7. ASSUME NEW k \in legs', NEW l \in legs', k.pool = l.pool, k.id <= lastId, l.id > lastId
      PROVE  k.seq < l.seq
  <2>1. k \in legs
    BY <1>1, <1>2, <1>3, <1>7
  <2>2. PICK i \in 1..d : l = Row(i)
    BY <1>1, <1>2, <1>4, <1>7
  <2>3. k.seq < next /\ l.seq >= next /\ k.seq \in Nat /\ l.seq \in Nat
    BY <1>1, <1>3, <1>4, <1>7, <2>1, <2>2
  <2> QED BY <1>1, <2>3
<1>8. \A k, l \in legs' : k.id = l.id => k = l
  <2> SUFFICES ASSUME NEW k \in legs', NEW l \in legs', k.id = l.id PROVE k = l
    OBVIOUS
  <2>1. CASE k \in legs /\ l \in legs
    BY <1>1, <2>1 DEF PlanRows
  <2>2. CASE k \in legs /\ l \notin legs
    <3>1. l.id > lastId /\ k.id \in 1..lastId
      BY <1>2, <1>3, <1>4, <2>2
    <3> QED BY <1>1, <3>1
  <2>3. CASE k \notin legs /\ l \in legs
    <3>1. k.id > lastId /\ l.id \in 1..lastId
      BY <1>2, <1>3, <1>4, <2>3
    <3> QED BY <1>1, <3>1
  <2>4. CASE k \notin legs /\ l \notin legs
    BY <1>2, <1>5, <2>4
  <2> QED BY <2>1, <2>2, <2>3, <2>4
<1>9. \A k, l \in legs' : k.pool = l.pool /\ k.seq = l.seq => k = l
  <2> SUFFICES ASSUME NEW k \in legs', NEW l \in legs', k.pool = l.pool, k.seq = l.seq PROVE k = l
    OBVIOUS
  <2>1. CASE k \in legs /\ l \in legs
    BY <1>1, <2>1 DEF PlanRows
  <2>2. CASE k \in legs /\ l \notin legs
    <3>1. l.id > lastId /\ k.id \in 1..lastId /\ k.seq \in Nat
      BY <1>2, <1>3, <1>4, <2>2
    <3>2. k.id <= lastId
      BY <1>1, <3>1
    <3> QED BY <1>7, <3>1, <3>2
  <2>3. CASE k \notin legs /\ l \in legs
    <3>1. k.id > lastId /\ l.id \in 1..lastId /\ l.seq \in Nat
      BY <1>2, <1>3, <1>4, <2>3
    <3>2. l.id <= lastId
      BY <1>1, <3>1
    <3> QED BY <1>7, <3>1, <3>2
  <2>4. CASE k \notin legs /\ l \notin legs
    BY <1>2, <1>5, <2>4
  <2> QED BY <2>1, <2>2, <2>3, <2>4
<1>10. \E bound \in Nat : \A l \in legs' : l.seq <= bound
  <2>1. PICK bound \in Nat : \A l \in legs : l.seq <= bound
    BY <1>1 DEF PlanRows
  <2> DEFINE bound1 == bound + next + d
  <2>2. bound1 \in Nat /\ \A l \in legs : l.seq <= bound1
    BY <1>1, <1>4, <2>1
  <2>3. \A i \in 1..d : Row(i).seq <= bound1
    BY <1>1, <1>3
  <2> HIDE DEF bound1
  <2> QED BY <1>2, <2>2, <2>3
<1>11. PlanInv'
  <2>1. \A l \in legs' : l = LegRow(l.id, l.pool, l.seq, l.plan) /\ l.id \in 1..(lastId + d) /\ l.seq \in Nat
    BY <1>2, <1>3, <1>4, <1>6
  <2>2. lastId' \in Nat
    BY <1>1
  <2> QED BY <1>8, <1>9, <1>10, <2>1, <2>2 DEF PlanInv, PlanRows
<1>12. \A k, l \in legs \cap legs' : Plan!Before(k, l, legs) => Plan!Before(k, l, legs')
  BY <1>2 DEF Plan!Before
<1> QED BY <1>7, <1>11, <1>12 DEF PlanKept

\* Legs that go leave the others where they stand.
LEMMA GoneLeaveTheOrder ==
  ASSUME PlanInv, legs' \subseteq legs, UNCHANGED lastId
  PROVE  PlanInv' /\ PlanKept
<1>1. PlanInv'
  BY DEF PlanInv, PlanRows
<1>2. \A l \in legs' : ~(l.id > lastId)
  BY DEF PlanInv, PlanRows
<1>3. \A k, l \in legs \cap legs' : Plan!Before(k, l, legs) => Plan!Before(k, l, legs')
  BY DEF PlanInv, PlanRows, Plan!Before
<1> QED BY <1>1, <1>2, <1>3 DEF PlanKept

\* The list of a reorder is one of positions counted from 1.
LEMMA OrdersAreLists ==
  ASSUME NEW order \in Plan!Orders
  PROVE  \E n \in Nat : DOMAIN order = 1..n
<1>1. PICK n \in 0..MaxLegs : order \in Plan!Injection(1..n, 1..MaxLegs)
  BY DEF Plan!Orders
<1>2. DOMAIN order = 1..n
  BY <1>1 DEF Plan!Injection
<1> QED BY <1>2

\* reorderPlannedLegs() numbers the legs of one trip by their place in a list
\* that names each of them.
LEMMA RenumberedRow ==
  ASSUME PlanInv, NEW t, NEW order, Plan!Reorder(t, order), NEW n \in Nat, DOMAIN order = 1..n,
         NEW l \in legs, NEW row, row = Plan!Renumbered(l, order)
  PROVE  /\ row.id = l.id /\ row.pool = l.pool /\ row.plan = l.plan /\ row.seq \in Nat
         /\ row = LegRow(row.id, row.pool, row.seq, row.plan)
         /\ l.pool = t => row.seq \in 1..n /\ order[row.seq] = l.id
         /\ l.pool # t => row = l
         /\ l.id \in 1..lastId
<1>1. l = LegRow(l.id, l.pool, l.seq, l.plan) /\ l.id \in 1..lastId /\ l.seq \in Nat
  BY DEF PlanInv, PlanRows
<1>2. l.id \in Plan!Range(order) <=> l.pool = t
  BY DEF PlanInv, PlanRows, Plan!Reorder, Plan!Complete, Plan!LegsOf
<1>3. CASE l.id \in Plan!Range(order)
  <2> DEFINE place == CHOOSE i \in DOMAIN order : order[i] = l.id
  <2>1. \E i \in DOMAIN order : order[i] = l.id
    BY <1>3 DEF Plan!Range
  <2>2. place \in 1..n /\ order[place] = l.id /\ place \in Nat
    BY <2>1
  <2>3. row = [l EXCEPT !.seq = place]
    BY <1>3 DEF Plan!Renumbered
  <2> HIDE DEF place
  <2>4. row = LegRow(l.id, l.pool, place, l.plan)
    BY <1>1, <2>3 DEF LegRow
  <2>5. row.id = l.id /\ row.pool = l.pool /\ row.seq = place /\ row.plan = l.plan
    BY <2>4 DEF LegRow
  <2> QED BY <1>1, <1>2, <1>3, <2>2, <2>4, <2>5
<1>4. CASE l.id \notin Plan!Range(order)
  <2>1. row = l
    BY <1>4 DEF Plan!Renumbered
  <2> QED BY <1>1, <1>2, <1>4, <2>1
<1> QED BY <1>3, <1>4

\* A reorder renumbers the legs of one trip and changes nothing else.
LEMMA ReorderKeepsPlan ==
  ASSUME PlanInv, NEW t, NEW order \in Plan!Orders, Plan!Reorder(t, order)
  PROVE  PlanInv' /\ PlanKept
<1> DEFINE Moved(l) == Plan!Renumbered(l, order)
<1>1. lastId \in Nat /\ PlanRows(legs, lastId) /\ lastId' = lastId /\ legs' = {Moved(l) : l \in legs}
  BY DEF PlanInv, Plan!Reorder
<1>2. PICK n \in Nat : DOMAIN order = 1..n
  BY OrdersAreLists
<1>3. ASSUME NEW l \in legs
      PROVE  /\ Moved(l).id = l.id /\ Moved(l).pool = l.pool /\ Moved(l).seq \in Nat
             /\ Moved(l) = LegRow(Moved(l).id, Moved(l).pool, Moved(l).seq, Moved(l).plan)
             /\ l.pool = t => Moved(l).seq \in 1..n /\ order[Moved(l).seq] = l.id
             /\ l.pool # t => Moved(l) = l
             /\ l.id \in 1..lastId
  BY <1>2, RenumberedRow
<1> HIDE DEF Moved
<1>5. \A k, l \in legs' : k.id = l.id => k = l
  BY <1>1, <1>3 DEF PlanRows
<1>6. \A k, l \in legs' : k.pool = l.pool /\ k.seq = l.seq => k = l
  <2> SUFFICES ASSUME NEW k \in legs, NEW l \in legs, Moved(k).pool = Moved(l).pool, Moved(k).seq = Moved(l).seq
               PROVE  Moved(k) = Moved(l)
    BY <1>1
  <2>1. k.pool = l.pool
    BY <1>3
  <2>2. CASE l.pool = t
    <3>1. order[Moved(k).seq] = k.id /\ order[Moved(l).seq] = l.id
      BY <1>3, <2>1, <2>2
    <3> QED BY <1>1, <3>1 DEF PlanRows
  <2>3. CASE l.pool # t
    <3>1. Moved(k) = k /\ Moved(l) = l
      BY <1>3, <2>1, <2>3
    <3> QED BY <1>1, <2>1, <3>1 DEF PlanRows
  <2> QED BY <2>2, <2>3
<1>7. \E bound \in Nat : \A l \in legs' : l.seq <= bound
  <2>1. PICK bound \in Nat : \A l \in legs : l.seq <= bound
    BY <1>1 DEF PlanRows
  <2>2. \A l \in legs : Moved(l).seq <= bound + n
    <3> SUFFICES ASSUME NEW l \in legs PROVE Moved(l).seq <= bound + n
      OBVIOUS
    <3>1. Moved(l).seq \in 1..n \/ Moved(l) = l
      BY <1>3
    <3>2. l.seq <= bound /\ l.seq \in Nat /\ Moved(l).seq \in Nat
      BY <1>1, <1>3, <2>1 DEF PlanRows
    <3> QED BY <3>1, <3>2
  <2> QED BY <1>1, <2>2
<1>8. PlanInv'
  <2>1. \A l \in legs' : l = LegRow(l.id, l.pool, l.seq, l.plan) /\ l.id \in 1..lastId /\ l.seq \in Nat
    BY <1>1, <1>3
  <2> QED BY <1>1, <1>5, <1>6, <1>7, <2>1 DEF PlanInv, PlanRows
<1>9. {l.id : l \in legs} = {l.id : l \in legs'}
  BY <1>1, <1>3
<1> QED BY <1>8, <1>9 DEF PlanKept

\* A server that has imported nothing.
LEMMA InitPlan == Plan!Init => PlanInv
BY DEF Plan!Init, PlanInv, PlanRows

\* A batch, cut or not, adds some legs one after the other.
LEMMA UploadKeepsPlan ==
  ASSUME PlanInv, NEW p, NEW files, NEW allow, Plan!Upload(p, files, allow)
  PROVE  PlanInv' /\ PlanKept
<1> DEFINE plans == Plan!InInsertOrder(Plan!Accepted(p, files, allow))
<1>1. PICK done \in 0..(MaxLegs - lastId) : legs' = Plan!WithBatch(p, plans, done) /\ lastId' = lastId + done
  BY DEF Plan!Upload
<1>2. done \in Nat
  BY PlanAssumption DEF PlanInv
<1> HIDE DEF plans
<1>3. legs' = legs \cup {LegRow(lastId + i, p, Plan!NextSeq(p, legs) + i - 1, plans[i]) : i \in 1..done}
  BY <1>1 DEF Plan!WithBatch, LegRow
<1> QED BY <1>1, <1>2, <1>3, AddedComeLast

\* An import from SimBrief adds one.
LEMMA SimbriefKeepsPlan ==
  ASSUME PlanInv, NEW r, NEW plan, NEW released, Plan!SimbriefImported(r, plan, released)
  PROVE  PlanInv' /\ PlanKept
<1> DEFINE p == asked[r].pool
           plans == [i \in 1..1 |-> plan]
           next == Plan!NextSeq(p, legs)
<1>1. legs' = legs \cup {LegRow(lastId + 1, p, next, plan)} /\ lastId' = lastId + 1
  BY DEF Plan!SimbriefImported, Plan!WithLeg, LegRow
<1>2. next \in Nat
  BY NextSeqIsNext DEF PlanInv
<1> HIDE DEF next
<1>3. {LegRow(lastId + i, p, next + i - 1, plans[i]) : i \in 1..1} = {LegRow(lastId + 1, p, next, plan)}
  <2>1. \A i \in 1..1 : i = 1 /\ plans[i] = plan /\ next + i - 1 = next
    BY <1>2
  <2>2. 1 \in 1..1
    OBVIOUS
  <2> HIDE DEF plans
  <2>3. \A i \in 1..1 : LegRow(lastId + i, p, next + i - 1, plans[i]) = LegRow(lastId + 1, p, next, plan)
    BY <2>1
  <2> QED BY <2>2, <2>3
<1> HIDE DEF plans
<1>4. legs' = legs \cup {LegRow(lastId + i, p, next + i - 1, plans[i]) : i \in 1..1}
  BY <1>1, <1>3
<1> QED BY <1>1, <1>4, AddedComeLast DEF next

\* Every step of the imports and of the other writers keeps the order.
LEMMA StepKeepsPlan == PlanInv /\ Plan!Next => PlanInv' /\ PlanKept
<1> SUFFICES ASSUME PlanInv, Plan!Next PROVE PlanInv' /\ PlanKept
  OBVIOUS
<1>1. ASSUME NEW p, NEW files, NEW allow, Plan!Upload(p, files, allow) PROVE PlanInv' /\ PlanKept
  BY <1>1, UploadKeepsPlan
<1>2. ASSUME NEW r, NEW plan, NEW released, Plan!SimbriefImported(r, plan, released) PROVE PlanInv' /\ PlanKept
  BY <1>2, SimbriefKeepsPlan
<1>3. ASSUME NEW l \in legs, Plan!DeleteLeg(l) PROVE PlanInv' /\ PlanKept
  <2>1. legs' \subseteq legs /\ lastId' = lastId
    BY <1>3 DEF Plan!DeleteLeg, Plan!Delete
  <2> QED BY <2>1, GoneLeaveTheOrder
<1>4. ASSUME NEW t, Plan!DeleteTrip(t) PROVE PlanInv' /\ PlanKept
  <2>1. legs' \subseteq legs /\ lastId' = lastId
    BY <1>4 DEF Plan!DeleteTrip, Plan!Delete
  <2> QED BY <2>1, GoneLeaveTheOrder
<1>5. ASSUME NEW t, NEW order \in Plan!Orders, Plan!Reorder(t, order) PROVE PlanInv' /\ PlanKept
  BY <1>5, ReorderKeepsPlan
<1>6. ASSUME UNCHANGED <<legs, lastId>> PROVE PlanInv' /\ PlanKept
  BY <1>6 DEF PlanInv, PlanKept
<1>7. ASSUME NEW r, NEW p, NEW allow, Plan!AskSimbrief(r, p, allow) PROVE UNCHANGED <<legs, lastId>>
  BY <1>7 DEF Plan!AskSimbrief
<1>8. ASSUME NEW r, Plan!SimbriefFails(r) PROVE UNCHANGED <<legs, lastId>>
  BY <1>8 DEF Plan!SimbriefFails
<1>9. ASSUME NEW r, NEW plan, Plan!SimbriefRefused(r, plan) PROVE UNCHANGED <<legs, lastId>>
  BY <1>9 DEF Plan!SimbriefRefused
<1>10. ASSUME Plan!Kill PROVE UNCHANGED <<legs, lastId>>
  BY <1>10 DEF Plan!Kill
<1> QED BY <1>1, <1>2, <1>3, <1>4, <1>5, <1>6, <1>7, <1>8, <1>9, <1>10 DEF Plan!Next

\* The imports' invariant holds throughout.
LEMMA PlanAlways == Spec => []PlanInv
<1>1. Init => PlanInv
  BY InitPlan DEF Init
<1>2. PlanInv /\ [Next]_vars => PlanInv'
  <2>1. CASE PlanNext
    BY <2>1, StepKeepsPlan DEF PlanNext
  <2>2. CASE Next /\ ~PlanNext
    <3>1. UNCHANGED planVars
      BY <2>2 DEF Next, ClockNext, SchemaNext, SignInNext, GroundNext, ReplayNext, FeaturesNext
    <3> QED BY <3>1 DEF PlanInv, planVars
  <2>3. CASE UNCHANGED vars
    BY <2>3 DEF vars, planVars, PlanInv
  <2> QED BY <2>1, <2>2, <2>3
<1> QED BY <1>1, <1>2, PTL DEF Spec

\* createPlannedLeg, reorderPlannedLegs: whatever is imported, cut, deleted and
\* reordered, no two legs of a pool stand at one place.
THEOREM OrderStaysTotal == Spec => []Plan!OrderIsTotal
<1>1. PlanInv => Plan!OrderIsTotal
  BY DEF PlanInv, PlanRows, Plan!OrderIsTotal
<1> QED BY <1>1, PlanAlways, PTL

\* createPlannedLeg, deletePlannedLeg: an import puts its legs behind those of
\* the pool, and neither it nor a deletion moves another leg.
THEOREM ImportsStayAppends == Spec => Plan!ImportsAppend
<1>1. PlanInv /\ [Next]_vars => [PlanKept]_planVars
  <2>1. CASE PlanNext
    BY <2>1, StepKeepsPlan DEF PlanNext
  <2>2. CASE Next /\ ~PlanNext
    BY <2>2 DEF Next, ClockNext, SchemaNext, SignInNext, GroundNext, ReplayNext, FeaturesNext
  <2>3. CASE UNCHANGED vars
    BY <2>3 DEF vars
  <2> QED BY <2>1, <2>2, <2>3
<1>2. [PlanKept]_planVars
         => [{l.id : l \in legs} # {l.id : l \in legs'} =>
               /\ \A k, l \in legs' : k.pool = l.pool /\ k.id <= lastId /\ l.id > lastId => k.seq < l.seq
               /\ \A k, l \in legs \cap legs' : Plan!Before(k, l, legs) => Plan!Before(k, l, legs')]_(Plan!vars)
  BY DEF PlanKept, planVars, Plan!vars
<1> QED BY <1>1, <1>2, PlanAlways, PTL DEF Spec, Plan!ImportsAppend

-----------------------------------------------------------------------------
(* What is imported: which files of a batch, in which order.                *)

\* The files an upload of which nothing may stand twice would insert.
Taken(p, picked, seen) == picked.parses /\ ~(Plan!Imported(p, picked) \/ picked \in Plan!Range(seen))

\* What the scan of the upload has kept after n files.
Scan(p, files, f) ==
  f = [n \in 0..Len(files) |->
         IF n = 0 THEN <<>>
         ELSE IF Taken(p, files[n], f[n - 1]) THEN Append(f[n - 1], files[n]) ELSE f[n - 1]]

\* There is a scan of any upload.
LEMMA ScanSteps ==
  ASSUME NEW p, NEW S, NEW files \in Seq(S)
  PROVE  \E f \in [0..Len(files) -> Seq(S)] : Scan(p, files, f)
<1> DEFINE n0 == Len(files)
           Do(n, s) == IF n + 1 \in 1..n0 /\ Taken(p, files[n + 1], s) THEN Append(s, files[n + 1]) ELSE s
           step == [x \in Nat \X Seq(S) |-> Do(x[1], x[2])]
<1>1. \A n \in Nat, s \in Seq(S) : Do(n, s) \in Seq(S)
  <2> SUFFICES ASSUME NEW n \in Nat, NEW s \in Seq(S) PROVE Do(n, s) \in Seq(S)
    OBVIOUS
  <2>1. CASE n + 1 \in 1..n0 /\ Taken(p, files[n + 1], s)
    <3>1. files[n + 1] \in S
      BY <2>1
    <3> QED BY <2>1, <3>1
  <2>2. CASE ~(n + 1 \in 1..n0 /\ Taken(p, files[n + 1], s))
    BY <2>2
  <2> QED BY <2>1, <2>2
<1>2. \A n \in Nat, s \in Seq(S) : step[<<n, s>>] = Do(n, s)
  <2> HIDE DEF Do
  <2> QED OBVIOUS
<1>3. step \in Steps(Seq(S))
  <2> HIDE DEF Do
  <2>1. \A x \in Nat \X Seq(S) : x[1] \in Nat /\ x[2] \in Seq(S)
    OBVIOUS
  <2> QED BY <1>1, <2>1 DEF Steps
<1> HIDE DEF step
<1>4. n0 \in Nat /\ <<>> \in Seq(S)
  OBVIOUS
<1>a. PICK f : RunUpTo(Seq(S), <<>>, step, n0, f)
  <2> HIDE DEF n0
  <2> QED BY <1>3, <1>4, RecursionSteps
<1>5. f \in [0..n0 -> Seq(S)] /\ f = [n \in 0..n0 |-> IF n = 0 THEN <<>> ELSE step[<<n - 1, f[n - 1]>>]]
  BY <1>a DEF RunUpTo
<1>6. ASSUME NEW n \in 0..n0
      PROVE  f[n] = IF n = 0 THEN <<>> ELSE IF Taken(p, files[n], f[n - 1]) THEN Append(f[n - 1], files[n]) ELSE f[n - 1]
  <2>1. CASE n = 0
    BY <1>5, <2>1
  <2>2. CASE n # 0
    <3>1. n - 1 \in Nat /\ n - 1 \in 0..n0 /\ (n - 1) + 1 = n /\ n \in 1..n0
      BY <1>4, <2>2
    <3>2. f[n] = Do(n - 1, f[n - 1])
      <4>1. f[n - 1] \in Seq(S)
        BY <1>5, <3>1
      <4>2. f[n] = step[<<n - 1, f[n - 1]>>]
        BY <1>5, <2>2
      <4> HIDE DEF Do
      <4> QED BY <1>2, <3>1, <4>1, <4>2
    <3> QED BY <2>2, <3>1, <3>2
  <2> QED BY <2>1, <2>2
<1>7. Scan(p, files, f)
  <2>1. f = [n \in 0..n0 |-> IF n = 0 THEN <<>> ELSE IF Taken(p, files[n], f[n - 1]) THEN Append(f[n - 1], files[n]) ELSE f[n - 1]]
    BY <1>5, <1>6
  <2> QED BY <2>1 DEF Scan
<1> QED BY <1>5, <1>7

\* Of a batch that may not repeat anything, what is kept is the files that
\* parse and do not stand in the pool, each once.
OnceEach(s) == \A i, j \in DOMAIN s : s[i] = s[j] => i = j

Kept(p, files, n, s) ==
  /\ \A i \in DOMAIN s : s[i].parses /\ ~Plan!Imported(p, s[i]) /\ \E j \in 1..n : s[i] = files[j]
  /\ OnceEach(s)
  /\ \A j \in 1..n : files[j].parses /\ ~Plan!Imported(p, files[j]) => files[j] \in Plan!Range(s)

\* One file more leaves what is kept as it should be.
LEMMA KeepingOneMore ==
  ASSUME NEW p, NEW S, NEW files \in Seq(S), NEW n \in Nat, n + 1 \in 1..Len(files),
         NEW s \in Seq(S), Kept(p, files, n, s),
         NEW t, t = IF Taken(p, files[n + 1], s) THEN Append(s, files[n + 1]) ELSE s
  PROVE  Kept(p, files, n + 1, t)
<1> DEFINE picked == files[n + 1]
<1>1. \A j \in 1..(n + 1) : j \in 1..n \/ j = n + 1
  OBVIOUS
<1>2. \A j \in 1..n : j \in 1..(n + 1)
  OBVIOUS
<1>3. n + 1 \in 1..(n + 1)
  OBVIOUS
<1>4. CASE ~Taken(p, picked, s)
  <2>1. t = s
    BY <1>4
  <2>2. picked.parses /\ ~Plan!Imported(p, picked) => picked \in Plan!Range(s)
    BY <1>4 DEF Taken
  <2> QED BY <1>1, <1>2, <2>1, <2>2 DEF Kept
<1>5. CASE Taken(p, picked, s)
  <2>1. t = Append(s, picked) /\ picked \in S
    BY <1>5
  <2> HIDE DEF picked
  <2>2. /\ DOMAIN t = 1..(Len(s) + 1) /\ DOMAIN s = 1..Len(s) /\ Len(s) \in Nat
        /\ t[Len(s) + 1] = picked /\ \A i \in 1..Len(s) : t[i] = s[i]
    BY <2>1
  <2>3. \A i \in DOMAIN t : (i \in DOMAIN s /\ t[i] = s[i]) \/ (i = Len(s) + 1 /\ t[i] = picked)
    BY <2>2
  <2>4. \A i \in DOMAIN s : s[i] # picked
    BY <1>5 DEF Taken, Plan!Range, picked
  <2>5. OnceEach(t)
    <3> SUFFICES ASSUME NEW i \in DOMAIN t, NEW j \in DOMAIN t, t[i] = t[j] PROVE i = j
      BY DEF OnceEach
    <3> QED BY <2>3, <2>4 DEF Kept, OnceEach
  <2>6. picked \in Plan!Range(t) /\ Plan!Range(s) \subseteq Plan!Range(t)
    <3>1. Len(s) + 1 \in DOMAIN t /\ \A i \in DOMAIN s : i \in DOMAIN t /\ t[i] = s[i]
      BY <2>2
    <3> QED BY <2>2, <3>1 DEF Plan!Range
  <2>7. \A i \in DOMAIN t : t[i].parses /\ ~Plan!Imported(p, t[i]) /\ \E j \in 1..(n + 1) : t[i] = files[j]
    <3> SUFFICES ASSUME NEW i \in DOMAIN t
                 PROVE  t[i].parses /\ ~Plan!Imported(p, t[i]) /\ \E j \in 1..(n + 1) : t[i] = files[j]
      OBVIOUS
    <3>1. CASE i \in DOMAIN s /\ t[i] = s[i]
      BY <1>2, <3>1 DEF Kept
    <3>2. CASE t[i] = picked
      <4>1. picked.parses /\ ~Plan!Imported(p, picked)
        BY <1>5 DEF Taken
      <4> QED BY <1>3, <3>2, <4>1 DEF picked
    <3> QED BY <2>3, <3>1, <3>2
  <2>8. \A j \in 1..(n + 1) : files[j].parses /\ ~Plan!Imported(p, files[j]) => files[j] \in Plan!Range(t)
    BY <1>1, <2>6 DEF Kept, picked
  <2> QED BY <2>5, <2>7, <2>8 DEF Kept
<1> QED BY <1>4, <1>5

\* What the route inserts is what a scan of the whole upload keeps.
LEMMA AcceptedIsKept ==
  ASSUME NEW p, NEW S, NEW files \in Seq(S)
  PROVE  /\ Plan!Accepted(p, files, FALSE) \in Seq(S)
         /\ Kept(p, files, Len(files), Plan!Accepted(p, files, FALSE))
<1> DEFINE scan == CHOOSE f : Scan(p, files, f)
<1>1. Plan!Accepted(p, files, FALSE) = scan[Len(files)]
  BY DEF Plan!Accepted, Scan, Taken
<1>2. PICK f \in [0..Len(files) -> Seq(S)] : Scan(p, files, f)
  BY ScanSteps
<1>3. Scan(p, files, scan)
  BY <1>2
<1> HIDE DEF scan
<1> DEFINE Good == {n \in Nat : n \in 0..Len(files) => scan[n] \in Seq(S) /\ Kept(p, files, n, scan[n])}
<1>4. 0 \in Good
  <2>1. scan[0] = <<>>
    BY <1>3 DEF Scan
  <2>2. Kept(p, files, 0, <<>>)
    BY DEF Kept, OnceEach
  <2>3. <<>> \in Seq(S)
    OBVIOUS

  <2>4. scan[0] \in Seq(S) /\ Kept(p, files, 0, scan[0])
    BY <2>1, <2>2, <2>3
  <2> QED BY <2>4
<1>5. ASSUME NEW n \in Nat, n \in Good PROVE n + 1 \in Good
  <2> SUFFICES ASSUME n + 1 \in 0..Len(files) PROVE scan[n + 1] \in Seq(S) /\ Kept(p, files, n + 1, scan[n + 1])
    OBVIOUS
  <2>1. n \in 0..Len(files) /\ n + 1 \in 1..Len(files) /\ (n + 1) - 1 = n /\ n + 1 # 0
    OBVIOUS
  <2>2. scan[n + 1] = IF Taken(p, files[n + 1], scan[n]) THEN Append(scan[n], files[n + 1]) ELSE scan[n]
    BY <1>3, <2>1 DEF Scan
  <2>3. scan[n] \in Seq(S) /\ Kept(p, files, n, scan[n])
    BY <1>5, <2>1
  <2>4. Kept(p, files, n + 1, scan[n + 1])
    BY <2>1, <2>2, <2>3, KeepingOneMore
  <2>5. files[n + 1] \in S
    BY <2>1
  <2>6. scan[n + 1] \in Seq(S)
    BY <2>2, <2>3, <2>5
  <2> QED BY <2>4, <2>6
<1>6. \A n \in Nat : n \in Good
  <2> HIDE DEF Good
  <2> QED BY <1>4, <1>5, AllOfNat
<1>7. Len(files) \in Nat /\ Len(files) \in 0..Len(files)
  OBVIOUS
<1> QED BY <1>1, <1>6, <1>7

\* The walk of chainOrderForBatch(), as a function of its length.
Walks(plans, head, w) ==
  w = [n \in 1..Len(plans) |->
         IF n = 1 THEN <<head>>
         ELSE IF Plan!Cardinality(Plan!Successors(plans, w[n - 1])) = 1 /\ Len(w[n - 1]) = n - 1
              THEN Append(w[n - 1], CHOOSE i \in Plan!Successors(plans, w[n - 1]) : TRUE)
              ELSE w[n - 1]]

\* The only successor is one, and has not been walked.
LEMMA TheOneSuccessor ==
  ASSUME NEW plans, NEW w, Plan!Cardinality(Plan!Successors(plans, w)) = 1
  PROVE  (CHOOSE i \in Plan!Successors(plans, w) : TRUE) \in DOMAIN plans \ Plan!Range(w)
<1>1. Plan!Successors(plans, w) # {}
  <2>1. Plan!Cardinality({}) = 0
    BY FS_EmptySet DEF Plan!Cardinality, Cardinality
  <2> QED BY <2>1
<1>2. Plan!Successors(plans, w) \subseteq DOMAIN plans \ Plan!Range(w)
  BY DEF Plan!Successors
<1> QED BY <1>1, <1>2

\* There is a walk from any head.
LEMMA WalkSteps ==
  ASSUME NEW S, NEW plans \in Seq(S), NEW head \in DOMAIN plans
  PROVE  \E w \in [1..Len(plans) -> Seq(DOMAIN plans)] : Walks(plans, head, w)
<1> DEFINE n0 == Len(plans)
           D == DOMAIN plans
           Next1(s) == Plan!Successors(plans, s)
           Do(n, s) == IF Plan!Cardinality(Next1(s)) = 1 /\ Len(s) = n + 1
                       THEN Append(s, CHOOSE i \in Next1(s) : TRUE) ELSE s
           step == [x \in Nat \X Seq(D) |-> Do(x[1], x[2])]
<1>1. \A n \in Nat, s \in Seq(D) : Do(n, s) \in Seq(D)
  <2> SUFFICES ASSUME NEW n \in Nat, NEW s \in Seq(D) PROVE Do(n, s) \in Seq(D)
    OBVIOUS
  <2>1. CASE Plan!Cardinality(Next1(s)) = 1
    <3>1. (CHOOSE i \in Next1(s) : TRUE) \in D
      BY <2>1, TheOneSuccessor
    <3> HIDE DEF Next1, D
    <3> QED BY <3>1
  <2>2. CASE Plan!Cardinality(Next1(s)) # 1
    BY <2>2
  <2> QED BY <2>1, <2>2
<1>2. \A n \in Nat, s \in Seq(D) : step[<<n, s>>] = Do(n, s)
  <2> HIDE DEF Do, D
  <2> QED OBVIOUS
<1>3. step \in Steps(Seq(D))
  <2> HIDE DEF Do, D
  <2>1. \A x \in Nat \X Seq(D) : x[1] \in Nat /\ x[2] \in Seq(D)
    OBVIOUS
  <2> QED BY <1>1, <2>1 DEF Steps
<1> HIDE DEF step
<1>4. n0 \in Nat /\ <<head>> \in Seq(D) /\ n0 - 1 \in Nat /\ D = 1..n0
  OBVIOUS
<1>a. PICK f : RunUpTo(Seq(D), <<head>>, step, n0 - 1, f)
  <2> HIDE DEF n0, D
  <2> QED BY <1>3, <1>4, RecursionSteps
<1>5. /\ f \in [0..(n0 - 1) -> Seq(D)]
      /\ f = [n \in 0..(n0 - 1) |-> IF n = 0 THEN <<head>> ELSE step[<<n - 1, f[n - 1]>>]]
  BY <1>a DEF RunUpTo
<1> DEFINE w == [n \in 1..n0 |-> f[n - 1]]
<1> HIDE DEF D
<1>6. w \in [1..n0 -> Seq(D)]
  <2>1. \A n \in 1..n0 : n - 1 \in 0..(n0 - 1)
    BY <1>4
  <2> QED BY <1>5, <2>1
<1>7. ASSUME NEW n \in 1..n0
      PROVE  w[n] = IF n = 1 THEN <<head>>
                    ELSE IF Plan!Cardinality(Next1(w[n - 1])) = 1 /\ Len(w[n - 1]) = n - 1
                         THEN Append(w[n - 1], CHOOSE i \in Next1(w[n - 1]) : TRUE)
                         ELSE w[n - 1]
  <2>1. CASE n = 1
    <3>1. 0 \in 0..(n0 - 1) /\ n - 1 = 0
      BY <1>4, <2>1
    <3>2. f[0] = <<head>>
      BY <1>5, <3>1
    <3> QED BY <2>1, <3>1, <3>2
  <2>2. CASE n # 1
    <3>1. /\ n - 1 \in 0..(n0 - 1) /\ n - 1 # 0 /\ (n - 1) - 1 \in Nat /\ n - 1 \in 1..n0
          /\ (n - 1) - 1 \in 0..(n0 - 1) /\ ((n - 1) - 1) + 1 = n - 1
      BY <1>4, <2>2
    <3>2. f[n - 1] = step[<<(n - 1) - 1, f[(n - 1) - 1]>>]
      BY <1>5, <3>1
    <3>3. f[(n - 1) - 1] \in Seq(D)
      BY <1>5, <3>1
    <3>4. w[n] = f[n - 1] /\ w[n - 1] = f[(n - 1) - 1]
      BY <3>1
    <3> HIDE DEF w
    <3>5. w[n] = Do((n - 1) - 1, w[n - 1])
      <4> HIDE DEF Do
      <4> QED BY <1>2, <3>1, <3>2, <3>3, <3>4
    <3> HIDE DEF Next1
    <3> QED BY <2>2, <3>1, <3>5
  <2> QED BY <2>1, <2>2
<1>8. Walks(plans, head, w)
  <2>1. w = [n \in 1..n0 |->
               IF n = 1 THEN <<head>>
               ELSE IF Plan!Cardinality(Next1(w[n - 1])) = 1 /\ Len(w[n - 1]) = n - 1
                    THEN Append(w[n - 1], CHOOSE i \in Next1(w[n - 1]) : TRUE)
                    ELSE w[n - 1]]
    <3> HIDE DEF Next1
    <3>1. DOMAIN w = 1..n0 /\ w = [n \in 1..n0 |-> w[n]]
      BY <1>6
    <3> HIDE DEF w
    <3> QED BY <1>7, <3>1
  <2> QED BY <2>1 DEF Walks
<1> QED BY <1>6, <1>8 DEF D

\* A walk comes to no leg twice.
LEMMA WalkMeetsEachOnce ==
  ASSUME NEW S, NEW plans \in Seq(S), NEW head \in DOMAIN plans,
         NEW w \in [1..Len(plans) -> Seq(DOMAIN plans)], Walks(plans, head, w)
  PROVE  \A n \in 1..Len(plans) : OnceEach(w[n])
<1> DEFINE n0 == Len(plans)
           Good == {n \in Nat : n + 1 \in 1..n0 => OnceEach(w[n + 1])}
<1>1. 0 \in Good
  <2>1. ASSUME 0 + 1 \in 1..n0 PROVE OnceEach(w[0 + 1])
    <3>1. w[1] = <<head>> /\ 0 + 1 = 1
      BY <2>1 DEF Walks
    <3>2. OnceEach(<<head>>)
      BY DEF OnceEach
    <3> QED BY <3>1, <3>2
  <2> QED BY <2>1
<1>2. ASSUME NEW n \in Nat, n \in Good PROVE n + 1 \in Good
  <2> SUFFICES ASSUME (n + 1) + 1 \in 1..n0 PROVE OnceEach(w[(n + 1) + 1])
    OBVIOUS
  <2> DEFINE m == (n + 1) + 1
             s == w[n + 1]
             i == CHOOSE i \in Plan!Successors(plans, s) : TRUE
  <2>1. m \in 1..n0 /\ m # 1 /\ m - 1 = n + 1 /\ n + 1 \in 1..n0
    OBVIOUS
  <2>2. OnceEach(s) /\ s \in Seq(DOMAIN plans)
    BY <1>2, <2>1
  <2>3. w[m] = IF Plan!Cardinality(Plan!Successors(plans, s)) = 1 /\ Len(s) = m - 1 THEN Append(s, i) ELSE s
    BY <2>1 DEF Walks
  <2>4. CASE Plan!Cardinality(Plan!Successors(plans, s)) = 1
    <3>1. i \in DOMAIN plans /\ i \notin Plan!Range(s)
      BY <2>4, TheOneSuccessor
    <3> HIDE DEF i, s
    <3>2. OnceEach(Append(s, i))
      <4>1. \A x \in DOMAIN s : s[x] # i
        BY <3>1 DEF Plan!Range
      <4>2. /\ DOMAIN Append(s, i) = 1..(Len(s) + 1) /\ DOMAIN s = 1..Len(s) /\ Len(s) \in Nat
            /\ Append(s, i)[Len(s) + 1] = i /\ \A x \in 1..Len(s) : Append(s, i)[x] = s[x]
        BY <2>2, <3>1
      <4>3. \A x \in DOMAIN Append(s, i) : (x \in DOMAIN s /\ Append(s, i)[x] = s[x])
                                             \/ (x = Len(s) + 1 /\ Append(s, i)[x] = i)
        BY <4>2
      <4> QED BY <2>2, <4>1, <4>3 DEF OnceEach
    <3> HIDE DEF m
    <3> QED BY <2>2, <2>3, <3>2 DEF m
  <2>5. CASE Plan!Cardinality(Plan!Successors(plans, s)) # 1
    BY <2>2, <2>3, <2>5
  <2> QED BY <2>4, <2>5
<1>3. \A n \in Nat : n \in Good
  <2> HIDE DEF Good
  <2> QED BY <1>1, <1>2, AllOfNat
<1> QED
  <2> SUFFICES ASSUME NEW n \in 1..n0 PROVE OnceEach(w[n])
    OBVIOUS
  <2>1. n - 1 \in Nat /\ (n - 1) + 1 = n
    OBVIOUS
  <2>2. n - 1 \in Good
    BY <1>3, <2>1
  <2> QED BY <2>1, <2>2

\* The order of a batch: the upload's, or a walk that takes in every leg.
LEMMA OrderIsWalkOrUpload ==
  ASSUME NEW plans
  PROVE  \/ Plan!ChainOrderForBatch(plans).order = Plan!UploadOrder(plans)
         \/ /\ Plan!Cardinality(Plan!Heads(plans)) = 1
            /\ Plan!ChainOrderForBatch(plans).order = Plan!Walk(plans, CHOOSE i \in Plan!Heads(plans) : TRUE)
            /\ Len(Plan!Walk(plans, CHOOSE i \in Plan!Heads(plans) : TRUE)) = Len(plans)
<1> DEFINE heads == Plan!Heads(plans)
           walk == Plan!Walk(plans, CHOOSE i \in heads : TRUE)
<1>1. \A reason : Plan!Unresolved(plans, reason).order = Plan!UploadOrder(plans)
  BY DEF Plan!Unresolved
<1> QED BY <1>1 DEF Plan!ChainOrderForBatch

\* The head of a batch is one of its legs.
LEMMA TheOneHead ==
  ASSUME NEW plans, Plan!Cardinality(Plan!Heads(plans)) = 1
  PROVE  (CHOOSE i \in Plan!Heads(plans) : TRUE) \in Plan!Heads(plans) /\ Plan!Heads(plans) \subseteq DOMAIN plans
<1>1. Plan!Heads(plans) # {}
  <2>1. Plan!Cardinality({}) = 0
    BY FS_EmptySet DEF Plan!Cardinality, Cardinality
  <2> QED BY <2>1
<1>2. Plan!Heads(plans) \subseteq DOMAIN plans
  BY DEF Plan!Heads
<1> QED BY <1>1, <1>2

\* A walk from a leg is the last value of such a function.
LEMMA WalkIsWalked ==
  ASSUME NEW S, NEW plans \in Seq(S), NEW head \in DOMAIN plans
  PROVE  \E w \in [1..Len(plans) -> Seq(DOMAIN plans)] :
            Walks(plans, head, w) /\ Plan!Walk(plans, head) = w[Len(plans)]
<1> DEFINE w == CHOOSE w : Walks(plans, head, w)
<1>1. Plan!Walk(plans, head) = w[Len(plans)]
  BY DEF Plan!Walk, Walks
<1>2. PICK f \in [1..Len(plans) -> Seq(DOMAIN plans)] : Walks(plans, head, f)
  BY WalkSteps
<1>3. Walks(plans, head, w)
  BY <1>2
<1> HIDE DEF w
<1> DEFINE D == Seq(DOMAIN plans)
           Good == {n \in Nat : n + 1 \in 1..Len(plans) => w[n + 1] \in D}
<1>4. 0 \in Good
  <2>1. ASSUME 0 + 1 \in 1..Len(plans) PROVE w[0 + 1] \in D
    BY <1>3, <2>1 DEF Walks
  <2> QED BY <2>1
<1>5. ASSUME NEW n \in Nat, n \in Good PROVE n + 1 \in Good
  <2> SUFFICES ASSUME (n + 1) + 1 \in 1..Len(plans) PROVE w[(n + 1) + 1] \in D
    OBVIOUS
  <2> DEFINE m == (n + 1) + 1
             s == w[n + 1]
             i == CHOOSE i \in Plan!Successors(plans, s) : TRUE
  <2>1. m \in 1..Len(plans) /\ m # 1 /\ m - 1 = n + 1 /\ n + 1 \in 1..Len(plans)
    OBVIOUS
  <2>2. s \in Seq(DOMAIN plans)
    BY <1>5, <2>1
  <2>3. w[m] = IF Plan!Cardinality(Plan!Successors(plans, s)) = 1 /\ Len(s) = m - 1 THEN Append(s, i) ELSE s
    BY <1>3, <2>1 DEF Walks
  <2>4. CASE Plan!Cardinality(Plan!Successors(plans, s)) = 1
    <3>1. i \in DOMAIN plans
      BY <2>4, TheOneSuccessor
    <3> HIDE DEF i, s, m
    <3>2. \A X : \A t \in Seq(X), x \in X : Append(t, x) \in Seq(X)
      OBVIOUS
    <3>3. Append(s, i) \in Seq(DOMAIN plans)
      BY <2>2, <3>1, <3>2
    <3>4. w[m] = s \/ w[m] = Append(s, i)
      BY <2>3 DEF i
    <3> QED BY <2>2, <3>3, <3>4 DEF m
  <2>5. CASE Plan!Cardinality(Plan!Successors(plans, s)) # 1
    BY <2>2, <2>3, <2>5
  <2> QED BY <2>4, <2>5
<1>6. \A n \in Nat : n \in Good
  <2> HIDE DEF Good
  <2> QED BY <1>4, <1>5, AllOfNat
<1>7. w \in [1..Len(plans) -> Seq(DOMAIN plans)]
  <2>1. ASSUME NEW n \in 1..Len(plans) PROVE w[n] \in D
    <3>1. n - 1 \in Nat /\ (n - 1) + 1 = n
      OBVIOUS
    <3>2. n - 1 \in Good
      BY <1>6, <3>1
    <3> QED BY <3>1, <3>2
  <2>2. w = [n \in 1..Len(plans) |-> w[n]]
    BY <1>3 DEF Walks
  <2> QED BY <2>1, <2>2
<1> QED BY <1>1, <1>3, <1>7

\* The insert order takes each leg of a batch, and none twice.
LEMMA InsertedOnceEach ==
  ASSUME NEW S, NEW plans \in Seq(S), OnceEach(plans)
  PROVE  /\ DOMAIN Plan!InInsertOrder(plans) = 1..Len(plans) /\ OnceEach(Plan!InInsertOrder(plans))
         /\ \A i \in DOMAIN Plan!InInsertOrder(plans) : \E j \in DOMAIN plans : Plan!InInsertOrder(plans)[i] = plans[j]
<1> DEFINE order == Plan!ChainOrderForBatch(plans).order
           sorted == Plan!InInsertOrder(plans)
           head == CHOOSE i \in Plan!Heads(plans) : TRUE
<1>1. sorted = [i \in DOMAIN plans |-> plans[order[i]]]
  BY DEF Plan!InInsertOrder
<1>2. OnceEach(order) /\ DOMAIN order = DOMAIN plans /\ \A i \in DOMAIN plans : order[i] \in DOMAIN plans
  <2>1. CASE order = Plan!UploadOrder(plans)
    BY <2>1 DEF Plan!UploadOrder, OnceEach
  <2>2. CASE /\ Plan!Cardinality(Plan!Heads(plans)) = 1 /\ order = Plan!Walk(plans, head)
             /\ Len(Plan!Walk(plans, head)) = Len(plans)
    <3>1. head \in DOMAIN plans
      BY <2>2, TheOneHead
    <3> HIDE DEF head, order
    <3>2. PICK w \in [1..Len(plans) -> Seq(DOMAIN plans)] :
            Walks(plans, head, w) /\ Plan!Walk(plans, head) = w[Len(plans)]
      BY <3>1, WalkIsWalked
    <3>3. Len(plans) \in 1..Len(plans) /\ DOMAIN plans = 1..Len(plans)
      BY <3>1
    <3>4. order \in Seq(DOMAIN plans) /\ Len(order) = Len(plans) /\ OnceEach(order)
      BY <2>2, <3>1, <3>2, <3>3, WalkMeetsEachOnce
    <3> QED BY <3>3, <3>4
  <2> QED BY <2>1, <2>2, OrderIsWalkOrUpload
<1> HIDE DEF order
<1>3. DOMAIN sorted = 1..Len(plans) /\ DOMAIN plans = 1..Len(plans)
  BY <1>1
<1>4. \A i \in DOMAIN sorted : sorted[i] = plans[order[i]]
  BY <1>1
<1> HIDE DEF sorted
<1>5. OnceEach(sorted)
  BY <1>2, <1>3, <1>4 DEF OnceEach
<1>6. \A i \in DOMAIN sorted : \E j \in DOMAIN plans : sorted[i] = plans[j]
  BY <1>2, <1>3, <1>4
<1> QED BY <1>3, <1>5, <1>6 DEF sorted

\* c is a route of n legs: each file once, end to end, from where none arrives.
Route(files, n, c) ==
  /\ DOMAIN c = 1..n /\ (\A i \in 1..n : c[i] \in files) /\ \A i, j \in 1..n : c[i] = c[j] => i = j
  /\ \A f \in files : \E i \in 1..n : f = c[i]
  /\ \A i \in 2..n : c[i - 1].to = c[i].from
  /\ \A g \in files : g.to # c[1].from

\* Where a leg of a route leaves from, the one before it arrives, and no other.
LEMMA RouteIsSimple ==
  ASSUME NEW files, NEW n \in Nat, NEW c, Plan!Simple(files), Route(files, n, c),
         NEW i \in 1..n, NEW j \in 1..n
  PROVE  /\ c[i].from = c[j].from => i = j
         /\ c[i].to = c[j].from => i + 1 = j
<1>1. c[i] \in files /\ c[j] \in files /\ (c[i] = c[j] => i = j)
  BY DEF Route
<1>2. c[i].from = c[j].from => i = j
  BY <1>1 DEF Plan!Simple
<1>3. ASSUME c[i].to = c[j].from PROVE i + 1 = j
  <2>1. j # 1
    BY <1>1, <1>3 DEF Route
  <2>2. j \in 2..n /\ j - 1 \in 1..n
    BY <2>1
  <2>3. c[j - 1].to = c[j].from /\ c[j - 1] \in files /\ (c[j - 1] = c[i] => j - 1 = i)
    BY <2>2 DEF Route
  <2>4. c[j - 1] = c[i]
    BY <1>1, <1>3, <2>3 DEF Plan!Simple
  <2> QED BY <2>3, <2>4
<1> QED BY <1>2, <1>3

\* The rest of a route after m legs, in any order.
Rest(plans, n, c, m) ==
  /\ OnceEach(plans)
  /\ \A i \in DOMAIN plans : \E q \in (m + 1)..n : plans[i] = c[q]
  /\ \A q \in (m + 1)..n : \E i \in DOMAIN plans : plans[i] = c[q]

\* What is left of a route has as many plans as the route has places.
LEMMA RestIsAsLong ==
  ASSUME NEW files, NEW n \in Nat, NEW c, Route(files, n, c), NEW m \in 0..n,
         NEW plans \in Seq(files), Rest(plans, n, c, m)
  PROVE  Len(plans) = n - m
<1> DEFINE place == [i \in DOMAIN plans |-> CHOOSE q \in (m + 1)..n : plans[i] = c[q]]
<1>1. \A i \in DOMAIN plans : place[i] \in (m + 1)..n /\ plans[i] = c[place[i]]
  BY DEF Rest
<1>2. DOMAIN plans = 1..Len(plans) /\ Len(plans) \in Nat /\ DOMAIN place = DOMAIN plans
  OBVIOUS
<1>3. \A q \in (m + 1)..n : q \in 1..n
  OBVIOUS
<1>4. place \in [1..Len(plans) -> (m + 1)..n]
  BY <1>1, <1>2
<1> HIDE DEF place
<1>5. \A i, j \in 1..Len(plans) : place[i] = place[j] => i = j
  <2> SUFFICES ASSUME NEW i \in 1..Len(plans), NEW j \in 1..Len(plans), place[i] = place[j] PROVE i = j
    OBVIOUS
  <2>1. i \in DOMAIN plans /\ j \in DOMAIN plans
    BY <1>2
  <2>2. plans[i] = plans[j]
    BY <1>1, <2>1
  <2> QED BY <2>1, <2>2 DEF Rest, OnceEach
<1>6. \A q \in (m + 1)..n : \E i \in 1..Len(plans) : place[i] = q
  <2> SUFFICES ASSUME NEW q \in (m + 1)..n PROVE \E i \in 1..Len(plans) : place[i] = q
    OBVIOUS
  <2>1. PICK i \in DOMAIN plans : plans[i] = c[q]
    BY DEF Rest
  <2>2. place[i] \in 1..n /\ q \in 1..n /\ c[place[i]] = c[q]
    BY <1>1, <1>3, <2>1
  <2> QED BY <1>2, <2>1, <2>2 DEF Route
<1>7. ExistsBijection(1..Len(plans), (m + 1)..n)
  <2>1. place \in Bijection(1..Len(plans), (m + 1)..n)
    BY <1>4, <1>5, <1>6 DEF Bijection, Injection, Surjection, IsInjective
  <2> QED BY <2>1 DEF ExistsBijection
<1>8. IsFiniteSet(1..Len(plans)) /\ Cardinality(1..Len(plans)) = Len(plans)
  <2>1. 1 \in Int /\ Len(plans) \in Int /\ (1 > Len(plans) => Len(plans) = 0) /\ Len(plans) - 1 + 1 = Len(plans)
    BY <1>2
  <2> QED BY <2>1, FS_Interval
<1>9. Cardinality((m + 1)..n) = n - m
  <2>1. m + 1 \in Int /\ n \in Int /\ (m + 1 > n => n - m = 0) /\ n - (m + 1) + 1 = n - m
    OBVIOUS
  <2> QED BY <2>1, FS_Interval
<1> QED BY <1>7, <1>8, <1>9, FS_Bijection

\* chainOrderForBatch() finds the head of the rest of a route.
LEMMA TheHeadIsFound ==
  ASSUME NEW files, NEW n \in Nat, NEW c, Plan!Simple(files), Route(files, n, c), NEW m \in 0..n, m < n,
         NEW plans \in Seq(files), Rest(plans, n, c, m)
  PROVE  \E h \in DOMAIN plans : plans[h] = c[m + 1] /\ Plan!Heads(plans) = {h}
<1>1. m + 1 \in (m + 1)..n /\ m + 1 \in 1..n
  OBVIOUS
<1>2. PICK h \in DOMAIN plans : plans[h] = c[m + 1]
  BY <1>1 DEF Rest
<1>3. h \in Plan!Heads(plans)
  <2> SUFFICES ASSUME NEW j \in DOMAIN plans, plans[j].to = plans[h].from PROVE FALSE
    BY DEF Plan!Heads
  <2>1. PICK q \in (m + 1)..n : plans[j] = c[q]
    BY DEF Rest
  <2>2. q \in 1..n /\ q + 1 # m + 1
    BY <2>1
  <2> QED BY <1>1, <1>2, <2>1, <2>2, RouteIsSimple
<1>4. ASSUME NEW i \in Plan!Heads(plans) PROVE i = h
  <2>1. i \in DOMAIN plans /\ \A j \in DOMAIN plans : plans[j].to # plans[i].from
    BY DEF Plan!Heads
  <2>2. PICK q \in (m + 1)..n : plans[i] = c[q]
    BY <2>1 DEF Rest
  <2>3. CASE q = m + 1
    BY <1>2, <2>1, <2>2, <2>3 DEF Rest, OnceEach
  <2>4. CASE q # m + 1
    <3>1. q \in 2..n /\ q - 1 \in (m + 1)..n
      BY <2>4
    <3>2. PICK j \in DOMAIN plans : plans[j] = c[q - 1]
      BY <3>1 DEF Rest
    <3>3. c[q - 1].to = c[q].from
      BY <3>1 DEF Route
    <3> QED BY <2>1, <2>2, <3>2, <3>3
  <2> QED BY <2>3, <2>4
<1> QED BY <1>2, <1>3, <1>4

\* From the first k legs of the rest there is one leg to go on with: the next.
LEMMA TheNextIsFound ==
  ASSUME NEW files, NEW n \in Nat, NEW c, Plan!Simple(files), Route(files, n, c), NEW m \in 0..n,
         NEW plans \in Seq(files), Rest(plans, n, c, m),
         NEW k \in Nat, k # 0, m + k < n, NEW s \in Seq(DOMAIN plans), Len(s) = k,
         \A x \in 1..k : plans[s[x]] = c[m + x]
  PROVE  \E i \in DOMAIN plans : plans[i] = c[m + k + 1] /\ Plan!Successors(plans, s) = {i}
<1> DEFINE next == m + k + 1
<1>1. next \in (m + 1)..n /\ next \in 1..n /\ m + k \in 1..n /\ m + k \in Nat /\ (m + k) + 1 = next /\ k \in 1..k
  OBVIOUS
<1>2. DOMAIN s = 1..k /\ \A x \in 1..k : s[x] \in DOMAIN plans /\ m + x \in 1..n /\ m + x # next
  OBVIOUS
<1> HIDE DEF next
<1>3. PICK i \in DOMAIN plans : plans[i] = c[next]
  BY <1>1 DEF Rest
<1>4. plans[s[Len(s)]].to = c[next].from
  <2>1. plans[s[Len(s)]] = c[m + k]
    BY <1>1
  <2>2. next \in 2..n /\ next - 1 = m + k
    BY <1>1 DEF next
  <2>3. c[next - 1].to = c[next].from
    BY <2>2 DEF Route
  <2> QED BY <2>1, <2>2, <2>3
<1>5. i \in Plan!Successors(plans, s)
  <2>1. i \notin Plan!Range(s)
    <3> SUFFICES ASSUME NEW x \in DOMAIN s, i = s[x] PROVE FALSE
      BY DEF Plan!Range
    <3>1. c[m + x] = c[next] /\ m + x \in 1..n /\ m + x # next
      BY <1>2, <1>3
    <3> QED BY <1>1, <3>1 DEF Route
  <2> QED BY <1>3, <1>4, <2>1 DEF Plan!Successors
<1>6. ASSUME NEW j \in Plan!Successors(plans, s) PROVE j = i
  <2>1. j \in DOMAIN plans /\ plans[j].from = c[next].from
    BY <1>4 DEF Plan!Successors
  <2>2. PICK q \in (m + 1)..n : plans[j] = c[q]
    BY <2>1 DEF Rest
  <2>3. q \in 1..n
    BY <2>2
  <2>4. q = next
    BY <1>1, <2>1, <2>2, <2>3, RouteIsSimple
  <2> QED BY <1>3, <2>1, <2>2, <2>4 DEF Rest, OnceEach
<1> QED BY <1>3, <1>5, <1>6 DEF next

\* So it walks the rest of the route.
LEMMA TheWalkIsTheRoute ==
  ASSUME NEW files, NEW n \in Nat, NEW c, Plan!Simple(files), Route(files, n, c), NEW m \in 0..n,
         NEW plans \in Seq(files), Rest(plans, n, c, m), NEW head \in DOMAIN plans, plans[head] = c[m + 1],
         NEW w \in [1..Len(plans) -> Seq(DOMAIN plans)], Walks(plans, head, w)
  PROVE  \A k \in 1..Len(plans) : Len(w[k]) = k /\ \A x \in 1..k : plans[w[k][x]] = c[m + x]
<1> DEFINE L == Len(plans)
           Right(k, s) == Len(s) = k /\ \A x \in 1..k : plans[s[x]] = c[m + x]
           Good == {k \in Nat : k + 1 \in 1..L => Right(k + 1, w[k + 1])}
<1>1. L = n - m /\ L \in Nat /\ n - m \in Nat
  <2>1. Len(plans) = n - m
    BY RestIsAsLong
  <2> QED BY <2>1
<1> HIDE DEF L
<1>2. 0 \in Good
  <2>1. ASSUME 0 + 1 \in 1..L PROVE Right(0 + 1, w[0 + 1])
    <3>1. w[1] = <<head>> /\ 0 + 1 = 1
      BY <2>1 DEF Walks, L
    <3>2. Len(<<head>>) = 1 /\ <<head>>[1] = head /\ \A x \in 1..1 : x = 1
      OBVIOUS
    <3> QED BY <3>1, <3>2
  <2> QED BY <2>1
<1>3. ASSUME NEW k \in Nat, k \in Good PROVE k + 1 \in Good
  <2> SUFFICES ASSUME (k + 1) + 1 \in 1..L PROVE Right((k + 1) + 1, w[(k + 1) + 1])
    OBVIOUS
  <2> DEFINE at1 == k + 1
             s == w[at1]
             next == Plan!Successors(plans, s)
             i == CHOOSE i \in next : TRUE
  <2>1. /\ at1 + 1 \in 1..L /\ at1 + 1 # 1 /\ (at1 + 1) - 1 = at1 /\ at1 \in 1..L /\ at1 \in Nat /\ at1 # 0
        /\ m + at1 < n
    BY <1>1
  <2>2. s \in Seq(DOMAIN plans)
    BY <2>1 DEF L
  <2>3. Len(s) = at1 /\ \A x \in 1..at1 : plans[s[x]] = c[m + x]
    BY <1>3, <2>1
  <2> HIDE DEF at1
  <2>4. w[at1 + 1] = IF Plan!Cardinality(next) = 1 /\ Len(s) = (at1 + 1) - 1 THEN Append(s, i) ELSE s
    BY <2>1 DEF Walks, L
  <2> HIDE DEF s
  <2>5. PICK y \in DOMAIN plans : plans[y] = c[m + at1 + 1] /\ next = {y}
    BY <2>1, <2>2, <2>3, TheNextIsFound
  <2>6. Plan!Cardinality(next) = 1
    <3>1. Plan!Cardinality({y}) = 1
      BY FS_Singleton DEF Plan!Cardinality, Cardinality
    <3> QED BY <2>5, <3>1
  <2>7. i = y
    BY <2>5
  <2> HIDE DEF i, next
  <2>8. w[at1 + 1] = Append(s, y)
    BY <2>1, <2>3, <2>4, <2>6, <2>7
  <2>9. \A X : \A t \in Seq(X), z \in X :
           /\ Len(Append(t, z)) = Len(t) + 1 /\ Append(t, z)[Len(t) + 1] = z
           /\ \A x \in 1..Len(t) : Append(t, z)[x] = t[x]
    OBVIOUS
  <2>10. /\ Len(Append(s, y)) = at1 + 1 /\ Append(s, y)[at1 + 1] = y
         /\ \A x \in 1..at1 : Append(s, y)[x] = s[x]
    BY <2>2, <2>3, <2>5, <2>9
  <2>11. \A x \in 1..(at1 + 1) : x \in 1..at1 \/ x = at1 + 1
    BY <2>1
  <2>12. m + (at1 + 1) = m + at1 + 1
    BY <2>1
  <2>13. Right(at1 + 1, Append(s, y))
    BY <2>3, <2>5, <2>10, <2>11, <2>12
  <2> QED BY <2>8, <2>13 DEF at1
<1>4. \A k \in Nat : k \in Good
  <2> HIDE DEF Good
  <2> QED BY <1>2, <1>3, AllOfNat
<1> QED
  <2> SUFFICES ASSUME NEW k \in 1..L PROVE Right(k, w[k])
    BY DEF L
  <2>1. k - 1 \in Nat /\ (k - 1) + 1 = k
    BY <1>1
  <2>2. k - 1 \in Good
    BY <1>4, <2>1
  <2> QED BY <2>1, <2>2

\* chainOrderForBatch() inserts what is left of a route in its order, however
\* the files were picked.
LEMMA TheRouteIsInserted ==
  ASSUME NEW files, NEW n \in Nat, NEW c, Plan!Simple(files), Route(files, n, c), NEW m \in 0..n,
         NEW plans \in Seq(files), Rest(plans, n, c, m)
  PROVE  /\ DOMAIN Plan!InInsertOrder(plans) = 1..(n - m)
         /\ \A i \in 1..(n - m) : Plan!InInsertOrder(plans)[i] = c[m + i]
<1> DEFINE order == Plan!ChainOrderForBatch(plans).order
<1>1. Plan!InInsertOrder(plans) = [i \in DOMAIN plans |-> plans[order[i]]]
  BY DEF Plan!InInsertOrder
<1>2. Len(plans) = n - m /\ n - m \in Nat /\ DOMAIN plans = 1..(n - m)
  BY RestIsAsLong
<1>3. \A i \in DOMAIN plans : plans[order[i]] = c[m + i]
  <2>1. CASE n - m < 2
    <3>1. order = [i \in DOMAIN plans |-> i]
      BY <1>2, <2>1 DEF Plan!ChainOrderForBatch, Plan!UploadOrder
    <3> SUFFICES ASSUME NEW i \in DOMAIN plans PROVE plans[i] = c[m + i]
      BY <3>1
    <3>2. PICK q \in (m + 1)..n : plans[i] = c[q]
      BY DEF Rest
    <3>3. q = m + i
      BY <1>2, <2>1
    <3> QED BY <3>2, <3>3
  <2>2. CASE n - m >= 2
    <3>1. m < n
      BY <2>2
    <3>2. PICK h \in DOMAIN plans : plans[h] = c[m + 1] /\ Plan!Heads(plans) = {h}
      BY <3>1, TheHeadIsFound
    <3>3. Plan!Cardinality(Plan!Heads(plans)) = 1 /\ (CHOOSE i \in Plan!Heads(plans) : TRUE) = h
      <4>1. Plan!Cardinality({h}) = 1
        BY FS_Singleton DEF Plan!Cardinality, Cardinality
      <4>2. (CHOOSE i \in {h} : TRUE) = h
        OBVIOUS
      <4> QED BY <3>2, <4>1, <4>2
    <3>4. PICK w \in [1..Len(plans) -> Seq(DOMAIN plans)] :
            Walks(plans, h, w) /\ Plan!Walk(plans, h) = w[Len(plans)]
      BY WalkIsWalked
    <3>5. Len(plans) \in 1..Len(plans)
      BY <1>2, <2>2
    <3>6. /\ Len(Plan!Walk(plans, h)) = Len(plans)
          /\ \A x \in 1..Len(plans) : plans[Plan!Walk(plans, h)[x]] = c[m + x]
      <4>1. \A k \in 1..Len(plans) : Len(w[k]) = k /\ \A x \in 1..k : plans[w[k][x]] = c[m + x]
        <5>1. w \in [1..Len(plans) -> Seq(DOMAIN plans)] /\ Walks(plans, h, w) /\ plans[h] = c[m + 1]
          BY <3>2, <3>4
        <5> QED BY <5>1, TheWalkIsTheRoute
      <4>2. Plan!Walk(plans, h) = w[Len(plans)]
        BY <3>4
      <4> QED BY <3>5, <4>1, <4>2
    <3>7. ~\E i \in DOMAIN plans : ~plans[i].airports
      <4>1. \A i \in DOMAIN plans : plans[i] \in files
        BY <1>2
      <4> QED BY <4>1 DEF Plan!Simple
    <3>8. ~(Len(plans) < 2)
      BY <1>2, <2>2
    <3>9. order = Plan!Walk(plans, h)
      BY <3>3, <3>6, <3>7, <3>8 DEF Plan!ChainOrderForBatch
    <3> QED BY <1>2, <3>6, <3>9
  <2> QED BY <1>2, <2>1, <2>2
<1> HIDE DEF order
<1> QED BY <1>1, <1>2, <1>3

\* The legs of a pool stand on a route as its first m, in its order.
Standing(rs, n, c, m) ==
  /\ \A l \in rs : \E i \in 1..m : l.plan = c[i]
  /\ \A i \in 1..m : \E l \in rs : l.plan = c[i]
  /\ \A k, l \in rs, i, j \in 1..m : k.plan = c[i] /\ l.plan = c[j] /\ i < j => k.seq < l.seq

OnRoutes(files, rs) ==
  \A n \in Nat : \A c : Plan!Simple(files) /\ Route(files, n, c) => \E m \in 0..n : Standing(rs, n, c, m)

\* A pool that got one set of files and nothing else has some of them; the
\* others are NULL.
PoolInv(p, got, rs) ==
  got # NULL =>
    /\ got \subseteq Files /\ IsFiniteSet(got)
    /\ got = {} => rs = {}
    /\ OnRoutes(got, rs)

RouteInv ==
  /\ trips \subseteq Trips
  /\ DOMAIN batch = Plan!Pools
  /\ Plan!OnePlanOnce
  /\ \A p \in Plan!Pools : PoolInv(p, batch[p], Plan!LegsOf(p, legs))

\* What the invariant says of the order, said as the property does.
LEMMA InvRoute == RouteInv => Plan!OnePlanOnce /\ Plan!RouteOrderSurvivesRetries
<1> SUFFICES ASSUME RouteInv,
                    NEW p \in Plan!Pools, batch[p] # NULL, Plan!Chains(batch[p]),
                    NEW k \in Plan!LegsOf(p, legs), NEW l \in Plan!LegsOf(p, legs), k.plan.to = l.plan.from
             PROVE  k.seq < l.seq
  BY DEF RouteInv, Plan!RouteOrderSurvivesRetries
<1> DEFINE got == batch[p]
           rs == Plan!LegsOf(p, legs)
           n == Plan!Cardinality(got)
<1>1. PoolInv(p, got, rs)
  BY DEF RouteInv
<1>2. Plan!Simple(got) /\ Plan!Routes(got) # {}
  BY DEF Plan!Chains
<1>3. IsFiniteSet(got) /\ OnRoutes(got, rs)
  BY <1>1 DEF PoolInv
<1> HIDE DEF got, rs
<1>4. n \in Nat
  BY <1>3, FS_CardinalityType DEF Plan!Cardinality, Cardinality
<1>5. PICK c \in Plan!Routes(got) : TRUE
  BY <1>2
<1>6. Route(got, n, c)
  <2>1. /\ c \in Plan!Injection(1..n, got) /\ Plan!Range(c) = got
        /\ \A i \in 2..n : c[i - 1].to = c[i].from
        /\ \A g \in got : g.to # c[1].from
    BY <1>5 DEF Plan!Routes
  <2> HIDE DEF n
  <2>2. c \in [1..n -> got] /\ \A i, j \in 1..n : c[i] = c[j] => i = j
    BY <2>1 DEF Plan!Injection, Plan!IsInjective
  <2>3. \A f \in got : \E i \in 1..n : f = c[i]
    BY <2>1, <2>2 DEF Plan!Range
  <2> QED BY <2>1, <2>2, <2>3 DEF Route
<1> HIDE DEF n
<1>7. PICK m \in 0..n : Standing(rs, n, c, m)
  BY <1>2, <1>3, <1>4, <1>6 DEF OnRoutes
<1>8. k \in rs /\ l \in rs
  BY DEF rs
<1>9. PICK i \in 1..m : k.plan = c[i]
  BY <1>7, <1>8 DEF Standing
<1>10. PICK j \in 1..m : l.plan = c[j]
  BY <1>7, <1>8 DEF Standing
<1>11. i \in 1..n /\ j \in 1..n
  BY <1>4
<1>12. i + 1 = j
  BY <1>2, <1>4, <1>6, <1>9, <1>10, <1>11, RouteIsSimple
<1>13. i < j
  BY <1>11, <1>12
<1> QED BY <1>7, <1>8, <1>9, <1>10, <1>13 DEF Standing

\* Before anything is imported.
LEMMA InitRoute == Plan!Init => RouteInv
<1> SUFFICES ASSUME Plan!Init PROVE RouteInv
  OBVIOUS
<1>1. legs = {} /\ batch = [p \in Plan!Pools |-> {}] /\ trips = Trips
  BY DEF Plan!Init
<1>2. Plan!OnePlanOnce
  BY <1>1 DEF Plan!OnePlanOnce
<1>3. OnRoutes({}, {})
  <2> SUFFICES ASSUME NEW n \in Nat, NEW c PROVE \E m \in 0..n : Standing({}, n, c, m)
    BY DEF OnRoutes
  <2>1. Standing({}, n, c, 0) /\ 0 \in 0..n
    BY DEF Standing
  <2> QED BY <2>1
<1>4. \A p \in Plan!Pools : PoolInv(p, batch[p], Plan!LegsOf(p, legs))
  BY <1>1, <1>3, FS_EmptySet DEF PoolInv, Plan!LegsOf
<1> QED BY <1>1, <1>2, <1>4 DEF RouteInv

\* What a batch inserts.
Inserted(p, plans, next, done) == {LegRow(lastId + i, p, next + i - 1, plans[i]) : i \in 1..done}

\* A batch of a route goes on where the last one was cut.
LEMMA BatchGoesOn ==
  ASSUME PlanInv, NEW p, NEW files \in Seq(Files), NEW n \in Nat, NEW c,
         Plan!Simple(Plan!Range(files)), Route(Plan!Range(files), n, c),
         NEW m \in 0..n, Standing(Plan!LegsOf(p, legs), n, c, m),
         NEW plans, plans = Plan!InInsertOrder(Plan!Accepted(p, files, FALSE)),
         NEW done \in Nat, done <= Len(plans),
         legs' = legs \cup Inserted(p, plans, Plan!NextSeq(p, legs), done)
  PROVE  \E m1 \in 0..n : Standing(Plan!LegsOf(p, legs'), n, c, m1)
<1> DEFINE S == Plan!Range(files)
           rs == Plan!LegsOf(p, legs)
           taken == Plan!Accepted(p, files, FALSE)
           next == Plan!NextSeq(p, legs)
           New(i) == LegRow(lastId + i, p, next + i - 1, plans[i])
<1>1. files \in Seq(S) /\ \A f \in S : \E j \in 1..Len(files) : f = files[j]
  <2>1. files \in [1..Len(files) -> S] /\ Len(files) \in Nat /\ DOMAIN files = 1..Len(files)
    BY DEF Plan!Range
  <2>2. \A f \in S : \E j \in 1..Len(files) : f = files[j]
    BY <2>1 DEF Plan!Range
  <2> HIDE DEF S
  <2>3. files \in Seq(S)
    BY <2>1
  <2> QED BY <2>2, <2>3
<1>2. \A f \in S : f.parses
  BY DEF Plan!Simple
<1>3. taken \in Seq(S) /\ Kept(p, files, Len(files), taken)
  <2> HIDE DEF S
  <2> QED BY <1>1, AcceptedIsKept
<1>4. \A f : Plan!Imported(p, f) <=> \E i \in 1..m : f = c[i]
  BY DEF Plan!Imported, Standing
<1>5. \A i \in 1..m : i \in 1..n
  OBVIOUS
<1>6. Rest(taken, n, c, m)
  <2>1. OnceEach(taken)
    BY <1>3 DEF Kept
  <2>2. ASSUME NEW i \in DOMAIN taken PROVE \E q \in (m + 1)..n : taken[i] = c[q]
    <3>1. taken[i] \in S /\ ~Plan!Imported(p, taken[i])
      <4>1. \A X : \A t \in Seq(X) : \A j \in DOMAIN t : t[j] \in X
        OBVIOUS
      <4> HIDE DEF S, taken
      <4> QED BY <1>3, <4>1 DEF Kept
    <3>2. PICK q \in 1..n : taken[i] = c[q]
      BY <3>1 DEF Route
    <3>3. q \notin 1..m
      BY <1>4, <3>1, <3>2
    <3>4. q \in (m + 1)..n
      BY <3>3
    <3> QED BY <3>2, <3>4
  <2>3. ASSUME NEW q \in (m + 1)..n PROVE \E i \in DOMAIN taken : taken[i] = c[q]
    <3>1. q \in 1..n /\ \A i \in 1..m : i # q
      OBVIOUS
    <3>2. c[q] \in S /\ \A i \in 1..m : c[i] # c[q]
      BY <1>5, <3>1 DEF Route
    <3>3. ~Plan!Imported(p, c[q])
      BY <1>4, <3>2
    <3>4. PICK j \in 1..Len(files) : c[q] = files[j]
      BY <1>1, <3>2
    <3>5. c[q] \in Plan!Range(taken)
      BY <1>2, <1>3, <3>2, <3>3, <3>4 DEF Kept
    <3> QED BY <3>5 DEF Plan!Range
  <2> QED BY <2>1, <2>2, <2>3 DEF Rest
<1>7. DOMAIN plans = 1..(n - m) /\ \A i \in 1..(n - m) : plans[i] = c[m + i]
  <2>1. Plan!Simple(S) /\ Route(S, n, c) /\ plans = Plan!InInsertOrder(taken)
    OBVIOUS
  <2> HIDE DEF S, taken
  <2>2. taken \in Seq(S)
    BY <1>3
  <2>3. /\ DOMAIN Plan!InInsertOrder(taken) = 1..(n - m)
        /\ \A i \in 1..(n - m) : Plan!InInsertOrder(taken)[i] = c[m + i]
    BY <1>6, <2>1, <2>2, TheRouteIsInserted
  <2> QED BY <2>1, <2>3
<1>8. done <= n - m
  <2>1. n - m \in Nat
    OBVIOUS
  <2>2. plans = [i \in DOMAIN Plan!Accepted(p, files, FALSE) |->
                   Plan!Accepted(p, files, FALSE)[Plan!ChainOrderForBatch(Plan!Accepted(p, files, FALSE)).order[i]]]
    BY DEF Plan!InInsertOrder
  <2>3. plans \in [1..(n - m) -> {plans[i] : i \in 1..(n - m)}]
    BY <1>7, <2>2
  <2>4. \A k \in Nat : \A X : \A f \in [1..k -> X] : Len(f) = k
    OBVIOUS
  <2> QED BY <2>1, <2>3, <2>4
<1>9. next \in Nat /\ \A l \in rs : l.seq < next /\ l.seq \in Nat
  BY NextSeqIsNext DEF PlanInv, PlanRows, Plan!LegsOf
<1> HIDE DEF next
<1>10. ASSUME NEW i \in 1..done
       PROVE  New(i).plan = c[m + i] /\ New(i).seq = next + i - 1 /\ New(i).pool = p /\ m + i \in (m + 1)..(m + done)
  <2>1. i \in 1..(n - m)
    BY <1>8
  <2>2. New(i).plan = plans[i] /\ New(i).seq = next + i - 1 /\ New(i).pool = p
    BY DEF LegRow
  <2>3. m + i \in (m + 1)..(m + done)
    OBVIOUS
  <2> HIDE DEF New
  <2> QED BY <1>7, <2>1, <2>2, <2>3
<1>11. Plan!LegsOf(p, legs') = rs \cup {New(i) : i \in 1..done}
  <2>1. legs' = legs \cup {New(i) : i \in 1..done}
    BY DEF Inserted, next
  <2>2. \A i \in 1..done : New(i).pool = p
    BY <1>10
  <2> HIDE DEF New
  <2> QED BY <2>1, <2>2 DEF Plan!LegsOf
<1> HIDE DEF New, rs, S, taken
<1> DEFINE m1 == m + done
           now1 == Plan!LegsOf(p, legs')
<1>12. m1 \in 0..n /\ \A q \in 1..m1 : q \in 1..n /\ (q \in 1..m \/ \E i \in 1..done : q = m + i)
  <2> SUFFICES ASSUME NEW q \in 1..m1 PROVE q \in 1..m \/ \E i \in 1..done : q = m + i
    BY <1>8
  <2>1. CASE q > m
    <3>1. q - m \in 1..done /\ q = m + (q - m)
      BY <2>1
    <3> QED BY <3>1
  <2> QED BY <2>1
<1>13. \A l \in now1 : \E i \in 1..m1 : l.plan = c[i]
  <2> SUFFICES ASSUME NEW l \in now1 PROVE \E i \in 1..m1 : l.plan = c[i]
    OBVIOUS
  <2>1. CASE l \in rs
    <3>1. PICK i \in 1..m : l.plan = c[i]
      BY <2>1 DEF Standing, rs
    <3>2. i \in 1..m1
      OBVIOUS
    <3> QED BY <3>1, <3>2
  <2>2. ASSUME NEW i \in 1..done, l = New(i) PROVE \E q \in 1..m1 : l.plan = c[q]
    <3>1. m + i \in 1..m1
      OBVIOUS
    <3> QED BY <1>10, <2>2, <3>1
  <2> QED BY <1>11, <2>1, <2>2
<1>14. \A q \in 1..m1 : \E l \in now1 : l.plan = c[q]
  <2> SUFFICES ASSUME NEW q \in 1..m1 PROVE \E l \in now1 : l.plan = c[q]
    OBVIOUS
  <2>1. CASE q \in 1..m
    BY <1>11, <2>1 DEF Standing, rs
  <2>2. ASSUME NEW i \in 1..done, q = m + i PROVE \E l \in now1 : l.plan = c[q]
    BY <1>10, <1>11, <2>2
  <2> QED BY <1>12, <2>1, <2>2
<1>15. ASSUME NEW k \in now1, NEW l \in now1, NEW i \in 1..m1, NEW j \in 1..m1, k.plan = c[i], l.plan = c[j], i < j
       PROVE  k.seq < l.seq
  <2>0. i \in 1..n /\ j \in 1..n
    BY <1>12
  <2>1. ASSUME NEW x \in rs, NEW y \in 1..m1, x.plan = c[y] PROVE y \in 1..m
    <3>1. PICK z \in 1..m : x.plan = c[z]
      BY DEF Standing, rs
    <3>2. y \in 1..n /\ z \in 1..n /\ c[y] = c[z]
      BY <1>12, <2>1, <3>1
    <3> QED BY <3>1, <3>2 DEF Route
  <2>2. ASSUME NEW x \in 1..done, NEW y \in 1..m1, New(x).plan = c[y] PROVE y = m + x
    <3>1. m + x \in 1..n /\ y \in 1..n /\ c[y] = c[m + x]
      BY <1>8, <1>10, <1>12, <2>2
    <3> QED BY <3>1 DEF Route
  <2>3. CASE k \in rs /\ l \in rs
    <3>1. i \in 1..m /\ j \in 1..m
      BY <1>15, <2>1, <2>3
    <3> QED BY <1>15, <2>3, <3>1 DEF Standing, rs
  <2>4. ASSUME k \in rs, NEW y \in 1..done, l = New(y) PROVE k.seq < l.seq
    <3>1. k.seq < next /\ k.seq \in Nat /\ l.seq = next + y - 1 /\ y >= 1
      BY <1>9, <1>10, <2>4
    <3> QED BY <1>9, <3>1
  <2>5. ASSUME NEW x \in 1..done, k = New(x), l \in rs PROVE FALSE
    <3>1. i = m + x /\ j \in 1..m
      BY <1>15, <2>1, <2>2, <2>5
    <3> QED BY <1>15, <3>1
  <2>6. ASSUME NEW x \in 1..done, k = New(x), NEW y \in 1..done, l = New(y) PROVE k.seq < l.seq
    <3>1. i = m + x /\ j = m + y /\ k.seq = next + x - 1 /\ l.seq = next + y - 1
      BY <1>10, <1>15, <2>2, <2>6
    <3> QED BY <1>9, <1>15, <3>1
  <2> QED BY <1>11, <2>3, <2>4, <2>5, <2>6
<1>16. Standing(now1, n, c, m1)
  BY <1>13, <1>14, <1>15 DEF Standing
<1> QED BY <1>12, <1>16

\* Plans of which none stands in the pool, and none twice among them.
NewOnes(p, plans, done) ==
  /\ \A i \in 1..done : ~Plan!Imported(p, plans[i])
  /\ \A i, j \in 1..done : plans[i] = plans[j] => i = j

\* Rows that get a plan each, none of which stands in the pool or twice among
\* them, or each of which was imported with allow_duplicates.
LEMMA OnePlanMore ==
  ASSUME PlanInv, Plan!OnePlanOnce, NEW p, NEW plans, NEW next, NEW done \in Nat,
         legs' = legs \cup Inserted(p, plans, next, done), forced \subseteq forced',
         (\A i \in 1..done : <<p, plans[i]>> \in forced') \/ NewOnes(p, plans, done)
  PROVE  Plan!OnePlanOnce'
<1> DEFINE New(i) == LegRow(lastId + i, p, next + i - 1, plans[i])
<1>1. \A i \in 1..done : New(i).pool = p /\ New(i).plan = plans[i]
  BY DEF LegRow
<1>2. \A l \in legs' : l \in legs \/ \E i \in 1..done : l = New(i)
  BY DEF Inserted
<1>3. \A l \in legs : \A i \in 1..done : l.pool = p /\ l.plan = plans[i] => Plan!Imported(p, plans[i])
  BY DEF Plan!Imported, Plan!LegsOf
<1> HIDE DEF New
<1> SUFFICES ASSUME NEW k \in legs', NEW l \in legs', k.pool = l.pool, k.plan = l.plan, k # l
             PROVE  <<k.pool, k.plan>> \in forced'
  BY DEF Plan!OnePlanOnce
<1>4. CASE k \in legs /\ l \in legs
  BY <1>4 DEF Plan!OnePlanOnce
<1>5. ASSUME k \in legs, NEW j \in 1..done, l = New(j) PROVE <<k.pool, k.plan>> \in forced'
  BY <1>1, <1>3, <1>5 DEF NewOnes
<1>6. ASSUME NEW i \in 1..done, k = New(i), l \in legs PROVE <<k.pool, k.plan>> \in forced'
  BY <1>1, <1>3, <1>6 DEF NewOnes
<1>7. ASSUME NEW i \in 1..done, k = New(i), NEW j \in 1..done, l = New(j) PROVE <<k.pool, k.plan>> \in forced'
  BY <1>1, <1>7 DEF NewOnes
<1> QED BY <1>2, <1>4, <1>5, <1>6, <1>7

\* The other pools of an insertion, a deletion or a reorder.
LEMMA OtherPoolsKeepRoute ==
  ASSUME RouteInv, NEW p,
         batch' = [batch EXCEPT ![p] = NULL],
         \A q \in Plan!Pools : q # p => Plan!LegsOf(q, legs') = Plan!LegsOf(q, legs)
  PROVE  DOMAIN batch' = Plan!Pools /\ \A q \in Plan!Pools : PoolInv(q, batch'[q], Plan!LegsOf(q, legs'))
<1>1. DOMAIN batch' = Plan!Pools
  BY DEF RouteInv
<1> SUFFICES ASSUME NEW q \in Plan!Pools PROVE PoolInv(q, batch'[q], Plan!LegsOf(q, legs'))
  BY <1>1
<1>2. CASE q = p
  BY <1>2 DEF RouteInv, PoolInv
<1>3. CASE q # p
  BY <1>3 DEF RouteInv
<1> QED BY <1>2, <1>3

\* A batch touches one pool.
LEMMA InsertedElsewhere ==
  ASSUME NEW p, NEW plans, NEW next, NEW done, legs' = legs \cup Inserted(p, plans, next, done)
  PROVE  \A q \in Plan!Pools : q # p => Plan!LegsOf(q, legs') = Plan!LegsOf(q, legs)
<1>1. \A l \in Inserted(p, plans, next, done) : l.pool = p
  BY DEF Inserted, LegRow
<1> QED BY <1>1 DEF Plan!LegsOf

\* A batch inserts nothing twice unasked.
LEMMA BatchIsInserted ==
  ASSUME NEW p, NEW files \in Seq(Files),
         NEW plans, plans = Plan!InInsertOrder(Plan!Accepted(p, files, FALSE)),
         NEW done \in Nat, done <= Len(plans)
  PROVE  NewOnes(p, plans, done) /\ (files = <<>> => done = 0)
<1> DEFINE taken == Plan!Accepted(p, files, FALSE)
<1>1. taken \in Seq(Files) /\ Kept(p, files, Len(files), taken)
  BY AcceptedIsKept
<1>2. plans = Plan!InInsertOrder(taken)
  OBVIOUS
<1> HIDE DEF taken
<1>3. OnceEach(taken)
  BY <1>1 DEF Kept
<1>4. /\ DOMAIN plans = 1..Len(taken) /\ OnceEach(plans)
      /\ \A i \in DOMAIN plans : \E j \in DOMAIN taken : plans[i] = taken[j]
  <2>1. taken \in Seq(Files)
    BY <1>1
  <2>2. /\ DOMAIN Plan!InInsertOrder(taken) = 1..Len(taken) /\ OnceEach(Plan!InInsertOrder(taken))
        /\ \A i \in DOMAIN Plan!InInsertOrder(taken) : \E j \in DOMAIN taken : Plan!InInsertOrder(taken)[i] = taken[j]
    BY <1>3, <2>1, InsertedOnceEach
  <2> QED BY <1>2, <2>2
<1>5. Len(plans) = Len(taken)
  <2>1. plans = [i \in DOMAIN taken |-> taken[Plan!ChainOrderForBatch(taken).order[i]]]
    BY <1>2 DEF Plan!InInsertOrder
  <2>2. plans \in [1..Len(taken) -> {plans[i] : i \in 1..Len(taken)}]
    BY <1>4, <2>1
  <2>3. \A k \in Nat : \A X : \A f \in [1..k -> X] : Len(f) = k
    OBVIOUS
  <2>4. Len(taken) \in Nat
    BY <1>1
  <2> QED BY <2>2, <2>3, <2>4
<1>6. \A i \in 1..done : i \in DOMAIN plans
  <2>1. Len(taken) \in Nat
    BY <1>1
  <2>2. done <= Len(taken)
    BY <1>5
  <2>3. \A i \in 1..done : i \in 1..Len(taken)
    BY <2>1, <2>2
  <2> QED BY <1>4, <2>3
<1>7. \A i \in 1..done : ~Plan!Imported(p, plans[i])
  BY <1>1, <1>4, <1>6 DEF Kept
<1>8. \A i, j \in 1..done : plans[i] = plans[j] => i = j
  BY <1>4, <1>6 DEF OnceEach
<1>9. ASSUME files = <<>> PROVE done = 0
  <2>1. \A i \in DOMAIN taken : FALSE
    BY <1>1, <1>9 DEF Kept
  <2>2. DOMAIN taken = 1..Len(taken) /\ Len(taken) \in Nat
    BY <1>1
  <2>3. Len(taken) = 0
    <3>1. Len(taken) # 0 => 1 \in 1..Len(taken)
      BY <2>2
    <3> QED BY <2>1, <2>2, <3>1
  <2>4. done <= 0
    BY <1>5, <2>3
  <2> QED BY <2>4
<1> QED BY <1>7, <1>8, <1>9 DEF NewOnes

\* A batch of files.
LEMMA UploadKeepsRoute ==
  ASSUME PlanInv, RouteInv, NEW p \in Plan!Pools, NEW files \in Uploads, NEW allow \in BOOLEAN,
         Plan!Upload(p, files, allow)
  PROVE  RouteInv'
<1> DEFINE plans == Plan!InInsertOrder(Plan!Accepted(p, files, allow))
           next == Plan!NextSeq(p, legs)
           S == Plan!Range(files)
<1>1. PICK done \in 0..(MaxLegs - lastId) :
        /\ done <= Len(plans) /\ legs' = Plan!WithBatch(p, plans, done) /\ lastId' = lastId + done
        /\ IF allow
           THEN forced' = forced \cup {<<p, plans[i]>> : i \in 1..done} /\ Plan!Edited(p)
           ELSE /\ batch' = [batch EXCEPT ![p] = IF @ \in {{}, S} THEN S ELSE NULL]
                /\ UNCHANGED forced
  BY DEF Plan!Upload
<1>2. done \in Nat /\ files \in Seq(Files) /\ trips' = trips
  BY <1>1, PlanAssumption DEF PlanInv, Plan!Upload
<1>3. legs' = legs \cup Inserted(p, plans, next, done)
  BY <1>1 DEF Plan!WithBatch, Inserted, LegRow
<1>4. \A q \in Plan!Pools : q # p => Plan!LegsOf(q, legs') = Plan!LegsOf(q, legs)
  BY <1>3, InsertedElsewhere
<1>5. CASE allow
  <2>1. batch' = [batch EXCEPT ![p] = NULL]
    BY <1>1, <1>5 DEF Plan!Edited
  <2>2. forced \subseteq forced' /\ \A i \in 1..done : <<p, plans[i]>> \in forced'
    BY <1>1, <1>5
  <2> HIDE DEF plans, next
  <2>3. Plan!OnePlanOnce'
    BY <1>2, <1>3, <2>2, OnePlanMore DEF RouteInv
  <2>4. DOMAIN batch' = Plan!Pools /\ \A q \in Plan!Pools : PoolInv(q, batch'[q], Plan!LegsOf(q, legs'))
    BY <1>4, <2>1, OtherPoolsKeepRoute
  <2> QED BY <1>2, <2>3, <2>4 DEF RouteInv
<1>6. CASE ~allow
  <2>1. plans = Plan!InInsertOrder(Plan!Accepted(p, files, FALSE))
    <3>1. allow = FALSE
      BY <1>6
    <3> QED BY <3>1
  <2> HIDE DEF plans
  <2>2. NewOnes(p, plans, done) /\ (files = <<>> => done = 0)
    <3>1. done \in Nat /\ done <= Len(plans) /\ files \in Seq(Files)
      BY <1>1, <1>2
    <3> QED BY <2>1, <3>1, BatchIsInserted
  <2>3. forced' = forced /\ batch' = [batch EXCEPT ![p] = IF @ \in {{}, S} THEN S ELSE NULL]
    BY <1>1, <1>6
  <2> HIDE DEF next
  <2>4. Plan!OnePlanOnce'
    BY <1>2, <1>3, <2>2, <2>3, OnePlanMore DEF RouteInv
  <2>5. DOMAIN batch' = Plan!Pools
    BY <2>3 DEF RouteInv
  <2>6. ASSUME NEW q \in Plan!Pools, q # p PROVE PoolInv(q, batch'[q], Plan!LegsOf(q, legs'))
    BY <1>4, <2>3, <2>6 DEF RouteInv
  <2>7. PoolInv(p, batch'[p], Plan!LegsOf(p, legs'))
    <3>1. batch'[p] = IF batch[p] \in {{}, S} THEN S ELSE NULL
      BY <2>3 DEF RouteInv
    <3>2. CASE batch[p] \notin {{}, S}
      BY <3>1, <3>2 DEF PoolInv
    <3>3. CASE batch[p] \in {{}, S}
      <4>1. batch'[p] = S
        BY <3>1, <3>3
      <4>2. S \subseteq Files /\ IsFiniteSet(S)
        <5>1. files \in [1..Len(files) -> Files] /\ Len(files) \in Nat
          BY <1>2
        <5>2. S \subseteq Files /\ files \in Surjection(1..Len(files), S)
          BY <5>1 DEF Plan!Range, Surjection
        <5>3. IsFiniteSet(1..Len(files))
          BY <5>1, FS_Interval
        <5> QED BY <5>2, <5>3, FS_Surjection
      <4>3. batch[p] # NULL
        BY <3>3, <4>2, PlanAssumption
      <4>4. batch[p] = {} => Plan!LegsOf(p, legs) = {}
        BY <4>3 DEF RouteInv, PoolInv
      <4>5. S = {} => Plan!LegsOf(p, legs') = {}
        <5> SUFFICES ASSUME S = {} PROVE Plan!LegsOf(p, legs') = {}
          OBVIOUS
        <5>1. files = <<>>
          <6>1. \A i \in DOMAIN files : files[i] \in S
            BY DEF Plan!Range
          <6>2. DOMAIN files = {}
            BY <6>1
          <6> QED BY <1>2, <6>2
        <5>2. legs' = legs
          BY <1>3, <2>2, <5>1 DEF Inserted
        <5> QED BY <3>3, <4>4, <5>2
      <4>6. OnRoutes(S, Plan!LegsOf(p, legs'))
        <5> SUFFICES ASSUME NEW n \in Nat, NEW c, Plan!Simple(S), Route(S, n, c)
                     PROVE  \E m \in 0..n : Standing(Plan!LegsOf(p, legs'), n, c, m)
          BY DEF OnRoutes
        <5>1. PICK m \in 0..n : Standing(Plan!LegsOf(p, legs), n, c, m)
          <6>1. CASE batch[p] = {}
            <7>1. Standing({}, n, c, 0) /\ 0 \in 0..n
              BY DEF Standing
            <7> QED BY <4>4, <6>1, <7>1
          <6>2. CASE batch[p] = S
            BY <4>3, <6>2 DEF RouteInv, PoolInv, OnRoutes
          <6> QED BY <3>3, <6>1, <6>2
        <5> QED BY <1>1, <1>2, <1>3, <2>1, <5>1, BatchGoesOn DEF next
      <4> QED BY <4>1, <4>2, <4>5, <4>6 DEF PoolInv
    <3> QED BY <3>2, <3>3
  <2> QED BY <1>2, <2>4, <2>5, <2>6, <2>7 DEF RouteInv
<1> QED BY <1>5, <1>6

\* An answer of SimBrief.
LEMMA SimbriefKeepsRoute ==
  ASSUME PlanInv, RouteInv, NEW r, NEW plan, NEW released, Plan!SimbriefImported(r, plan, released)
  PROVE  RouteInv'
<1> DEFINE p == asked[r].pool
           plans == [i \in 1..1 |-> plan]
           next == Plan!NextSeq(p, legs)
<1>1. /\ legs' = legs \cup {LegRow(lastId + 1, p, next, plan)} /\ batch' = [batch EXCEPT ![p] = NULL]
      /\ forced' = IF asked[r].allow THEN forced \cup {<<p, plan>>} ELSE forced
      /\ trips' = trips /\ (asked[r].allow \/ ~Plan!Imported(p, plan))
  BY DEF Plan!SimbriefImported, Plan!Refused, Plan!WithLeg, LegRow
<1>2. next \in Nat
  BY NextSeqIsNext DEF PlanInv
<1> HIDE DEF next, p
<1>3. plans[1] = plan /\ \A i \in 1..1 : i = 1
  OBVIOUS
<1> HIDE DEF plans
<1>4. legs' = legs \cup Inserted(p, plans, next, 1)
  <2>1. lastId + 1 = lastId + 1 /\ next + 1 - 1 = next
    BY <1>2
  <2>2. Inserted(p, plans, next, 1) = {LegRow(lastId + 1, p, next, plan)}
    <3>1. \A i \in 1..1 : LegRow(lastId + i, p, next + i - 1, plans[i]) = LegRow(lastId + 1, p, next, plan)
      BY <1>3, <2>1
    <3>2. 1 \in 1..1
      OBVIOUS
    <3> QED BY <3>1, <3>2 DEF Inserted
  <2> QED BY <1>1, <2>2
<1>5. \A q \in Plan!Pools : q # p => Plan!LegsOf(q, legs') = Plan!LegsOf(q, legs)
  BY <1>4, InsertedElsewhere
<1>6. forced \subseteq forced'
  BY <1>1
<1>7. (\A i \in 1..1 : <<p, plans[i]>> \in forced') \/ NewOnes(p, plans, 1)
  BY <1>1, <1>3 DEF NewOnes
<1>8. Plan!OnePlanOnce'
  <2>1. 1 \in Nat
    OBVIOUS
  <2> QED BY <1>4, <1>6, <1>7, <2>1, OnePlanMore DEF RouteInv
<1>9. DOMAIN batch' = Plan!Pools /\ \A q \in Plan!Pools : PoolInv(q, batch'[q], Plan!LegsOf(q, legs'))
  BY <1>1, <1>5, OtherPoolsKeepRoute
<1> QED BY <1>1, <1>8, <1>9 DEF RouteInv

\* Legs of one pool that go.
LEMMA GoneKeepRoute ==
  ASSUME RouteInv, NEW p, legs' \subseteq legs, \A l \in legs : l.pool # p => l \in legs',
         batch' = [batch EXCEPT ![p] = NULL], forced' = forced, trips' \subseteq trips
  PROVE  RouteInv'
<1>1. \A q \in Plan!Pools : q # p => Plan!LegsOf(q, legs') = Plan!LegsOf(q, legs)
  BY DEF Plan!LegsOf
<1>2. DOMAIN batch' = Plan!Pools /\ \A q \in Plan!Pools : PoolInv(q, batch'[q], Plan!LegsOf(q, legs'))
  BY <1>1, OtherPoolsKeepRoute
<1>3. Plan!OnePlanOnce'
  BY DEF RouteInv, Plan!OnePlanOnce
<1> QED BY <1>2, <1>3 DEF RouteInv

\* An edited list is no longer claimed to be a route, and the others are
\* untouched.
LEMMA ReorderKeepsRoute ==
  ASSUME PlanInv, RouteInv, NEW t, NEW order \in Plan!Orders, Plan!Reorder(t, order)
  PROVE  RouteInv'
<1> DEFINE Moved(l) == Plan!Renumbered(l, order)
<1>1. /\ legs' = {Moved(l) : l \in legs} /\ batch' = [batch EXCEPT ![t] = NULL] /\ forced' = forced
      /\ trips' = trips
  BY DEF Plan!Reorder, Plan!Edited
<1>2. PICK n \in Nat : DOMAIN order = 1..n
  BY OrdersAreLists
<1>3. ASSUME NEW l \in legs
      PROVE  Moved(l).pool = l.pool /\ Moved(l).plan = l.plan /\ (l.pool # t => Moved(l) = l)
  BY <1>2, RenumberedRow
<1> HIDE DEF Moved
<1>4. \A q \in Plan!Pools : q # t => Plan!LegsOf(q, legs') = Plan!LegsOf(q, legs)
  BY <1>1, <1>3 DEF Plan!LegsOf
<1>5. DOMAIN batch' = Plan!Pools /\ \A q \in Plan!Pools : PoolInv(q, batch'[q], Plan!LegsOf(q, legs'))
  BY <1>1, <1>4, OtherPoolsKeepRoute
<1>6. Plan!OnePlanOnce'
  <2> SUFFICES ASSUME NEW k \in legs, NEW l \in legs, Moved(k).pool = Moved(l).pool,
                      Moved(k).plan = Moved(l).plan, Moved(k) # Moved(l)
               PROVE  <<Moved(k).pool, Moved(k).plan>> \in forced
    BY <1>1 DEF Plan!OnePlanOnce
  <2> QED BY <1>3 DEF RouteInv, Plan!OnePlanOnce
<1> QED BY <1>1, <1>5, <1>6 DEF RouteInv

\* Every step of the imports keeps the routes.
LEMMA StutterKeepsRoute == RouteInv /\ UNCHANGED <<trips, legs, forced, batch>> => RouteInv'
BY DEF RouteInv, Plan!OnePlanOnce

\* So every step of the planner keeps it.
LEMMA StepKeepsRoute == PlanInv /\ RouteInv /\ Plan!Next => RouteInv'
<1> SUFFICES ASSUME PlanInv, RouteInv, Plan!Next PROVE RouteInv'
  OBVIOUS
<1>1. ASSUME NEW p \in Plan!Pools, NEW files \in Uploads, NEW allow \in BOOLEAN, Plan!Upload(p, files, allow)
      PROVE  RouteInv'
  BY <1>1, UploadKeepsRoute
<1>2. ASSUME NEW r, NEW plan, NEW released, Plan!SimbriefImported(r, plan, released) PROVE RouteInv'
  BY <1>2, SimbriefKeepsRoute
<1>3. ASSUME NEW l \in legs, Plan!DeleteLeg(l) PROVE RouteInv'
  <2>1. legs' = legs \ {l} /\ batch' = [batch EXCEPT ![l.pool] = NULL] /\ forced' = forced /\ trips' = trips
    BY <1>3 DEF Plan!DeleteLeg, Plan!Delete, Plan!Edited
  <2> QED BY <2>1, GoneKeepRoute
<1>4. ASSUME NEW t, Plan!DeleteTrip(t) PROVE RouteInv'
  <2>1. /\ legs' = legs \ Plan!LegsOf(t, legs) /\ batch' = [batch EXCEPT ![t] = NULL]
        /\ forced' = forced /\ trips' \subseteq trips
    BY <1>4 DEF Plan!DeleteTrip, Plan!Delete, Plan!Edited
  <2>2. \A l \in legs : l.pool # t => l \in legs'
    BY <2>1 DEF Plan!LegsOf
  <2> QED BY <2>1, <2>2, GoneKeepRoute
<1>5. ASSUME NEW t, NEW order \in Plan!Orders, Plan!Reorder(t, order) PROVE RouteInv'
  BY <1>5, ReorderKeepsRoute
<1>6. ASSUME NEW r, NEW p, NEW allow, Plan!AskSimbrief(r, p, allow) PROVE RouteInv'
  BY <1>6, StutterKeepsRoute DEF Plan!AskSimbrief
<1>7. ASSUME NEW r, Plan!SimbriefFails(r) PROVE RouteInv'
  BY <1>7, StutterKeepsRoute DEF Plan!SimbriefFails
<1>8. ASSUME NEW r, NEW plan, Plan!SimbriefRefused(r, plan) PROVE RouteInv'
  BY <1>8, StutterKeepsRoute DEF Plan!SimbriefRefused
<1>9. CASE Plan!Kill
  BY <1>9, StutterKeepsRoute DEF Plan!Kill
<1> QED BY <1>1, <1>2, <1>3, <1>4, <1>5, <1>6, <1>7, <1>8, <1>9 DEF Plan!Next

\* It holds in every state.
LEMMA RouteAlways == Spec => []RouteInv
<1>1. Init => RouteInv
  BY InitRoute DEF Init
<1>2. PlanInv /\ RouteInv /\ [Next]_vars => RouteInv'
  <2>1. CASE PlanNext
    BY <2>1, StepKeepsRoute DEF PlanNext
  <2>2. CASE Next /\ ~PlanNext
    <3>1. UNCHANGED planVars
      BY <2>2 DEF Next, ClockNext, SchemaNext, SignInNext, GroundNext, ReplayNext, FeaturesNext
    <3> QED BY <3>1, StutterKeepsRoute DEF planVars
  <2>3. CASE UNCHANGED vars
    BY <2>3, StutterKeepsRoute DEF vars, planVars
  <2> QED BY <2>1, <2>2, <2>3
<1> QED BY <1>1, <1>2, PlanAlways, PTL DEF Spec

\* POST /trips/:id/planned-legs, /planned-legs and .../simbrief: whatever is
\* imported, cut, killed, sent again, deleted and reordered, the order of a pool
\* is total, no plan is there twice that nobody asked to repeat, and a route that
\* was uploaded stands in its order however it was picked and cut.
THEOREM PlansStayInOrder == Spec => []PlansStandInOrder
<1>1. PlanInv => Plan!OrderIsTotal
  BY DEF PlanInv, PlanRows, Plan!OrderIsTotal
<1>2. PlanInv /\ RouteInv => PlansStandInOrder
  BY <1>1, InvRoute DEF PlansStandInOrder
<1> QED BY <1>2, PlanAlways, RouteAlways, PTL

-----------------------------------------------------------------------------
(* The order of any batch: a walk along the only leg that follows.          *)

\* A walk that took in every leg, from the head on.
FullWalk(plans, head, w) ==
  /\ w \in [1..Len(plans) -> Seq(DOMAIN plans)] /\ Walks(plans, head, w)
  /\ Len(w[Len(plans)]) = Len(plans)

\* Such a walk took one leg after the other, each the only one to go on with.
Grown(plans, head, w) ==
  /\ w[1] = <<head>>
  /\ \A k \in 1..Len(plans) : Len(w[k]) = k
  /\ \A k \in 2..Len(plans) : /\ Plan!Cardinality(Plan!Successors(plans, w[k - 1])) = 1
                              /\ w[k] = Append(w[k - 1], CHOOSE i \in Plan!Successors(plans, w[k - 1]) : TRUE)

\* A walk is at most as long as its place, grows by the one successor or not at
\* all, and one that took in every leg grew each time.
LEMMA FullWalksGrow ==
  ASSUME NEW S, NEW plans \in Seq(S), NEW head \in DOMAIN plans,
         NEW w, FullWalk(plans, head, w)
  PROVE  Grown(plans, head, w)
<1> w \in [1..Len(plans) -> Seq(DOMAIN plans)] /\ Walks(plans, head, w) /\ Len(w[Len(plans)]) = Len(plans)
  BY DEF FullWalk
<1> DEFINE n == Len(plans)
           Grows(k) == Plan!Cardinality(Plan!Successors(plans, w[k - 1])) = 1 /\ Len(w[k - 1]) = k - 1
           More(k) == Append(w[k - 1], CHOOSE i \in Plan!Successors(plans, w[k - 1]) : TRUE)
<1>0. n \in Nat /\ n \in 1..n /\ 1 \in 1..n /\ DOMAIN plans = 1..n
  OBVIOUS
<1>1. w[1] = <<head>>
  BY <1>0 DEF Walks
<1>2. \A k \in 2..n : w[k] = IF Grows(k) THEN More(k) ELSE w[k - 1]
  <2> SUFFICES ASSUME NEW k \in 2..n PROVE w[k] = IF Grows(k) THEN More(k) ELSE w[k - 1]
    OBVIOUS
  <2>1. k \in 1..n /\ k # 1
    BY <1>0
  <2> QED BY <2>1 DEF Walks
<1>3. \A k \in 1..n : w[k] \in Seq(DOMAIN plans) /\ Len(w[k]) \in Nat
  <2>1. \A X : \A t \in Seq(X) : Len(t) \in Nat
    OBVIOUS
  <2>2. \A k \in 1..n : w[k] \in Seq(DOMAIN plans)
    OBVIOUS
  <2> QED BY <2>1, <2>2
<1>4. \A k \in 2..n : Grows(k) => Len(More(k)) = k
  <2> SUFFICES ASSUME NEW k \in 2..n, Grows(k) PROVE Len(More(k)) = k
    OBVIOUS
  <2>1. (CHOOSE i \in Plan!Successors(plans, w[k - 1]) : TRUE) \in DOMAIN plans
    BY TheOneSuccessor
  <2>2. w[k - 1] \in Seq(DOMAIN plans) /\ Len(w[k - 1]) = k - 1 /\ (k - 1) + 1 = k
    BY <1>3
  <2>3. \A X : \A t \in Seq(X), z \in X : Len(Append(t, z)) = Len(t) + 1
    OBVIOUS
  <2> QED BY <2>1, <2>2, <2>3
<1> HIDE DEF n, Grows, More
<1>5. \A k \in 1..n : Len(w[k]) <= k
  <2> DEFINE Good == {m \in Nat : m + 1 \in 1..n => Len(w[m + 1]) <= m + 1}
  <2>1. 0 \in Good
    <3>1. Len(<<head>>) = 1 /\ 0 + 1 = 1 /\ 0 \in Nat
      OBVIOUS
    <3>2. w[0 + 1] = <<head>>
      BY <1>1, <3>1
    <3>3. Len(w[0 + 1]) = 1
      BY <3>1, <3>2
    <3>4. Len(w[0 + 1]) <= 0 + 1
      BY <3>3
    <3> QED BY <3>1, <3>4
  <2>2. ASSUME NEW m \in Nat, m \in Good PROVE m + 1 \in Good
    <3> SUFFICES ASSUME (m + 1) + 1 \in 1..n PROVE Len(w[(m + 1) + 1]) <= (m + 1) + 1
      OBVIOUS
    <3> DEFINE k == (m + 1) + 1
    <3>1. k \in 2..n /\ k - 1 = m + 1 /\ m + 1 \in 1..n /\ k \in Nat
      BY <1>0
    <3>2. Len(w[k - 1]) <= k - 1 /\ Len(w[k - 1]) \in Nat
      BY <1>3, <2>2, <3>1
    <3> HIDE DEF k
    <3>3. Len(w[k]) <= k
      BY <1>2, <1>4, <3>1, <3>2
    <3> QED BY <3>3 DEF k
  <2>3. \A m \in Nat : m \in Good
    <3> HIDE DEF Good
    <3> QED BY <2>1, <2>2, AllOfNat
  <2> SUFFICES ASSUME NEW k \in 1..n PROVE Len(w[k]) <= k
    OBVIOUS
  <2>4. k - 1 \in Nat /\ (k - 1) + 1 = k
    BY <1>0
  <2>5. k - 1 \in Good
    BY <2>3, <2>4
  <2> QED BY <2>4, <2>5
<1>6. \A k \in 1..n : Len(w[k]) = k
  <2> DEFINE Good == {m \in Nat : n - m \in 1..n => Len(w[n - m]) = n - m}
  <2>1. 0 \in Good
    <3>1. n - 0 = n
      BY <1>0
    <3> QED BY <3>1 DEF n
  <2>2. ASSUME NEW m \in Nat, m \in Good PROVE m + 1 \in Good
    <3> SUFFICES ASSUME n - (m + 1) \in 1..n PROVE Len(w[n - (m + 1)]) = n - (m + 1)
      OBVIOUS
    <3> DEFINE k == n - m
    <3>1. k \in 2..n /\ k - 1 = n - (m + 1) /\ k \in 1..n /\ k \in Nat /\ k - 1 \in 1..n
      BY <1>0
    <3>2. Len(w[k]) = k /\ Len(w[k - 1]) <= k - 1
      BY <1>5, <2>2, <3>1
    <3> HIDE DEF k
    <3>3. Len(w[k - 1]) = k - 1
      <4>1. CASE Grows(k)
        BY <4>1 DEF Grows
      <4>2. CASE ~Grows(k)
        <5>1. w[k] = w[k - 1]
          BY <1>2, <3>1, <4>2
        <5> QED BY <3>1, <3>2, <5>1
      <4> QED BY <4>1, <4>2
    <3> QED BY <3>1, <3>3
  <2>3. \A m \in Nat : m \in Good
    <3> HIDE DEF Good
    <3> QED BY <2>1, <2>2, AllOfNat
  <2> SUFFICES ASSUME NEW k \in 1..n PROVE Len(w[k]) = k
    OBVIOUS
  <2>4. n - k \in Nat /\ n - (n - k) = k
    BY <1>0
  <2>5. n - k \in Good
    BY <2>3, <2>4
  <2> QED BY <2>4, <2>5
<1>7. \A k \in 2..n : Grows(k) /\ w[k] = More(k)
  <2> SUFFICES ASSUME NEW k \in 2..n PROVE Grows(k)
    BY <1>2
  <2>1. k \in 1..n /\ k - 1 \in 1..n /\ k \in Nat /\ k # k - 1
    BY <1>0
  <2>2. Len(w[k]) # Len(w[k - 1])
    BY <1>6, <2>1
  <2> QED BY <1>2, <2>2
<1> QED BY <1>1, <1>6, <1>7 DEF n, Grows, More, Grown

\* p is a way through a batch: each leg once, each from where the one before
\* arrives, from where none arrives.
Way(plans, p) ==
  /\ p \in Plan!Permutations1(Len(plans))
  /\ \A x \in 1..(Len(plans) - 1) : plans[p[x]].to = plans[p[x + 1]].from
  /\ \A j \in 1..Len(plans) : plans[j].to # plans[p[1]].from

\* No two legs leave from one place.
LeaveApart(plans) == \A i, j \in 1..Len(plans) : i # j => plans[i].from # plans[j].from

\* A set of one has that one.
LEMMA OneIsSome ==
  ASSUME NEW T, Plan!Cardinality(T) = 1
  PROVE  (CHOOSE i \in T : TRUE) \in T
<1>1. T # {}
  <2>1. Plan!Cardinality({}) = 0
    BY FS_EmptySet DEF Plan!Cardinality, Cardinality
  <2> QED BY <2>1
<1> QED BY <1>1

\* A walk that took in every leg is the way of every route of the batch.
LEMMA FullWalkIsTheWay ==
  ASSUME NEW S, NEW plans \in Seq(S), NEW head \in DOMAIN plans,
         NEW w, FullWalk(plans, head, w),
         NEW p, Way(plans, p), p[1] = head
  PROVE  \A k \in 1..Len(plans) : \A x \in 1..k : w[k][x] = p[x]
<1>1. /\ w[1] = <<head>>
      /\ \A k \in 1..Len(plans) : Len(w[k]) = k
      /\ \A k \in 2..Len(plans) : /\ Plan!Cardinality(Plan!Successors(plans, w[k - 1])) = 1
                                  /\ w[k] = Append(w[k - 1], CHOOSE i \in Plan!Successors(plans, w[k - 1]) : TRUE)
  <2>1. Grown(plans, head, w)
    BY FullWalksGrow
  <2> QED BY <2>1 DEF Grown
<1>a. \A k \in 1..Len(plans) : w[k] \in Seq(DOMAIN plans)
  BY DEF FullWalk
<1> DEFINE n == Len(plans)
           Same(k) == \A x \in 1..k : w[k][x] = p[x]
           Good == {m \in Nat : m + 1 \in 1..n => Same(m + 1)}
<1>0. n \in Nat /\ n \in 1..n /\ DOMAIN plans = 1..n
  OBVIOUS
<1>2. p \in [1..n -> 1..n] /\ \A i, j \in 1..n : p[i] = p[j] => i = j
  BY DEF Plan!Permutations1, Way
<1>3. \A x \in 1..(n - 1) : plans[p[x]].to = plans[p[x + 1]].from
  BY DEF Way
<1> HIDE DEF n
<1>4. 0 \in Good
  BY <1>1
<1>5. ASSUME NEW m \in Nat, m \in Good PROVE m + 1 \in Good
  <2> SUFFICES ASSUME (m + 1) + 1 \in 1..n PROVE Same((m + 1) + 1)
    OBVIOUS
  <2> DEFINE k == m + 1
             s == w[k]
             next == Plan!Successors(plans, s)
             i == CHOOSE i \in next : TRUE
  <2>1. k \in Nat /\ k \in 1..n /\ k + 1 \in 2..n /\ (k + 1) - 1 = k /\ k \in 1..(n - 1) /\ k \in 1..k /\ k + 1 \in 1..n
    BY <1>0
  <2>2. \A x \in 1..k : s[x] = p[x]
    BY <1>5, <2>1
  <2>3. Len(s) = k /\ s \in Seq(DOMAIN plans) /\ DOMAIN s = 1..k
    BY <1>1, <1>a, <2>1 DEF n
  <2> HIDE DEF k
  <2>4. Plan!Cardinality(next) = 1 /\ w[k + 1] = Append(s, i)
    BY <1>1, <2>1 DEF n
  <2> HIDE DEF s
  <2>5. p[k + 1] \in next
    <3>1. p[k + 1] \in DOMAIN plans
      BY <1>0, <1>2, <2>1
    <3>2. p[k + 1] \notin Plan!Range(s)
      <4> SUFFICES ASSUME NEW x \in DOMAIN s, s[x] = p[k + 1] PROVE FALSE
        BY DEF Plan!Range
      <4>1. x \in 1..k /\ x \in 1..n /\ x # k + 1
        BY <1>0, <2>1, <2>3
      <4>2. p[x] = p[k + 1]
        BY <2>2, <4>1
      <4> QED BY <1>2, <2>1, <4>1, <4>2
    <3>3. plans[p[k + 1]].from = plans[s[Len(s)]].to
      BY <1>3, <2>1, <2>2, <2>3
    <3> QED BY <3>1, <3>2, <3>3 DEF Plan!Successors
  <2>6. i = p[k + 1]
    <3>1. PICK y : next = {y}
      <4>1. IsFiniteSet(next)
        <5>1. next \subseteq 1..n /\ IsFiniteSet(1..n)
          BY <1>0, FS_Interval DEF Plan!Successors
        <5> QED BY <5>1, FS_Subset
      <4>2. Cardinality(next) = 1
        BY <2>4 DEF Plan!Cardinality, Cardinality
      <4> HIDE DEF next
      <4> QED BY <4>1, <4>2, FS_Singleton
    <3> HIDE DEF next
    <3> QED BY <2>5, <3>1
  <2>7. i \in DOMAIN plans
    <3>1. p[k + 1] \in 1..n
      BY <1>2, <2>1
    <3> HIDE DEF i
    <3> QED BY <1>0, <2>6, <3>1
  <2> HIDE DEF i, next
  <2>8. \A X : \A t \in Seq(X), z \in X :
           /\ Append(t, z)[Len(t) + 1] = z
           /\ \A x \in 1..Len(t) : Append(t, z)[x] = t[x]
    OBVIOUS
  <2>9. Append(s, i)[k + 1] = i /\ \A x \in 1..k : Append(s, i)[x] = s[x]
    BY <2>3, <2>7, <2>8
  <2>10. \A x \in 1..(k + 1) : x \in 1..k \/ x = k + 1
    BY <2>1
  <2>11. \A x \in 1..(k + 1) : w[k + 1][x] = p[x]
    BY <2>2, <2>4, <2>6, <2>9, <2>10
  <2> QED BY <2>11 DEF k
<1>6. \A m \in Nat : m \in Good
  <2> HIDE DEF Good
  <2> QED BY <1>4, <1>5, AllOfNat
<1> QED
  <2> SUFFICES ASSUME NEW k \in 1..n PROVE Same(k)
    BY DEF n
  <2>1. k - 1 \in Nat /\ (k - 1) + 1 = k
    BY <1>0
  <2>2. k - 1 \in Good
    BY <1>6, <2>1
  <2> QED BY <2>1, <2>2


\* A walk from a head that took in every leg is a way.
LEMMA FullWalkIsAWay ==
  ASSUME NEW S, NEW plans \in Seq(S), NEW head \in Plan!Heads(plans), NEW w, FullWalk(plans, head, w)
  PROVE  Way(plans, w[Len(plans)])
<1>0. head \in DOMAIN plans /\ \A j \in DOMAIN plans : plans[j].to # plans[head].from
  BY DEF Plan!Heads
<1>1. Grown(plans, head, w)
  BY <1>0, FullWalksGrow
<1>2. w \in [1..Len(plans) -> Seq(DOMAIN plans)] /\ Walks(plans, head, w)
  BY DEF FullWalk
<1>3. \A k \in 1..Len(plans) : OnceEach(w[k])
  BY <1>0, <1>2, WalkMeetsEachOnce
<1> DEFINE n == Len(plans)
           Joined(s) == s[1] = head /\ \A x \in 1..(Len(s) - 1) : plans[s[x]].to = plans[s[x + 1]].from
           Good == {m \in Nat : m + 1 \in 1..n => Joined(w[m + 1])}
<1>4. n \in Nat /\ n \in 1..n /\ 1 \in 1..n /\ DOMAIN plans = 1..n
  BY <1>0
<1>5. \A k \in 1..n : w[k] \in Seq(DOMAIN plans) /\ Len(w[k]) = k
  BY <1>1, <1>2 DEF Grown
<1>6. 0 \in Good
  <2>1. Joined(<<head>>)
    OBVIOUS
  <2>2. w[0 + 1] = <<head>>
    BY <1>1 DEF Grown
  <2> HIDE DEF Joined
  <2> QED BY <2>1, <2>2
<1>7. ASSUME NEW m \in Nat, m \in Good PROVE m + 1 \in Good
  <2> SUFFICES ASSUME (m + 1) + 1 \in 1..n PROVE Joined(w[(m + 1) + 1])
    OBVIOUS
  <2> DEFINE k == m + 1
             s == w[k]
             next == Plan!Successors(plans, s)
             i == CHOOSE i \in next : TRUE
  <2>1. k \in Nat /\ k \in 1..n /\ k + 1 \in 2..n /\ (k + 1) - 1 = k /\ k + 1 \in 1..n /\ 1 \in 1..k /\ k \in 1..k
    BY <1>4
  <2>2. Joined(s)
    BY <1>7, <2>1
  <2> HIDE DEF k, n
  <2>3. s \in Seq(DOMAIN plans) /\ Len(s) = k
    BY <1>5, <2>1
  <2>4. Plan!Cardinality(next) = 1 /\ w[k + 1] = Append(s, i)
    BY <1>1, <2>1 DEF Grown, n
  <2> HIDE DEF s
  <2>5. i \in next /\ i \in DOMAIN plans
    <3>1. i \in next
      BY <2>4, OneIsSome
    <3> QED BY <3>1 DEF Plan!Successors
  <2> HIDE DEF i
  <2>6. plans[i].from = plans[s[k]].to
    BY <2>3, <2>5 DEF Plan!Successors
  <2> HIDE DEF next
  <2>7. \A X : \A t \in Seq(X), z \in X :
           /\ Len(Append(t, z)) = Len(t) + 1
           /\ Append(t, z)[Len(t) + 1] = z
           /\ \A x \in 1..Len(t) : Append(t, z)[x] = t[x]
    OBVIOUS
  <2>8. Len(Append(s, i)) = k + 1 /\ Append(s, i)[k + 1] = i /\ \A x \in 1..k : Append(s, i)[x] = s[x]
    BY <2>3, <2>5, <2>7
  <2>9. \A x \in 1..((k + 1) - 1) : x \in 1..k /\ (x = k \/ (x \in 1..(k - 1) /\ x + 1 \in 1..k))
    BY <2>1
  <2>10. \A x \in 1..(k - 1) : plans[s[x]].to = plans[s[x + 1]].from
    BY <2>2, <2>3
  <2>11. \A x \in 1..((k + 1) - 1) : plans[Append(s, i)[x]].to = plans[Append(s, i)[x + 1]].from
    BY <2>6, <2>8, <2>9, <2>10
  <2>12. Append(s, i)[1] = head
    BY <2>1, <2>2, <2>8
  <2>13. Joined(Append(s, i))
    BY <2>8, <2>11, <2>12
  <2> HIDE DEF Joined
  <2> QED BY <2>4, <2>13 DEF k
<1>8. \A m \in Nat : m \in Good
  <2> HIDE DEF Good
  <2> QED BY <1>6, <1>7, AllOfNat
<1>9. Joined(w[n])
  <2>1. n - 1 \in Nat /\ (n - 1) + 1 = n
    BY <1>4
  <2>2. n - 1 \in Good
    BY <1>8, <2>1
  <2> HIDE DEF Joined, n
  <2> QED BY <1>4, <2>1, <2>2
<1>10. w[n] \in Plan!Permutations1(n)
  <2> DEFINE s == w[n]
  <2> HIDE DEF n
  <2>1. s \in Seq(DOMAIN plans) /\ Len(s) = n /\ OnceEach(s)
    BY <1>3, <1>4, <1>5 DEF n
  <2> HIDE DEF s
  <2>2. DOMAIN s = 1..n /\ s \in [1..n -> 1..n]
    BY <1>4, <2>1
  <2> QED BY <2>1, <2>2 DEF Plan!Permutations1, OnceEach, s
<1>11. Len(w[n]) = n
  BY <1>4, <1>5
<1> HIDE DEF n
<1> QED BY <1>0, <1>4, <1>9, <1>10, <1>11 DEF Way, n

\* When no two legs leave from one place, the walk goes the way there is.
LEMMA TheWayIsWalked ==
  ASSUME NEW S, NEW plans \in Seq(S), NEW p, Way(plans, p),
         LeaveApart(plans),
         NEW w \in [1..Len(plans) -> Seq(DOMAIN plans)], Walks(plans, p[1], w)
  PROVE  \A k \in 1..Len(plans) : Len(w[k]) = k /\ \A x \in 1..k : w[k][x] = p[x]
<1> DEFINE n == Len(plans)
           Same(k, s) == Len(s) = k /\ \A x \in 1..k : s[x] = p[x]
           Good == {m \in Nat : m + 1 \in 1..n => Same(m + 1, w[m + 1])}
<1>0. n \in Nat /\ DOMAIN plans = 1..n
  OBVIOUS
<1>1. /\ p \in [1..n -> 1..n] /\ (\A i, j \in 1..n : p[i] = p[j] => i = j)
      /\ \A x \in 1..(n - 1) : plans[p[x]].to = plans[p[x + 1]].from
  BY DEF Way, Plan!Permutations1
<1>2. \A i, j \in 1..n : i # j => plans[i].from # plans[j].from
  BY DEF LeaveApart
<1>a. \A k \in 1..n : w[k] \in Seq(DOMAIN plans)
  OBVIOUS
<1>3. 0 \in Good
  <2>1. ASSUME 0 + 1 \in 1..n PROVE Same(0 + 1, w[0 + 1])
    <3>1. w[0 + 1] = <<p[1]>>
      BY <2>1 DEF Walks
    <3>2. Same(1, <<p[1]>>)
      OBVIOUS
    <3> HIDE DEF Same
    <3> QED BY <3>1, <3>2
  <2> HIDE DEF Same
  <2> QED BY <2>1
<1>4. ASSUME NEW m \in Nat, m \in Good PROVE m + 1 \in Good
  <2> SUFFICES ASSUME (m + 1) + 1 \in 1..n PROVE Same((m + 1) + 1, w[(m + 1) + 1])
    OBVIOUS
  <2> DEFINE k == m + 1
             s == w[k]
             next == Plan!Successors(plans, s)
             i == CHOOSE i \in next : TRUE
  <2>1. /\ k \in Nat /\ k \in 1..n /\ k + 1 # 1 /\ (k + 1) - 1 = k /\ k \in 1..(n - 1) /\ k \in 1..k
        /\ k + 1 \in 1..n
    BY <1>0
  <2>2. Len(s) = k /\ \A x \in 1..k : s[x] = p[x]
    BY <1>4, <2>1
  <2>3. s \in Seq(DOMAIN plans) /\ DOMAIN s = 1..k
    BY <1>a, <2>1, <2>2
  <2> HIDE DEF k
  <2>4. w[k + 1] = IF Plan!Cardinality(next) = 1 /\ Len(s) = (k + 1) - 1 THEN Append(s, i) ELSE s
    BY <2>1 DEF Walks
  <2> HIDE DEF s
  <2> DEFINE y == p[k + 1]
  <2>5. y \in 1..n /\ plans[y].from = plans[s[Len(s)]].to
    BY <1>1, <2>1, <2>2
  <2>6. y \notin Plan!Range(s)
    <3> SUFFICES ASSUME NEW x \in DOMAIN s, s[x] = y PROVE FALSE
      BY DEF Plan!Range
    <3>1. x \in 1..k /\ x \in 1..n /\ x # k + 1
      BY <1>0, <2>1, <2>3
    <3>2. p[x] = y
      BY <2>2, <3>1
    <3> QED BY <1>1, <2>1, <3>1, <3>2
  <2> HIDE DEF y
  <2>7. next = {y}
    <3>1. y \in next
      BY <1>0, <2>5, <2>6 DEF Plan!Successors
    <3>2. ASSUME NEW j \in next PROVE j = y
      <4>1. j \in 1..n /\ plans[j].from = plans[y].from
        BY <1>0, <2>5 DEF Plan!Successors
      <4> QED BY <1>2, <2>5, <4>1
    <3> HIDE DEF next
    <3> QED BY <3>1, <3>2
  <2>8. Plan!Cardinality(next) = 1 /\ i = y
    <3>1. Plan!Cardinality({y}) = 1
      BY FS_Singleton DEF Plan!Cardinality, Cardinality
    <3> HIDE DEF next
    <3> QED BY <2>7, <3>1
  <2> HIDE DEF i, next
  <2>9. w[k + 1] = Append(s, y)
    BY <2>1, <2>2, <2>4, <2>8
  <2>10. \A X : \A t \in Seq(X), z \in X :
           /\ Len(Append(t, z)) = Len(t) + 1
           /\ Append(t, z)[Len(t) + 1] = z
           /\ \A x \in 1..Len(t) : Append(t, z)[x] = t[x]
    OBVIOUS
  <2>11. Len(Append(s, y)) = k + 1 /\ Append(s, y)[k + 1] = y /\ \A x \in 1..k : Append(s, y)[x] = s[x]
    BY <1>0, <2>2, <2>3, <2>5, <2>10
  <2>12. \A x \in 1..(k + 1) : x \in 1..k \/ x = k + 1
    BY <2>1
  <2>13. Same(k + 1, Append(s, y))
    BY <2>2, <2>11, <2>12 DEF y
  <2> HIDE DEF Same
  <2> QED BY <2>9, <2>13 DEF k
<1>5. \A m \in Nat : m \in Good
  <2> HIDE DEF Good
  <2> QED BY <1>3, <1>4, AllOfNat
<1> QED
  <2> SUFFICES ASSUME NEW k \in 1..n PROVE Same(k, w[k])
    OBVIOUS
  <2>1. k - 1 \in Nat /\ (k - 1) + 1 = k
    BY <1>0
  <2>2. k - 1 \in Good
    BY <1>5, <2>1
  <2> HIDE DEF Same
  <2> QED BY <2>1, <2>2

\* Permutations that agree everywhere are one.
LEMMA SamePermutation ==
  ASSUME NEW n, NEW p \in Plan!Permutations1(n), NEW q \in Plan!Permutations1(n), \A x \in 1..n : q[x] = p[x]
  PROVE  p = q
<1>1. p \in [1..n -> 1..n] /\ q \in [1..n -> 1..n]
  BY DEF Plan!Permutations1
<1>2. p = [x \in 1..n |-> p[x]] /\ q = [x \in 1..n |-> q[x]]
  BY <1>1
<1>3. [x \in 1..n |-> p[x]] = [x \in 1..n |-> q[x]]
  OBVIOUS
<1> QED BY <1>2, <1>3, Zenon

\* A permutation meets every number up to its length.
LEMMA EachIsMet ==
  ASSUME NEW n \in Nat, NEW p \in Plan!Permutations1(n), NEW y \in 1..n
  PROVE  \E x \in 1..n : p[x] = y
<1>1. IsFiniteSet(1..n)
  BY FS_Interval
<1>2. p \in Injection(1..n, 1..n)
  BY DEF Injection, IsInjective, Plan!Permutations1
<1>3. p \in Surjection(1..n, 1..n)
  <2> HIDE DEF Injection
  <2> QED BY <1>1, <1>2, FS_Injection
<1> QED BY <1>3 DEF Surjection

\* The walk of a batch of airports from the one head there is took in every leg.
TheHead(plans) == CHOOSE i \in Plan!Heads(plans) : TRUE

Full(plans) ==
  /\ Len(plans) >= 2 /\ \A i \in DOMAIN plans : plans[i].airports
  /\ Plan!Cardinality(Plan!Heads(plans)) = 1
  /\ Len(Plan!Walk(plans, TheHead(plans))) = Len(plans)

\* What is answered about a batch.
LEMMA ChainedOrUpload ==
  ASSUME NEW plans, Len(plans) \in Nat, NEW answer, answer = Plan!ChainOrderForBatch(plans)
  PROVE  /\ answer.reason = "CHAINED" <=> Full(plans)
         /\ Full(plans) => answer.order = Plan!Walk(plans, TheHead(plans))
         /\ ~Full(plans) => answer.order = Plan!UploadOrder(plans)
         /\ ~answer.resolved => ~Full(plans)
<1> DEFINE walk   == Plan!Walk(plans, TheHead(plans))
           ended  == IF Plan!Successors(plans, walk) = {} THEN "BROKEN_CHAIN" ELSE "AMBIGUOUS_SUCCESSOR"
<1>1. \A reason : Plan!Unresolved(plans, reason) = [order |-> Plan!UploadOrder(plans), resolved |-> FALSE, reason |-> reason]
  BY DEF Plan!Unresolved
<1>2. CASE Full(plans)
  <2>1. answer = [order |-> walk, resolved |-> TRUE, reason |-> "CHAINED"]
    BY <1>2 DEF Plan!ChainOrderForBatch, Full, TheHead
  <2> HIDE DEF walk
  <2>2. answer.order = walk /\ answer.resolved /\ answer.reason = "CHAINED"
    BY <2>1
  <2> QED BY <1>2, <2>2 DEF walk
<1>3. CASE Len(plans) < 2
  <2>1. answer = [order |-> Plan!UploadOrder(plans), resolved |-> TRUE, reason |-> "SINGLE_LEG"]
    BY <1>3 DEF Plan!ChainOrderForBatch
  <2>2. answer.order = Plan!UploadOrder(plans) /\ answer.reason # "CHAINED"
    BY <2>1
  <2>3. ~Full(plans)
    BY <1>3 DEF Full
  <2> QED BY <2>2, <2>3
<1>4. CASE ~Full(plans) /\ ~(Len(plans) < 2)
  <2>1. \/ answer = Plan!Unresolved(plans, "SNIPPET_IN_BATCH")
        \/ answer = Plan!Unresolved(plans, "NO_UNIQUE_HEAD")
        \/ answer = Plan!Unresolved(plans, ended)
    BY <1>4 DEF Plan!ChainOrderForBatch, Full, TheHead
  <2>2. ended \in {"BROKEN_CHAIN", "AMBIGUOUS_SUCCESSOR"}
    OBVIOUS
  <2> HIDE DEF walk, ended
  <2>3. answer.order = Plan!UploadOrder(plans) /\ answer.reason # "CHAINED"
    BY <1>1, <2>1, <2>2
  <2> QED BY <1>4, <2>3
<1> QED BY <1>2, <1>3, <1>4

\* chainOrderForBatch: a batch of any legs is put in another order only if that
\* order is the one route there is; airport legs of different departures that have a
\* route are put in it; any other batch keeps the order it came in.
THEOREM BatchesFollowTheRoute ==
  ASSUME NEW S, NEW plans \in Seq(S)
  PROVE  Plan!ChainOrderIsTheRoute(plans)
<1> DEFINE n      == Len(plans)
           answer == Plan!ChainOrderForBatch(plans)
           head   == TheHead(plans)
           routes == {p \in Plan!Permutations1(n) :
                        Plan!EndToEnd(plans, p) /\ \A j \in 1..n : plans[j].to # plans[p[1]].from}
<1>1. n \in Nat /\ DOMAIN plans = 1..n
  OBVIOUS
<1>2. /\ answer.reason = "CHAINED" <=> Full(plans)
      /\ Full(plans) => answer.order = Plan!Walk(plans, head)
      /\ ~Full(plans) => answer.order = Plan!UploadOrder(plans)
      /\ ~answer.resolved => ~Full(plans)
  <2>1. Len(plans) \in Nat
    OBVIOUS
  <2> QED BY <2>1, ChainedOrUpload
<1>3. \A p : p \in routes <=> Way(plans, p)
  <2>1. \A p \in Plan!Permutations1(n) : Len(p) = n
    BY <1>1 DEF Plan!Permutations1
  <2> QED BY <2>1 DEF Way, Plan!EndToEnd
<1>4. ASSUME Plan!Cardinality(Plan!Heads(plans)) = 1
      PROVE  /\ head \in Plan!Heads(plans) /\ head \in DOMAIN plans
             /\ \A i \in Plan!Heads(plans) : i = head
  <2>1. head \in Plan!Heads(plans) /\ Plan!Heads(plans) \subseteq DOMAIN plans
    BY <1>4, TheOneHead DEF TheHead
  <2>2. PICK y : Plan!Heads(plans) = {y}
    <3>1. IsFiniteSet(Plan!Heads(plans))
      <4>1. IsFiniteSet(1..n)
        BY <1>1, FS_Interval
      <4> QED BY <1>1, <2>1, <4>1, FS_Subset
    <3>2. Cardinality(Plan!Heads(plans)) = 1
      BY <1>4 DEF Plan!Cardinality, Cardinality
    <3> QED BY <3>1, <3>2, FS_Singleton
  <2> QED BY <2>1, <2>2
<1>5. ASSUME Full(plans)
      PROVE  Way(plans, answer.order) /\ \A p : Way(plans, p) => p = answer.order
  <2>1. head \in Plan!Heads(plans) /\ head \in DOMAIN plans /\ \A i \in Plan!Heads(plans) : i = head
    BY <1>4, <1>5 DEF Full
  <2>2. answer.order = Plan!Walk(plans, head) /\ Len(Plan!Walk(plans, head)) = n
    BY <1>2, <1>5 DEF Full
  <2> HIDE DEF answer
  <2>3. PICK w \in [1..n -> Seq(DOMAIN plans)] : Walks(plans, head, w) /\ Plan!Walk(plans, head) = w[n]
    BY <2>1, WalkIsWalked
  <2>4. FullWalk(plans, head, w)
    BY <2>2, <2>3 DEF FullWalk
  <2>5. Way(plans, w[n])
    BY <2>1, <2>4, FullWalkIsAWay
  <2>6. ASSUME NEW p, Way(plans, p) PROVE p = w[n]
    <3>1. n \in 1..n /\ 1 \in 1..n
      BY <1>1, <2>1
    <3>2. p \in Plan!Permutations1(n) /\ w[n] \in Plan!Permutations1(n)
      BY <2>5, <2>6 DEF Way
    <3>3. p[1] = head
      <4>1. p[1] \in DOMAIN plans /\ \A j \in DOMAIN plans : plans[j].to # plans[p[1]].from
        BY <1>1, <2>6, <3>1, <3>2 DEF Way, Plan!Permutations1
      <4> QED BY <2>1, <4>1 DEF Plan!Heads
    <3>5. \A x \in 1..n : w[n][x] = p[x]
      <4>1. \A k \in 1..n : \A x \in 1..k : w[k][x] = p[x]
        BY <2>1, <2>4, <2>6, <3>3, FullWalkIsTheWay
      <4> QED BY <3>1, <4>1
    <3> HIDE DEF n
    <3> QED BY <3>2, <3>5, SamePermutation
  <2> QED BY <2>2, <2>3, <2>5, <2>6
<1>6. Plan!UploadOrder(plans) \in Plan!Permutations1(n)
  BY <1>1 DEF Plan!UploadOrder, Plan!Permutations1
<1>7. answer.order \in Plan!Permutations1(n)
  <2>1. CASE Full(plans)
    BY <1>5, <2>1 DEF Way
  <2>2. CASE ~Full(plans)
    BY <1>2, <1>6, <2>2
  <2> QED BY <2>1, <2>2
<1>8. answer.reason = "CHAINED" => routes = {answer.order}
  <2> HIDE DEF routes, answer
  <2> QED BY <1>2, <1>3, <1>5
<1>9. ~answer.resolved => answer.order = Plan!UploadOrder(plans)
  <2> HIDE DEF answer
  <2> QED BY <1>2
<1>10. ASSUME n >= 2, \A i \in 1..n : plans[i].airports,
              \A i, j \in 1..n : i # j => plans[i].from # plans[j].from, routes # {}
       PROVE  answer.reason = "CHAINED"
  <2>1. PICK p : Way(plans, p)
    BY <1>3, <1>10
  <2>2. /\ p \in [1..n -> 1..n] /\ (\A i, j \in 1..n : p[i] = p[j] => i = j)
        /\ (\A x \in 1..(n - 1) : plans[p[x]].to = plans[p[x + 1]].from)
        /\ \A j \in 1..n : plans[j].to # plans[p[1]].from
    BY <2>1 DEF Way, Plan!Permutations1
  <2>a. 1 \in 1..n /\ n \in 1..n
    BY <1>1, <1>10
  <2>3. p[1] \in Plan!Heads(plans)
    BY <1>1, <2>2, <2>a DEF Plan!Heads
  <2>4. \A i \in Plan!Heads(plans) : i = p[1]
    <3> SUFFICES ASSUME NEW i \in Plan!Heads(plans), i # p[1] PROVE FALSE
      OBVIOUS
    <3>1. i \in 1..n /\ \A j \in 1..n : plans[j].to # plans[i].from
      BY <1>1 DEF Plan!Heads
    <3>2. \E q \in 1..n : p[q] = i
      <4>1. p \in Plan!Permutations1(n)
        BY <2>1 DEF Way
      <4> HIDE DEF n
      <4> QED BY <1>1, <3>1, <4>1, EachIsMet
    <3>3. PICK q \in 1..n : p[q] = i
      BY <3>2
    <3>4. q - 1 \in 1..(n - 1) /\ (q - 1) + 1 = q /\ q - 1 \in 1..n
      BY <1>1, <3>3
    <3>5. plans[p[q - 1]].to = plans[i].from /\ p[q - 1] \in 1..n
      BY <2>2, <3>3, <3>4
    <3> QED BY <3>1, <3>5
  <2>5. Plan!Cardinality(Plan!Heads(plans)) = 1
    <3>1. Plan!Heads(plans) = {p[1]}
      BY <2>3, <2>4
    <3>2. Plan!Cardinality({p[1]}) = 1
      BY FS_Singleton DEF Plan!Cardinality, Cardinality
    <3> QED BY <3>1, <3>2
  <2>6. head = p[1] /\ head \in DOMAIN plans
    BY <1>4, <2>3, <2>5
  <2> HIDE DEF answer
  <2>7. PICK w \in [1..n -> Seq(DOMAIN plans)] : Walks(plans, head, w) /\ Plan!Walk(plans, head) = w[n]
    BY <2>6, WalkIsWalked
  <2>8. \A k \in 1..n : Len(w[k]) = k /\ \A x \in 1..k : w[k][x] = p[x]
    <3>1. LeaveApart(plans)
      BY <1>10 DEF LeaveApart
    <3>2. w \in [1..Len(plans) -> Seq(DOMAIN plans)] /\ Walks(plans, p[1], w)
      BY <2>6, <2>7
    <3> QED BY <2>1, <3>1, <3>2, TheWayIsWalked
  <2>9. Len(Plan!Walk(plans, head)) = n
    BY <2>7, <2>8, <2>a
  <2>10. Full(plans)
    BY <1>1, <1>10, <2>5, <2>9 DEF Full
  <2> QED BY <1>2, <2>10
<1> QED BY <1>7, <1>8, <1>9, <1>10 DEF Plan!ChainOrderIsTheRoute

-----------------------------------------------------------------------------
(* What the imports share with the other machines.                          *)

\* applySchema, closeOpenGroundSession, createPlannedLeg: no upgrade, no end of
\* a ground session and no import rewrites a row that was there, for any file,
\* any number of deaths, sessions and uploads.
THEOREM RowsStayKept == Spec => RowsAreKept
BY UpgradesStayHarmless, SessionsStayHistory, ImportsStayAppends DEF RowsAreKept

-----------------------------------------------------------------------------
(* Flight time.                                                             *)

\* resumeFlight adds up the gaps it counts from one point to the next.
TotalOf(points, total) ==
  /\ total \in [0..Len(points) -> Nat]
  /\ \A n \in 0..Len(points) :
       total[n] = IF n < 2 THEN 0 ELSE total[n - 1] + Clock!CountedGap(points[n] - points[n - 1])

\* A counted gap is a number of ticks.
LEMMA GapsAreCounted ==
  ASSUME NEW gap \in Int
  PROVE  /\ Clock!CountedGap(gap) \in Nat
         /\ gap \in Nat => Clock!CountedGap(gap) <= gap
         /\ gap \in Nat /\ gap <= MaxCountedGap => Clock!CountedGap(gap) = gap
BY ClockAssumption DEF Clock!CountedGap

\* The running sum exists.
LEMMA RebuiltIsATotal ==
  ASSUME NEW points \in Seq(Nat)
  PROVE  \E total : TotalOf(points, total) /\ Clock!Rebuilt(points) = total[Len(points)]
<1> DEFINE n0 == Len(points)
           Gap(n) == IF n \in 2..n0 THEN Clock!CountedGap(points[n] - points[n - 1]) ELSE 0
           step == [x \in Nat \X Nat |-> IF x[1] = 0 THEN 0 ELSE x[2] + Gap(x[1] + 1)]
           Equation(total) ==
             total = [n \in 0..n0 |-> IF n < 2 THEN 0 ELSE total[n - 1] + Clock!CountedGap(points[n] - points[n - 1])]
<1>1. n0 \in Nat /\ \A n \in Nat : Gap(n) \in Nat
  <2>1. \A n \in 2..n0 : points[n] - points[n - 1] \in Int
    OBVIOUS
  <2>2. \A n \in 2..n0 : Clock!CountedGap(points[n] - points[n - 1]) \in Nat
    BY <2>1, GapsAreCounted
  <2> QED BY <2>2
<1> HIDE DEF Gap
<1>2. step \in [Nat \X Nat -> Nat]
  <2>0. \A n \in Nat : n + 1 \in Nat /\ Gap(n + 1) \in Nat
    BY <1>1
  <2>1. \A n, x \in Nat : n + 1 \in Nat /\ x + Gap(n + 1) \in Nat
    BY <2>0
  <2>2. \A x \in Nat \X Nat : x[1] \in Nat /\ x[2] \in Nat
    OBVIOUS
  <2>3. \A x \in Nat \X Nat : (IF x[1] = 0 THEN 0 ELSE x[2] + Gap(x[1] + 1)) \in Nat
    BY <2>1, <2>2
  <2> QED BY <2>3
<1>3. \A n, x \in Nat : step[<<n, x>>] = IF n = 0 THEN 0 ELSE x + Gap(n + 1)
  OBVIOUS
<1> HIDE DEF step
<1>a. PICK f : RunOf(Nat, 0, step, f)
  <2>1. step \in Steps(Nat) /\ 0 \in Nat
    BY <1>2 DEF Steps
  <2> QED BY <2>1, RunExists
<1>4. f \in [Nat -> Nat] /\ f[0] = 0 /\ \A n \in Nat : f[n + 1] = step[<<n, f[n]>>]
  BY <1>a DEF RunOf
<1> DEFINE total == [n \in 0..n0 |-> f[n]]
<1>5. ASSUME NEW n \in 0..n0
      PROVE  total[n] = IF n < 2 THEN 0 ELSE total[n - 1] + Clock!CountedGap(points[n] - points[n - 1])
  <2>1. CASE n = 0
    BY <1>4, <2>1
  <2>2. CASE n = 1
    <3>1. f[0 + 1] = step[<<0, f[0]>>] /\ f[0] \in Nat
      BY <1>4
    <3>2. step[<<0, f[0]>>] = 0
      BY <1>3, <3>1
    <3>3. 0 + 1 = 1
      OBVIOUS
    <3>4. f[1] = 0
      BY <3>1, <3>2, <3>3
    <3> QED BY <2>2, <3>4
  <2>3. CASE n >= 2
    <3> DEFINE m == n - 1
    <3>1. m \in Nat /\ m # 0 /\ m + 1 = n /\ m \in 0..n0 /\ n \in 2..n0
      BY <2>3
    <3> HIDE DEF m
    <3>2. f[m + 1] = f[m] + Gap(m + 1)
      BY <1>3, <1>4, <3>1
    <3>3. f[n] = f[m] + Clock!CountedGap(points[n] - points[n - 1])
      BY <3>1, <3>2 DEF Gap
    <3> QED BY <2>3, <3>1, <3>3 DEF m
  <2> QED BY <1>1, <2>1, <2>2, <2>3
<1>6. Equation(total)
  BY <1>5
<1>7. total \in [0..n0 -> Nat]
  BY <1>4
<1> DEFINE chosen == CHOOSE f1 : Equation(f1)
<1>8. Equation(chosen) /\ Clock!Rebuilt(points) = chosen[n0]
  <2>1. Clock!Rebuilt(points) = chosen[n0]
    BY DEF Clock!Rebuilt
  <2> HIDE DEF Equation, total
  <2>2. Equation(chosen)
    BY <1>6
  <2> QED BY <2>1, <2>2
<1> HIDE DEF chosen
<1>9. \A n \in 0..n0 :
        chosen[n] = IF n < 2 THEN 0 ELSE chosen[n - 1] + Clock!CountedGap(points[n] - points[n - 1])
  BY <1>8
<1>10. DOMAIN chosen = 0..n0
  BY <1>8
<1>11. \A n \in Nat : n \in {i \in Nat : i <= n0 => chosen[i] \in Nat}
  <2> DEFINE S == {i \in Nat : i <= n0 => chosen[i] \in Nat}
  <2>1. 0 \in S
    BY <1>1, <1>9
  <2>2. ASSUME NEW i \in Nat, i \in S PROVE i + 1 \in S
    <3> SUFFICES ASSUME i + 1 <= n0 PROVE chosen[i + 1] \in Nat
      OBVIOUS
    <3>1. CASE i = 0
      <4>1. 1 \in 0..n0 /\ 1 < 2 /\ i + 1 = 1
        BY <1>1, <3>1
      <4>2. chosen[1] = 0
        BY <1>9, <4>1
      <4> QED BY <4>1, <4>2
    <3>2. CASE i # 0
      <4>1. i + 1 \in 2..n0 /\ (i + 1) - 1 = i /\ i + 1 \in 0..n0 /\ ~(i + 1 < 2)
        BY <1>1, <3>2
      <4>2. Gap(i + 1) = Clock!CountedGap(points[i + 1] - points[(i + 1) - 1])
        BY <4>1 DEF Gap
      <4>3. chosen[i + 1] = chosen[i] + Gap(i + 1)
        BY <1>9, <4>1, <4>2
      <4>4. chosen[i] \in Nat
        BY <1>1, <2>2, <4>1
      <4>5. Gap(i + 1) \in Nat
        BY <1>1
      <4> QED BY <4>3, <4>4, <4>5
    <3> QED BY <3>1, <3>2
  <2> HIDE DEF S
  <2>3. \A n \in Nat : n \in S
    BY <2>1, <2>2, AllOfNat
  <2> QED BY <2>3 DEF S
<1>12. chosen \in [0..n0 -> Nat]
  <2>1. chosen = [n \in 0..n0 |-> chosen[n]]
    BY <1>8
  <2>2. \A n \in 0..n0 : chosen[n] \in Nat
    BY <1>1, <1>11
  <2> QED BY <2>1, <2>2
<1> QED BY <1>8, <1>9, <1>12 DEF TotalOf

\* The two lists reach n and have the same first n points.
SamePoints(p, q, n) == n <= Len(p) /\ n <= Len(q) /\ \A i \in 1..n : p[i] = q[i]

\* Two running sums over points that agree agree.
LEMMA TotalsAgree ==
  ASSUME NEW p \in Seq(Nat), NEW q \in Seq(Nat), NEW n \in Nat, SamePoints(p, q, n),
         NEW f, TotalOf(p, f), NEW g, TotalOf(q, g)
  PROVE  f[n] = g[n]
<1> USE DEF SamePoints
<1> DEFINE S == {i \in Nat : i <= n => f[i] = g[i]}
<1>1. 0 \in S
  BY DEF TotalOf
<1>2. ASSUME NEW i \in Nat, i \in S PROVE i + 1 \in S
  <2> SUFFICES ASSUME i + 1 <= n PROVE f[i + 1] = g[i + 1]
    OBVIOUS
  <2>1. f[i] = g[i] /\ i + 1 \in 0..Len(p) /\ i + 1 \in 0..Len(q) /\ (i + 1) - 1 = i
    BY <1>2
  <2>2. CASE i = 0
    BY <2>1, <2>2 DEF TotalOf
  <2>3. CASE i # 0
    <3>1. p[i + 1] = q[i + 1] /\ p[i] = q[i] /\ ~(i + 1 < 2)
      BY <2>3
    <3>2. f[i + 1] = f[i] + Clock!CountedGap(p[i + 1] - p[i])
      BY <2>1, <3>1 DEF TotalOf
    <3>3. g[i + 1] = g[i] + Clock!CountedGap(q[i + 1] - q[i])
      BY <2>1, <3>1 DEF TotalOf
    <3> QED BY <2>1, <3>1, <3>2, <3>3
  <2> QED BY <2>2, <2>3
<1> HIDE DEF S
<1>3. n \in S
  BY <1>1, <1>2, AllOfNat
<1> QED BY <1>3 DEF S

\* A point more adds its gap, and the first adds none.
LEMMA RebuiltWithAPoint ==
  ASSUME NEW points \in Seq(Nat), NEW t \in Nat
  PROVE  /\ Clock!Rebuilt(points) \in Nat
         /\ Len(points) = 0 => Clock!Rebuilt(Append(points, t)) = 0
         /\ Len(points) > 0 => Clock!Rebuilt(Append(points, t))
                                 = Clock!Rebuilt(points) + Clock!CountedGap(t - points[Len(points)])
<1> DEFINE n == Len(points)
           longer == Append(points, t)
<1>1. PICK f : TotalOf(points, f) /\ Clock!Rebuilt(points) = f[Len(points)]
  BY RebuiltIsATotal
<1>2. longer \in Seq(Nat) /\ Len(longer) = n + 1 /\ n \in Nat /\ longer[n + 1] = t
      /\ \A i \in 1..n : longer[i] = points[i]
  OBVIOUS
<1> HIDE DEF longer
<1>3. PICK g : TotalOf(longer, g) /\ Clock!Rebuilt(longer) = g[Len(longer)]
  BY <1>2, RebuiltIsATotal
<1>4. f[n] = g[n]
  <2> HIDE DEF n
  <2>1. SamePoints(points, longer, n)
    BY <1>2 DEF n, SamePoints
  <2>2. n \in Nat /\ longer \in Seq(Nat)
    BY <1>2
  <2>3. TotalOf(points, f) /\ TotalOf(longer, g)
    BY <1>1, <1>3
  <2> QED BY <2>1, <2>2, <2>3, TotalsAgree
<1>5. f[n] \in Nat
  BY <1>1, <1>2 DEF TotalOf
<1>6. n = 0 => g[n + 1] = 0
  BY <1>2, <1>3 DEF TotalOf
<1>7. n > 0 => g[n + 1] = g[n] + Clock!CountedGap(longer[n + 1] - longer[n])
  <2> SUFFICES ASSUME n > 0 PROVE g[n + 1] = g[n] + Clock!CountedGap(longer[n + 1] - longer[n])
    OBVIOUS
  <2>1. n + 1 \in 0..Len(longer) /\ ~(n + 1 < 2) /\ (n + 1) - 1 = n
    BY <1>2
  <2> HIDE DEF n
  <2> QED BY <1>3, <2>1 DEF TotalOf
<1>8. n > 0 => longer[n] = points[n]
  BY <1>2
<1> QED BY <1>1, <1>2, <1>3, <1>4, <1>5, <1>6, <1>7, <1>8 DEF longer

FlightRow == [start : Nat, points : Seq(Nat), reports : Seq(Nat), duration : Nat \cup {NULL}, linked : BOOLEAN,
              paused : BOOLEAN]

Accumulators == [last : Nat, active : Nat, interrupted : BOOLEAN, count : Nat, window : Nat]

ClockTypes ==
  /\ now \in Nat /\ restarts \in Nat /\ stopped \in Nat /\ banked \in Nat
  /\ frozen \in BOOLEAN /\ isPaused \in BOOLEAN
  /\ flight \in {NULL} \cup FlightRow /\ memory \in {NULL} \cup Accumulators

\* The row: it has a point, the last is no later than now, and what its points
\* add up to is no longer than they are apart.
RowStands ==
  flight # NULL =>
    /\ Len(flight.points) > 0 /\ flight.points[Len(flight.points)] <= now
    /\ flight.start + Clock!Rebuilt(flight.points) <= flight.points[Len(flight.points)]
    /\ Clock!IsInjective(flight.reports)
    /\ flight.duration # NULL => flight.start + flight.duration <= now
    /\ flight.duration = NULL => banked <= Clock!Rebuilt(flight.points)

\* The manager: it follows an open flight, knows its last point and counted no
\* more than a restart would.
MemoryStands ==
  memory # NULL =>
    /\ flight # NULL /\ flight.duration = NULL
    /\ memory.last = flight.points[Len(flight.points)] /\ memory.count = Len(flight.points)
    /\ banked <= memory.active /\ memory.active <= Clock!Rebuilt(flight.points)

\* Before the first restart: the manager knows whether the simulator stands,
\* and follows every open flight.
WatchedStands ==
  /\ flight = NULL => restarts = 0 /\ stopped = 0
  /\ restarts = 0 => isPaused = frozen
  /\ restarts = 0 /\ flight # NULL /\ flight.duration = NULL => memory # NULL

\* What a pause of such a flight takes: nothing of it is counted.
PauseStands ==
  restarts = 0 /\ flight # NULL /\ ~flight.paused =>
    /\ flight.duration # NULL => flight.start + flight.duration + stopped <= now
    /\ memory # NULL =>
         /\ frozen => memory.interrupted
         /\ memory.interrupted => flight.start + memory.active + stopped <= now
         /\ ~memory.interrupted => flight.start + memory.active + stopped <= memory.last

ClockInv == ClockTypes /\ RowStands /\ MemoryStands /\ WatchedStands /\ PauseStands

\* Nothing has happened yet.
LEMMA InitClock == Clock!Init => ClockInv
<1> SUFFICES ASSUME Clock!Init PROVE ClockInv
  OBVIOUS
<1>1. /\ now = 0 /\ restarts = 0 /\ stopped = 0 /\ banked = 0 /\ frozen = FALSE /\ isPaused = FALSE
      /\ flight = NULL /\ memory = NULL
  BY DEF Clock!Init
<1>2. ClockTypes
  BY <1>1 DEF ClockTypes
<1>3. RowStands /\ MemoryStands /\ WatchedStands /\ PauseStands
  BY <1>1 DEF RowStands, MemoryStands, WatchedStands, PauseStands
<1> QED BY <1>2, <1>3 DEF ClockInv

\* maybeFilePositionReport() adds at most one window to the row, and no window
\* twice.
LEMMA ReportIsOnce ==
  ASSUME now \in Nat, NEW f \in FlightRow, NEW m \in Accumulators, f.start <= now, Clock!IsInjective(f.reports)
  PROVE  LET p == Clock!Report(f, m)
         IN  /\ p[1] \in FlightRow /\ p[2] \in Accumulators /\ Clock!IsInjective(p[1].reports)
             /\ p[1].start = f.start /\ p[1].points = f.points /\ p[1].duration = f.duration
             /\ p[1].paused = f.paused
             /\ p[2].last = m.last /\ p[2].active = m.active /\ p[2].interrupted = m.interrupted
             /\ p[2].count = m.count
<1> DEFINE window == (now - f.start) \div ReportInterval
           p == Clock!Report(f, m)
           f1 == [f EXCEPT !.reports = Append(@, window)]
           m1 == [m EXCEPT !.window = window]
<1>1. CASE p = <<f, m>>
  BY <1>1
<1>2. CASE p # <<f, m>>
  <2>1. /\ ReportInterval # 0
        /\ p = <<IF window \in Clock!Range(f.reports) THEN f ELSE f1, m1>>
    BY <1>2 DEF Clock!Report
  <2>2. window \in Nat
    <3>1. now - f.start \in Nat /\ ReportInterval \in Nat \ {0}
      BY <2>1, ClockAssumption DEF FlightRow
    <3>2. \A a \in Nat, b \in Nat \ {0} : a \div b \in Nat
      OBVIOUS
    <3> QED BY <3>1, <3>2
  <2> HIDE DEF window
  <2>3. /\ m1 \in Accumulators /\ m1.last = m.last /\ m1.active = m.active /\ m1.interrupted = m.interrupted
        /\ m1.count = m.count
    BY <2>2 DEF Accumulators
  <2> DEFINE longer == Append(f.reports, window)
  <2>4. f.reports \in Seq(Nat) /\ longer \in Seq(Nat)
    BY <2>2 DEF FlightRow
  <2>5. f1 = [f EXCEPT !.reports = longer]
    OBVIOUS
  <2>6. window \notin Clock!Range(f.reports) => Clock!IsInjective(longer)
    <3>1. /\ Len(longer) = Len(f.reports) + 1 /\ longer[Len(f.reports) + 1] = window
          /\ \A i \in 1..Len(f.reports) : longer[i] = f.reports[i]
      BY <2>2, <2>4
    <3>2. DOMAIN longer = 1..(Len(f.reports) + 1) /\ DOMAIN f.reports = 1..Len(f.reports) /\ Len(f.reports) \in Nat
      BY <2>4, <3>1
    <3> HIDE DEF longer
    <3> SUFFICES ASSUME window \notin Clock!Range(f.reports), NEW i \in DOMAIN longer, NEW j \in DOMAIN longer,
                        longer[i] = longer[j]
                 PROVE  i = j
      BY DEF Clock!IsInjective
    <3>3. \A k \in DOMAIN f.reports : f.reports[k] # window
      BY DEF Clock!Range
    <3>4. CASE i \in DOMAIN f.reports /\ j \in DOMAIN f.reports
      BY <3>1, <3>2, <3>4 DEF Clock!IsInjective
    <3>5. CASE i \notin DOMAIN f.reports /\ j \notin DOMAIN f.reports
      BY <3>2, <3>5
    <3>6. CASE i \in DOMAIN f.reports /\ j \notin DOMAIN f.reports
      <4>1. j = Len(f.reports) + 1
        BY <3>2, <3>6
      <4> QED BY <3>1, <3>2, <3>3, <3>6, <4>1
    <3>7. CASE i \notin DOMAIN f.reports /\ j \in DOMAIN f.reports
      <4>1. i = Len(f.reports) + 1
        BY <3>2, <3>7
      <4> QED BY <3>1, <3>2, <3>3, <3>7, <4>1
    <3> QED BY <3>4, <3>5, <3>6, <3>7
  <2> HIDE DEF longer, f1, m1
  <2>7. /\ f1 \in FlightRow /\ f1.reports = longer /\ f1.start = f.start /\ f1.points = f.points
        /\ f1.duration = f.duration /\ f1.paused = f.paused
    BY <2>4, <2>5 DEF FlightRow
  <2>8. CASE window \in Clock!Range(f.reports)
    BY <2>1, <2>3, <2>8
  <2>9. CASE window \notin Clock!Range(f.reports)
    BY <2>1, <2>3, <2>6, <2>7, <2>9
  <2> QED BY <2>8, <2>9
<1> QED BY <1>1, <1>2

\* writePoint() and maybeFilePositionReport() from a row and the memory of it:
\* one more point, at now, and the gap before it where it counts.
LEMMA RecordAddsAPoint ==
  ASSUME now \in Nat, NEW f \in FlightRow, NEW m \in Accumulators, f.start <= now, m.last <= now,
         Clock!IsInjective(f.reports), Clock!Record(f, m)
  PROVE  /\ flight' \in FlightRow /\ memory' \in Accumulators /\ Clock!IsInjective(flight'.reports)
         /\ flight'.start = f.start /\ flight'.points = Append(f.points, now) /\ flight'.duration = f.duration
         /\ flight'.paused = f.paused
         /\ memory'.last = now /\ memory'.count = m.count + 1 /\ memory'.interrupted = FALSE
         /\ memory'.active = IF m.count > 0 /\ Clock!Counts(m, now - m.last) THEN m.active + (now - m.last)
                             ELSE m.active
<1> DEFINE gap == now - m.last
           active == IF m.count > 0 /\ Clock!Counts(m, gap) THEN m.active + gap ELSE m.active
           longer == Append(f.points, now)
           f1 == [f EXCEPT !.points = longer]
           m1 == [m EXCEPT !.active = active, !.last = now, !.count = m.count + 1, !.interrupted = FALSE]
<1>1. Clock!WritePoint(f, m) = Clock!Report(f1, m1)
  BY DEF Clock!WritePoint
<1>2. gap \in Nat /\ m.active \in Nat /\ m.count + 1 \in Nat
  BY DEF Accumulators
<1>3. active \in Nat
  BY <1>2
<1> HIDE DEF active
<1>4. /\ m1 \in Accumulators /\ m1.last = now /\ m1.active = active /\ m1.interrupted = FALSE
      /\ m1.count = m.count + 1
  BY <1>2, <1>3 DEF Accumulators
<1>5. longer \in Seq(Nat)
  BY DEF FlightRow
<1> HIDE DEF longer
<1>6. /\ f1 \in FlightRow /\ f1.points = longer /\ f1.start = f.start /\ f1.reports = f.reports
      /\ f1.duration = f.duration /\ f1.paused = f.paused
  BY <1>5 DEF FlightRow
<1> HIDE DEF f1, m1
<1> DEFINE p == Clock!Report(f1, m1)
<1>7. /\ p[1] \in FlightRow /\ p[2] \in Accumulators /\ Clock!IsInjective(p[1].reports)
      /\ p[1].start = f1.start /\ p[1].points = f1.points /\ p[1].duration = f1.duration
      /\ p[1].paused = f1.paused
      /\ p[2].last = m1.last /\ p[2].active = m1.active /\ p[2].interrupted = m1.interrupted
      /\ p[2].count = m1.count
  BY <1>4, <1>6, ReportIsOnce
<1>8. flight' = p[1] /\ memory' = p[2]
  BY <1>1 DEF Clock!Record
<1> HIDE DEF p
<1> QED BY <1>4, <1>6, <1>7, <1>8 DEF active, longer

\* What the invariant says of an open flight's row, field by field.
LEMMA RowFacts ==
  ASSUME ClockInv, flight # NULL
  PROVE  /\ flight \in FlightRow /\ flight.start \in Nat /\ now \in Nat /\ banked \in Nat
         /\ flight.points \in Seq(Nat) /\ Len(flight.points) \in Nat /\ Len(flight.points) > 0
         /\ flight.points[Len(flight.points)] \in Nat /\ flight.points[Len(flight.points)] <= now
         /\ Clock!Rebuilt(flight.points) \in Nat
         /\ flight.start + Clock!Rebuilt(flight.points) <= flight.points[Len(flight.points)]
         /\ flight.start <= now /\ Clock!IsInjective(flight.reports)
<1>1. flight \in FlightRow /\ flight.start \in Nat /\ now \in Nat /\ banked \in Nat /\ flight.points \in Seq(Nat)
  BY DEF ClockInv, ClockTypes, FlightRow
<1> DEFINE n == Len(flight.points)
           sum == Clock!Rebuilt(flight.points)
<1>2. n > 0 /\ flight.points[n] <= now /\ flight.start + sum <= flight.points[n]
      /\ Clock!IsInjective(flight.reports)
  BY DEF ClockInv, RowStands
<1>3. sum \in Nat
  BY <1>1, RebuiltWithAPoint
<1>4. n \in Nat /\ flight.points[n] \in Nat
  BY <1>1, <1>2
<1> HIDE DEF n, sum
<1>5. flight.start <= now
  BY <1>1, <1>2, <1>3, <1>4
<1> QED BY <1>1, <1>2, <1>3, <1>4, <1>5 DEF n, sum

\* And of the manager that follows it.
LEMMA MemoryFacts ==
  ASSUME ClockInv, memory # NULL
  PROVE  /\ flight # NULL /\ flight.duration = NULL
         /\ memory \in Accumulators /\ memory.last \in Nat /\ memory.active \in Nat /\ memory.interrupted \in BOOLEAN
         /\ memory.count \in Nat /\ memory.count > 0 /\ memory.last <= now
         /\ memory.last = flight.points[Len(flight.points)] /\ memory.count = Len(flight.points)
         /\ banked <= memory.active /\ memory.active <= Clock!Rebuilt(flight.points)
<1>1. memory \in Accumulators /\ memory.last \in Nat /\ memory.active \in Nat /\ memory.interrupted \in BOOLEAN
      /\ memory.count \in Nat
  BY DEF ClockInv, ClockTypes, Accumulators
<1>2. flight # NULL /\ flight.duration = NULL /\ memory.last = flight.points[Len(flight.points)]
      /\ memory.count = Len(flight.points) /\ banked <= memory.active /\ memory.active <= Clock!Rebuilt(flight.points)
  BY DEF ClockInv, MemoryStands
<1>3. memory.last <= now /\ memory.count > 0
  BY <1>2, RowFacts
<1> QED BY <1>1, <1>2, <1>3

\* What the invariant says of a flight is what the two properties say.
LEMMA InvClock == ClockInv => FlightTimeIsFlown
<1> SUFFICES ASSUME ClockInv PROVE Clock!PausesAreNotFlown /\ Clock!RestartKeepsTheFlight
  BY DEF FlightTimeIsFlown
<1>1. Clock!RestartKeepsTheFlight
  <2>1. memory # NULL => memory.active >= banked /\ memory.count = Len(flight.points)
    <3> SUFFICES ASSUME memory # NULL PROVE memory.active >= banked /\ memory.count = Len(flight.points)
      OBVIOUS
    <3>1. memory.active \in Nat /\ banked \in Nat
      BY DEF ClockInv, ClockTypes, Accumulators
    <3>2. banked <= memory.active /\ memory.count = Len(flight.points)
      BY DEF ClockInv, MemoryStands
    <3> QED BY <3>1, <3>2
  <2>2. flight # NULL => Clock!IsInjective(flight.reports)
    BY DEF ClockInv, RowStands
  <2> QED BY <2>1, <2>2 DEF Clock!RestartKeepsTheFlight
<1>2. Clock!PausesAreNotFlown
  <2> SUFFICES ASSUME flight # NULL
               PROVE  LET counted == IF flight.duration # NULL THEN flight.duration
                                     ELSE IF memory # NULL THEN memory.active ELSE 0
                      IN  /\ restarts = 0 /\ ~flight.paused => counted + stopped <= now - flight.start
                          /\ counted <= now - flight.start
    BY DEF Clock!PausesAreNotFlown
  <2> DEFINE n == Len(flight.points)
             sum == Clock!Rebuilt(flight.points)
  <2>1. now \in Nat /\ stopped \in Nat /\ flight.start \in Nat /\ flight.points[n] \in Nat /\ sum \in Nat
        /\ flight.points[n] <= now /\ flight.start + sum <= flight.points[n]
    BY RowFacts DEF ClockInv, ClockTypes
  <2>2. flight.duration # NULL => flight.duration \in Nat /\ flight.start + flight.duration <= now
    BY DEF ClockInv, ClockTypes, RowStands, FlightRow
  <2>5. memory # NULL => /\ flight.duration = NULL /\ memory.last \in Nat /\ memory.active \in Nat
                         /\ memory.last <= now /\ memory.last = flight.points[n] /\ memory.active <= sum
    BY MemoryFacts
  <2> HIDE DEF n, sum
  <2>6. CASE flight.duration # NULL
    <3>1. flight.duration <= now - flight.start
      BY <2>1, <2>2, <2>6
    <3>2. restarts = 0 /\ ~flight.paused => flight.duration + stopped <= now - flight.start
      <4> SUFFICES ASSUME restarts = 0, ~flight.paused PROVE flight.duration + stopped <= now - flight.start
        OBVIOUS
      <4>1. flight.start + flight.duration + stopped <= now
        BY <2>6 DEF ClockInv, PauseStands
      <4>2. flight.duration \in Nat
        BY <2>2, <2>6
      <4> QED BY <2>1, <4>1, <4>2
    <3> QED BY <2>6, <3>1, <3>2
  <2>7. CASE flight.duration = NULL /\ memory # NULL
    <3>1. memory.active <= now - flight.start
      BY <2>1, <2>5, <2>7
    <3>2. restarts = 0 /\ ~flight.paused => memory.active + stopped <= now - flight.start
      <4> SUFFICES ASSUME restarts = 0, ~flight.paused PROVE memory.active + stopped <= now - flight.start
        OBVIOUS
      <4>1. \/ flight.start + memory.active + stopped <= now
            \/ flight.start + memory.active + stopped <= memory.last
        BY <2>7 DEF ClockInv, PauseStands
      <4>2. memory.last <= now /\ memory.last \in Nat /\ memory.active \in Nat
        BY <2>5, <2>7
      <4>3. flight.start + memory.active + stopped <= now
        BY <2>1, <4>1, <4>2
      <4> QED BY <2>1, <4>2, <4>3
    <3> QED BY <2>7, <3>1, <3>2
  <2>8. CASE flight.duration = NULL /\ memory = NULL
    <3>1. 0 <= now - flight.start
      BY <2>1
    <3>2. ~(restarts = 0)
      BY <2>8 DEF ClockInv, WatchedStands
    <3> QED BY <2>8, <3>1, <3>2
  <2> QED BY <2>6, <2>7, <2>8
<1> QED BY <1>1, <1>2

\* The row of an open flight after one more point.
LEMMA RowWithAPoint ==
  ASSUME ClockInv, flight # NULL, flight' \in FlightRow, flight'.start = flight.start,
         flight'.points = Append(flight.points, now)
  PROVE  /\ Len(flight'.points) = Len(flight.points) + 1 /\ flight'.points[Len(flight'.points)] = now
         /\ Clock!Rebuilt(flight'.points) = Clock!Rebuilt(flight.points)
              + Clock!CountedGap(now - flight.points[Len(flight.points)])
         /\ flight'.start + Clock!Rebuilt(flight'.points) <= now
<1> DEFINE n == Len(flight.points)
           latest == flight.points[n]
           sum == Clock!Rebuilt(flight.points)
           gap == now - latest
<1>1. /\ flight.start \in Nat /\ now \in Nat /\ flight.points \in Seq(Nat) /\ n \in Nat /\ n > 0
      /\ latest \in Nat /\ latest <= now /\ sum \in Nat /\ flight.start + sum <= latest
  BY RowFacts
<1>2. Len(flight'.points) = n + 1 /\ flight'.points[n + 1] = now
  BY <1>1
<1>3. Clock!Rebuilt(flight'.points) = sum + Clock!CountedGap(gap)
  BY <1>1, RebuiltWithAPoint
<1> HIDE DEF n, latest, sum
<1>4. gap \in Nat /\ gap \in Int
  BY <1>1
<1>5. Clock!CountedGap(gap) \in Nat /\ Clock!CountedGap(gap) <= gap
  BY <1>4, GapsAreCounted
<1>6. flight'.start + Clock!Rebuilt(flight'.points) <= now
  BY <1>1, <1>3, <1>5
<1> QED BY <1>2, <1>3, <1>6 DEF n, latest, sum

\* A gap that counts moves the flight time and the clock alike.
LEMMA GapMovesBoth ==
  ASSUME NEW a \in Nat, NEW b \in Nat, NEW c \in Nat, NEW l \in Nat, NEW g \in Nat, a + b + c <= l
  PROVE  a + (b + g) + c <= l + g
OBVIOUS

\* startFlight(): the row begins with its first point and nothing is counted.
LEMMA StartKeepsClock == ClockInv /\ Clock!StartFlight => ClockInv'
<1> SUFFICES ASSUME ClockInv, Clock!StartFlight PROVE ClockInv'
  OBVIOUS
<1>1. /\ flight = NULL /\ memory = NULL /\ banked' = memory'.active
      /\ UNCHANGED <<now, frozen, isPaused, restarts, stopped, unwatched>>
  BY DEF Clock!StartFlight
<1>2. now \in Nat /\ frozen \in BOOLEAN /\ restarts = 0 /\ stopped = 0 /\ isPaused = frozen
  BY <1>1 DEF ClockInv, ClockTypes, WatchedStands
<1> DEFINE Row(linked) == [start |-> now, points |-> <<>>, reports |-> <<>>, duration |-> NULL, linked |-> linked,
                           paused |-> frozen]
           m == [last |-> now, active |-> 0, interrupted |-> FALSE, count |-> 0, window |-> 0]
<1>3. PICK linked \in BOOLEAN : Clock!Record(Row(linked), m)
  BY DEF Clock!StartFlight
<1> DEFINE f == Row(linked)
<1>4. f \in FlightRow /\ m \in Accumulators
  BY <1>2 DEF FlightRow, Accumulators
<1>5. f.start = now /\ f.points = <<>> /\ f.duration = NULL /\ f.paused = frozen /\ f.reports = <<>>
      /\ m.last = now /\ m.count = 0 /\ m.active = 0
  OBVIOUS
<1>6. Clock!IsInjective(f.reports)
  BY <1>5 DEF Clock!IsInjective
<1>7. Clock!Record(f, m)
  BY <1>3
<1> HIDE DEF f, m
<1>8. /\ flight' \in FlightRow /\ memory' \in Accumulators /\ Clock!IsInjective(flight'.reports)
      /\ flight'.start = now /\ flight'.points = Append(<<>>, now) /\ flight'.duration = NULL
      /\ flight'.paused = frozen
      /\ memory'.last = now /\ memory'.count = 1 /\ memory'.interrupted = FALSE /\ memory'.active = 0
  <2>1. now \in Nat /\ f.start <= now /\ m.last <= now
    BY <1>2, <1>5
  <2>2. /\ flight' \in FlightRow /\ memory' \in Accumulators /\ Clock!IsInjective(flight'.reports)
        /\ flight'.start = f.start /\ flight'.points = Append(f.points, now) /\ flight'.duration = f.duration
        /\ flight'.paused = f.paused
        /\ memory'.last = now /\ memory'.count = m.count + 1 /\ memory'.interrupted = FALSE
        /\ memory'.active = IF m.count > 0 /\ Clock!Counts(m, now - m.last) THEN m.active + (now - m.last)
                            ELSE m.active
    BY <1>4, <1>6, <1>7, <2>1, RecordAddsAPoint
  <2>3. memory'.active = 0 /\ memory'.count = 1
    BY <1>5, <2>2
  <2> QED BY <1>5, <2>2, <2>3
<1>9. Clock!Rebuilt(flight'.points) = 0
  <2>1. <<>> \in Seq(Nat) /\ Len(<<>>) = 0
    OBVIOUS
  <2> QED BY <1>2, <1>8, <2>1, RebuiltWithAPoint
<1>10. Len(flight'.points) = 1 /\ flight'.points[1] = now
  BY <1>2, <1>8
<1>11. flight' # NULL
  BY <1>8, ClockAssumption DEF FlightRow
<1>12. ClockTypes'
  BY <1>1, <1>2, <1>8 DEF ClockTypes, ClockInv
<1>13. RowStands'
  BY <1>1, <1>2, <1>8, <1>9, <1>10 DEF RowStands
<1>14. MemoryStands'
  BY <1>1, <1>2, <1>8, <1>9, <1>10, <1>11 DEF MemoryStands
<1>15. memory' # NULL
  BY <1>8, ClockAssumption DEF Accumulators
<1>16. WatchedStands'
  BY <1>1, <1>2, <1>11, <1>15 DEF WatchedStands
<1>17. PauseStands'
  BY <1>1, <1>2, <1>8 DEF PauseStands
<1> QED BY <1>12, <1>13, <1>14, <1>16, <1>17 DEF ClockInv

\* A point the manager writes: what it counts is what a restart would count.
LEMMA PointKeepsClock ==
  ASSUME ClockInv, memory # NULL, ~isPaused, Clock!Record(flight, memory), banked' = memory'.active,
         UNCHANGED <<now, frozen, isPaused, restarts, stopped, unwatched>>
  PROVE  ClockInv'
<1> DEFINE n == Len(flight.points)
           sum == Clock!Rebuilt(flight.points)
           gap == now - memory.last
           counted == memory.count > 0 /\ Clock!Counts(memory, gap)
<1>1. /\ flight # NULL /\ flight.duration = NULL
      /\ memory \in Accumulators /\ memory.last \in Nat /\ memory.active \in Nat /\ memory.interrupted \in BOOLEAN
      /\ memory.count \in Nat /\ memory.count > 0 /\ memory.last <= now
      /\ memory.last = flight.points[n] /\ memory.count = n
      /\ memory.active <= sum
  BY MemoryFacts
<1>2. /\ flight \in FlightRow /\ flight.start \in Nat /\ now \in Nat /\ flight.points \in Seq(Nat) /\ sum \in Nat
      /\ flight.start <= now /\ Clock!IsInjective(flight.reports) /\ n \in Nat
  BY <1>1, RowFacts
<1>3. /\ flight' \in FlightRow /\ memory' \in Accumulators /\ Clock!IsInjective(flight'.reports)
      /\ flight'.start = flight.start /\ flight'.points = Append(flight.points, now) /\ flight'.duration = NULL
      /\ flight'.paused = flight.paused
      /\ memory'.last = now /\ memory'.count = n + 1 /\ memory'.interrupted = FALSE
      /\ memory'.active = IF counted THEN memory.active + gap ELSE memory.active
  BY <1>1, <1>2, RecordAddsAPoint
<1>4. /\ Len(flight'.points) = n + 1 /\ flight'.points[Len(flight'.points)] = now
      /\ Clock!Rebuilt(flight'.points) = sum + Clock!CountedGap(gap)
      /\ flight'.start + Clock!Rebuilt(flight'.points) <= now
  BY <1>1, <1>3, RowWithAPoint
<1> HIDE DEF n, sum
<1>5. gap \in Nat
  BY <1>1, <1>2
<1>6. /\ Clock!CountedGap(gap) \in Nat
      /\ gap <= MaxCountedGap => Clock!CountedGap(gap) = gap
  BY <1>5, GapsAreCounted
<1>7. counted => ~memory.interrupted /\ gap <= MaxCountedGap
  BY DEF Clock!Counts
<1> HIDE DEF gap, counted
<1>8. memory'.active \in Nat
  BY <1>3 DEF Accumulators
<1>9. memory'.active <= Clock!Rebuilt(flight'.points)
  <2>1. CASE counted
    BY <1>1, <1>2, <1>3, <1>4, <1>5, <1>6, <1>7, <2>1
  <2>2. CASE ~counted
    BY <1>1, <1>2, <1>3, <1>4, <1>5, <1>6, <2>2
  <2> QED BY <2>1, <2>2
<1>10. flight' # NULL /\ memory' # NULL
  BY <1>3, ClockAssumption DEF FlightRow, Accumulators
<1>11. ClockTypes'
  BY <1>3, <1>8 DEF ClockTypes, ClockInv
<1>12. RowStands'
  BY <1>1, <1>2, <1>3, <1>4, <1>9 DEF RowStands
<1>13. MemoryStands'
  BY <1>3, <1>4, <1>8, <1>9, <1>10 DEF MemoryStands
<1>14. WatchedStands'
  BY <1>10 DEF WatchedStands, ClockInv
<1>15. PauseStands'
  <2> SUFFICES ASSUME restarts = 0, ~flight.paused
               PROVE  ~frozen /\ flight.start + memory'.active + stopped <= now
    BY <1>3 DEF PauseStands
  <2>1. ~frozen
    BY DEF WatchedStands, ClockInv
  <2>2. stopped \in Nat
    BY DEF ClockInv, ClockTypes
  <2>3. /\ memory.interrupted => flight.start + memory.active + stopped <= now
        /\ ~memory.interrupted => flight.start + memory.active + stopped <= memory.last
    BY <1>1 DEF ClockInv, PauseStands
  <2>4. CASE counted
    <3>1. flight.start + memory.active + stopped <= memory.last
      BY <1>7, <2>3, <2>4
    <3>2. memory'.active = memory.active + gap /\ now = memory.last + gap
      BY <1>1, <1>2, <1>3, <2>4 DEF gap
    <3> HIDE DEF gap
    <3>3. flight.start + (memory.active + gap) + stopped <= now
      <4>1. flight.start + (memory.active + gap) + stopped <= memory.last + gap
        BY <1>1, <1>2, <1>5, <2>2, <3>1, GapMovesBoth
      <4> QED BY <3>2, <4>1
    <3>4. flight.start + memory'.active + stopped <= now
      BY <3>2, <3>3
    <3> QED BY <2>1, <3>4
  <2>5. CASE ~counted
    <3>1. flight.start + memory.active + stopped <= now
      BY <1>1, <1>2, <2>2, <2>3
    <3> QED BY <1>3, <2>1, <2>5, <3>1
  <2> QED BY <2>4, <2>5
<1> QED BY <1>11, <1>12, <1>13, <1>14, <1>15 DEF ClockInv

\* A slewed or paused frame only marks that the gap is not to be counted, and so
\* does a pause event that stops the simulator.
LEMMA MarkKeepsClock ==
  ASSUME ClockInv, memory # NULL, memory' = [memory EXCEPT !.interrupted = TRUE],
         UNCHANGED <<now, flight, restarts, stopped, banked>>,
         frozen' \in BOOLEAN, isPaused' \in BOOLEAN, restarts = 0 => isPaused' = frozen'
  PROVE  ClockInv'
<1>1. /\ flight # NULL /\ flight.duration = NULL /\ memory \in Accumulators
      /\ memory.last \in Nat /\ memory.active \in Nat /\ memory.last <= now
  BY MemoryFacts
<1>2. /\ memory' \in Accumulators /\ memory'.last = memory.last /\ memory'.active = memory.active
      /\ memory'.count = memory.count /\ memory'.interrupted = TRUE
  BY <1>1 DEF Accumulators
<1>3. ClockTypes'
  BY <1>2 DEF ClockTypes, ClockInv
<1>4. RowStands'
  BY DEF RowStands, ClockInv
<1>5. MemoryStands'
  BY <1>1, <1>2 DEF MemoryStands, ClockInv
<1>6. memory' # NULL
  BY <1>2, ClockAssumption DEF Accumulators
<1>7. WatchedStands'
  BY <1>1, <1>6 DEF WatchedStands, ClockInv
<1>8. PauseStands'
  <2> SUFFICES ASSUME restarts = 0, ~flight.paused PROVE flight.start + memory.active + stopped <= now
    BY <1>1, <1>2 DEF PauseStands
  <2>1. /\ memory.interrupted => flight.start + memory.active + stopped <= now
        /\ ~memory.interrupted => flight.start + memory.active + stopped <= memory.last
    BY <1>1 DEF ClockInv, PauseStands
  <2>2. flight.start \in Nat /\ now \in Nat /\ stopped \in Nat
    BY <1>1, RowFacts DEF ClockInv, ClockTypes
  <2> QED BY <1>1, <2>1, <2>2
<1> QED BY <1>3, <1>4, <1>5, <1>7, <1>8 DEF ClockInv

\* onFrame(): a frame of a paused or slewing aircraft marks, another may write.
LEMMA FrameKeepsClock == ClockInv /\ Clock!Frame => ClockInv'
<1> SUFFICES ASSUME ClockInv, Clock!Frame PROVE ClockInv'
  OBVIOUS
<1>1. memory # NULL /\ UNCHANGED <<now, frozen, isPaused, restarts, stopped, unwatched>>
  BY DEF Clock!Frame
<1>2. \/ memory' = [memory EXCEPT !.interrupted = TRUE] /\ UNCHANGED <<flight, banked>>
      \/ ~isPaused /\ Clock!Record(flight, memory) /\ banked' = memory'.active
  BY DEF Clock!Frame
<1>3. CASE memory' = [memory EXCEPT !.interrupted = TRUE] /\ UNCHANGED <<flight, banked>>
  <2>1. frozen \in BOOLEAN /\ isPaused \in BOOLEAN /\ (restarts = 0 => isPaused = frozen)
    BY DEF ClockInv, ClockTypes, WatchedStands
  <2> QED BY <1>1, <1>3, <2>1, MarkKeepsClock
<1>4. CASE ~isPaused /\ Clock!Record(flight, memory) /\ banked' = memory'.active
  BY <1>1, <1>4, PointKeepsClock
<1> QED BY <1>2, <1>3, <1>4

\* setPaused(): the manager follows the simulator from the event on.
LEMMA PauseKeepsClock == ClockInv /\ Clock!Pause => ClockInv'
<1> SUFFICES ASSUME ClockInv, Clock!Pause PROVE ClockInv'
  OBVIOUS
<1>1. /\ frozen' = ~frozen /\ isPaused' = frozen' /\ UNCHANGED <<now, flight, restarts, stopped, unwatched, banked>>
      /\ memory' = IF frozen' /\ memory # NULL THEN [memory EXCEPT !.interrupted = TRUE] ELSE memory
  BY DEF Clock!Pause
<1>2. frozen' \in BOOLEAN /\ isPaused' \in BOOLEAN
  BY <1>1 DEF ClockInv, ClockTypes
<1>3. CASE frozen' /\ memory # NULL
  BY <1>1, <1>2, <1>3, MarkKeepsClock
<1>4. CASE ~(frozen' /\ memory # NULL)
  <2>1. memory' = memory
    BY <1>1, <1>4
  <2>2. ClockTypes' /\ RowStands' /\ MemoryStands' /\ WatchedStands'
    BY <1>1, <1>2, <2>1 DEF ClockInv, ClockTypes, RowStands, MemoryStands, WatchedStands
  <2>3. PauseStands'
    BY <1>1, <1>4, <2>1 DEF ClockInv, PauseStands
  <2> QED BY <2>2, <2>3 DEF ClockInv
<1> QED BY <1>3, <1>4

\* endFlight(): the row takes what was counted, and the tail where it counts.
LEMMA EndKeepsClock == ClockInv /\ Clock!EndFlight => ClockInv'
<1> SUFFICES ASSUME ClockInv, Clock!EndFlight PROVE ClockInv'
  OBVIOUS
<1> DEFINE tail == now - memory.last
           duration1 == IF Clock!Counts(memory, tail) THEN memory.active + tail ELSE memory.active
<1>1. /\ memory # NULL /\ memory' = NULL /\ flight' = [flight EXCEPT !.duration = duration1]
      /\ UNCHANGED <<now, frozen, isPaused, restarts, stopped, unwatched, banked>>
  BY DEF Clock!EndFlight
<1>2. /\ flight # NULL
      /\ memory.last \in Nat /\ memory.active \in Nat /\ memory.last <= now
      /\ memory.last = flight.points[Len(flight.points)] /\ memory.active <= Clock!Rebuilt(flight.points)
  BY <1>1, MemoryFacts
<1>3. /\ flight \in FlightRow /\ flight.start \in Nat /\ now \in Nat /\ Clock!Rebuilt(flight.points) \in Nat
      /\ flight.start + Clock!Rebuilt(flight.points) <= flight.points[Len(flight.points)]
      /\ Len(flight.points) > 0 /\ flight.points[Len(flight.points)] <= now /\ Clock!IsInjective(flight.reports)
  BY <1>2, RowFacts
<1>4. tail \in Nat
  BY <1>2, <1>3
<1>5. duration1 \in Nat /\ duration1 # NULL
  BY <1>2, <1>4, ClockAssumption
<1>6. flight.start + duration1 <= now
  <2>1. flight.start + memory.active <= memory.last
    BY <1>2, <1>3
  <2> QED BY <1>2, <1>3, <2>1
<1>7. restarts = 0 /\ ~flight.paused => flight.start + duration1 + stopped <= now
  <2> SUFFICES ASSUME restarts = 0, ~flight.paused PROVE flight.start + duration1 + stopped <= now
    OBVIOUS
  <2>1. /\ memory.interrupted => flight.start + memory.active + stopped <= now
        /\ ~memory.interrupted => flight.start + memory.active + stopped <= memory.last
    BY <1>1, <1>2 DEF ClockInv, PauseStands
  <2>2. stopped \in Nat
    BY DEF ClockInv, ClockTypes
  <2>3. CASE Clock!Counts(memory, tail)
    <3>1. flight.start + memory.active + stopped <= memory.last
      BY <2>1, <2>3 DEF Clock!Counts
    <3>2. duration1 = memory.active + tail /\ now = memory.last + tail
      BY <1>2, <1>3, <2>3
    <3> HIDE DEF duration1, tail
    <3>3. flight.start + (memory.active + tail) + stopped <= now
      <4>1. flight.start + (memory.active + tail) + stopped <= memory.last + tail
        BY <1>2, <1>3, <1>4, <2>2, <3>1, GapMovesBoth
      <4> QED BY <3>2, <4>1
    <3> QED BY <3>2, <3>3
  <2>4. CASE ~Clock!Counts(memory, tail)
    <3>1. flight.start + memory.active + stopped <= now
      BY <1>2, <1>3, <2>1, <2>2
    <3> QED BY <2>4, <3>1
  <2> QED BY <2>3, <2>4
<1> HIDE DEF duration1
<1>8. /\ flight' \in FlightRow /\ flight'.duration = duration1 /\ flight'.start = flight.start
      /\ flight'.points = flight.points /\ flight'.reports = flight.reports /\ flight'.paused = flight.paused
  BY <1>1, <1>3, <1>5 DEF FlightRow
<1>9. ClockTypes'
  BY <1>1, <1>8 DEF ClockTypes, ClockInv
<1>10. RowStands'
  BY <1>1, <1>3, <1>5, <1>6, <1>8 DEF RowStands
<1>11. MemoryStands'
  BY <1>1 DEF MemoryStands
<1>12. flight' # NULL
  BY <1>8, ClockAssumption DEF FlightRow
<1>13. WatchedStands'
  BY <1>1, <1>5, <1>8, <1>12 DEF WatchedStands, ClockInv
<1>14. PauseStands'
  BY <1>1, <1>7, <1>8 DEF PauseStands
<1> QED BY <1>9, <1>10, <1>11, <1>13, <1>14 DEF ClockInv

\* A process that ends leaves the row; what it knew of pauses is gone with it.
LEMMA RestartKeepsClock == ClockInv /\ Clock!Restart => ClockInv'
<1> SUFFICES ASSUME ClockInv, Clock!Restart PROVE ClockInv'
  OBVIOUS
<1>1. /\ flight # NULL /\ memory' = NULL /\ isPaused' = FALSE /\ restarts' = restarts + 1
      /\ UNCHANGED <<now, frozen, flight, stopped, unwatched, banked>>
  BY DEF Clock!Restart, Clock!Open
<1>2. restarts' \in Nat /\ restarts' # 0
  BY <1>1 DEF ClockInv, ClockTypes
<1>3. ClockTypes'
  BY <1>1, <1>2 DEF ClockTypes, ClockInv
<1>4. RowStands'
  BY <1>1 DEF RowStands, ClockInv
<1>5. MemoryStands' /\ WatchedStands' /\ PauseStands'
  BY <1>1, <1>2 DEF MemoryStands, WatchedStands, PauseStands
<1> QED BY <1>3, <1>4, <1>5 DEF ClockInv

\* resumeFlight(): the new process counts what the points say, which is no less
\* than the old one had counted at the last of them.
LEMMA ResumeKeepsClock == ClockInv /\ Clock!ResumeFlight => ClockInv'
<1> SUFFICES ASSUME ClockInv, Clock!ResumeFlight PROVE ClockInv'
  OBVIOUS
<1> DEFINE n == Len(flight.points)
           sum == Clock!Rebuilt(flight.points)
           m == [last |-> now, active |-> sum, interrupted |-> TRUE, count |-> n, window |-> 0]
<1>1. /\ memory = NULL /\ flight # NULL /\ flight.duration = NULL /\ Clock!Record(flight, m)
      /\ UNCHANGED <<now, frozen, isPaused, restarts, stopped, unwatched, banked>>
  BY DEF Clock!ResumeFlight, Clock!Open
<1>2. restarts # 0
  BY <1>1 DEF ClockInv, WatchedStands
<1>3. /\ flight \in FlightRow /\ flight.start \in Nat /\ now \in Nat /\ flight.points \in Seq(Nat) /\ sum \in Nat
      /\ flight.start <= now /\ Clock!IsInjective(flight.reports) /\ n \in Nat /\ banked \in Nat
  BY <1>1, RowFacts
<1>4. flight.points[n] \in Nat /\ flight.points[n] <= now
  BY <1>1, RowFacts
<1>5. banked <= sum
  BY <1>1 DEF ClockInv, RowStands
<1> HIDE DEF n, sum
<1>6. m \in Accumulators /\ m.last = now /\ m.active = sum /\ m.interrupted = TRUE /\ m.count = n
  BY <1>3 DEF Accumulators
<1> HIDE DEF m
<1>7. ~Clock!Counts(m, now - m.last) /\ m.last <= now
  BY <1>3, <1>6 DEF Clock!Counts
<1>8. /\ flight' \in FlightRow /\ memory' \in Accumulators /\ Clock!IsInjective(flight'.reports)
      /\ flight'.start = flight.start /\ flight'.points = Append(flight.points, now) /\ flight'.duration = NULL
      /\ memory'.last = now /\ memory'.count = n + 1 /\ memory'.active = sum
  BY <1>1, <1>3, <1>6, <1>7, RecordAddsAPoint
<1>9. /\ Len(flight'.points) = n + 1 /\ flight'.points[Len(flight'.points)] = now
      /\ Clock!Rebuilt(flight'.points) = sum + Clock!CountedGap(now - flight.points[n])
      /\ flight'.start + Clock!Rebuilt(flight'.points) <= now
  BY <1>1, <1>8, RowWithAPoint DEF n, sum
<1>10. sum <= Clock!Rebuilt(flight'.points) /\ Clock!Rebuilt(flight'.points) \in Nat
  <2> DEFINE gap == now - flight.points[n]
  <2>1. gap \in Int
    BY <1>3, <1>4
  <2>2. Clock!CountedGap(gap) \in Nat
    BY <2>1, GapsAreCounted
  <2> QED BY <1>3, <1>9, <2>2
<1>11. flight' # NULL /\ memory' # NULL
  BY <1>8, ClockAssumption DEF FlightRow, Accumulators
<1>12. ClockTypes'
  BY <1>1, <1>8 DEF ClockTypes, ClockInv
<1>13. RowStands'
  BY <1>1, <1>3, <1>5, <1>8, <1>9, <1>10 DEF RowStands
<1>14. MemoryStands'
  BY <1>1, <1>5, <1>8, <1>9, <1>10, <1>11 DEF MemoryStands
<1>15. WatchedStands' /\ PauseStands'
  BY <1>1, <1>2, <1>11 DEF WatchedStands, PauseStands
<1> QED BY <1>12, <1>13, <1>14, <1>15 DEF ClockInv

\* A tick of the wall clock: a stopped simulator's is not flown, and the manager
\* has marked it as long as it saw the pause.
LEMMA TickKeepsClock == ClockInv /\ Clock!Tick => ClockInv'
<1> SUFFICES ASSUME ClockInv, Clock!Tick PROVE ClockInv'
  OBVIOUS
<1>1. /\ now' = now + 1 /\ stopped' = IF Clock!Open /\ frozen THEN stopped + 1 ELSE stopped
      /\ UNCHANGED <<frozen, flight, memory, isPaused, restarts, banked>>
  BY DEF Clock!Tick
<1>2. now \in Nat /\ stopped \in Nat /\ now' \in Nat /\ stopped' \in Nat
  BY <1>1 DEF ClockInv, ClockTypes
<1>3. ClockTypes'
  BY <1>1, <1>2 DEF ClockTypes, ClockInv
<1>4. RowStands'
  <2> SUFFICES ASSUME flight # NULL
               PROVE  /\ Len(flight.points) > 0 /\ flight.points[Len(flight.points)] <= now'
                      /\ flight.start + Clock!Rebuilt(flight.points) <= flight.points[Len(flight.points)]
                      /\ Clock!IsInjective(flight.reports)
                      /\ flight.duration # NULL => flight.start + flight.duration <= now'
                      /\ flight.duration = NULL => banked <= Clock!Rebuilt(flight.points)
    BY <1>1 DEF RowStands
  <2>1. /\ Len(flight.points) > 0 /\ flight.points[Len(flight.points)] <= now
        /\ flight.start + Clock!Rebuilt(flight.points) <= flight.points[Len(flight.points)]
        /\ Clock!IsInjective(flight.reports) /\ flight.points[Len(flight.points)] \in Nat /\ flight.start \in Nat
    BY RowFacts
  <2>2. flight.duration = NULL => banked <= Clock!Rebuilt(flight.points)
    BY DEF ClockInv, RowStands
  <2>3. flight.duration # NULL => flight.start + flight.duration <= now /\ flight.duration \in Nat
    BY DEF ClockInv, RowStands, ClockTypes, FlightRow
  <2>4. flight.points[Len(flight.points)] <= now'
    BY <1>1, <1>2, <2>1
  <2>5. flight.duration # NULL => flight.start + flight.duration <= now'
    BY <1>1, <1>2, <2>1, <2>3
  <2> QED BY <2>1, <2>2, <2>4, <2>5
<1>5. MemoryStands'
  BY <1>1 DEF MemoryStands, ClockInv
<1>6. WatchedStands'
  BY <1>1 DEF WatchedStands, ClockInv, Clock!Open
<1>7. PauseStands'
  <2> SUFFICES ASSUME restarts = 0, flight # NULL, ~flight.paused
               PROVE  /\ flight.duration # NULL => flight.start + flight.duration + stopped' <= now'
                      /\ memory # NULL =>
                           /\ frozen => memory.interrupted
                           /\ memory.interrupted => flight.start + memory.active + stopped' <= now'
                           /\ ~memory.interrupted => flight.start + memory.active + stopped' <= memory.last
    BY <1>1 DEF PauseStands
  <2>1. flight.start \in Nat
    BY RowFacts
  <2>2. CASE flight.duration # NULL
    <3>1. memory = NULL /\ stopped' = stopped
      BY <1>1, <2>2, MemoryFacts DEF Clock!Open
    <3>2. flight.start + flight.duration + stopped <= now /\ flight.duration \in Nat
      BY <2>2 DEF ClockInv, PauseStands, ClockTypes, FlightRow
    <3> QED BY <1>1, <1>2, <2>1, <3>1, <3>2
  <2>3. CASE flight.duration = NULL
    <3>1. stopped' = IF frozen THEN stopped + 1 ELSE stopped
      BY <1>1, <2>3 DEF Clock!Open
    <3>2. memory # NULL
      BY <2>3 DEF ClockInv, WatchedStands
    <3>3. memory.active \in Nat /\ memory.last \in Nat
      BY <3>2, MemoryFacts
    <3>4. /\ frozen => memory.interrupted
          /\ memory.interrupted => flight.start + memory.active + stopped <= now
          /\ ~memory.interrupted => flight.start + memory.active + stopped <= memory.last
      BY <3>2 DEF ClockInv, PauseStands
    <3>5. memory.interrupted => flight.start + memory.active + stopped' <= now'
      <4>1. stopped' = stopped \/ stopped' = stopped + 1
        BY <3>1
      <4> QED BY <1>1, <1>2, <2>1, <3>3, <3>4, <4>1
    <3>6. ~memory.interrupted => stopped' = stopped
      BY <3>1, <3>4
    <3> QED BY <2>3, <3>4, <3>5, <3>6
  <2> QED BY <2>2, <2>3
<1> QED BY <1>3, <1>4, <1>5, <1>6, <1>7 DEF ClockInv

\* The flight clock's invariant holds throughout.
LEMMA ClockAlways == Spec => []ClockInv
<1>1. Init => ClockInv
  BY InitClock DEF Init
<1>2. ClockInv /\ [Next]_vars => ClockInv'
  <2>1. CASE ClockInv /\ ClockNext
    BY <2>1, StartKeepsClock, FrameKeepsClock, PauseKeepsClock, EndKeepsClock, RestartKeepsClock, ResumeKeepsClock,
       TickKeepsClock DEF ClockNext, Clock!Next
  <2>2. CASE UNCHANGED clockVars
    BY <2>2 DEF ClockInv, ClockTypes, RowStands, MemoryStands, WatchedStands, PauseStands, clockVars
  <2>3. CASE Next /\ ~ClockNext
    <3>1. UNCHANGED clockVars
      BY <2>3 DEF Next, SchemaNext, SignInNext, GroundNext, PlanNext, ReplayNext, FeaturesNext
    <3> QED BY <2>2, <3>1
  <2>4. CASE UNCHANGED vars
    <3>1. UNCHANGED clockVars
      BY <2>4 DEF vars
    <3> QED BY <2>2, <3>1
  <2> QED BY <2>1, <2>3, <2>4
<1> QED BY <1>1, <1>2, PTL DEF Spec

\* writePoint, setPaused, endFlight, resumeFlight: no tick of a pause is flown,
\* no flight is longer than the wall clock says, and a restart takes nothing of
\* one and files no report of it twice.
THEOREM FlightTimeStaysFlown == Spec => []FlightTimeIsFlown
BY InvClock, ClockAlways, PTL

=============================================================================
