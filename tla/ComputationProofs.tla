------------------------- MODULE ComputationProofs -------------------------
(***************************************************************************)
(* What MCComputations checks over bounded inputs, proved for every input: *)
(* the computations without a filter or a sort.  Each theorem states a     *)
(* property of the component's module, under the types of its arguments    *)
(* and under what tells the model's own values NULL and Text from numbers  *)
(* and from words.                                                         *)
(***************************************************************************)
EXTENDS Questions, SequenceTheorems, WellFoundedInduction, TLAPS

CONSTANTS LimitDefault, LimitMax, WaypointCap, MessageCap, TermMax, QueryMax, MaxBatchRows, BatchRowCeiling

Tool == INSTANCE McpTools
Replica == INSTANCE NavdataRows

-----------------------------------------------------------------------------
(* Whole quotients. *)

\* A quotient is the whole number of times the divisor fits.
LEMMA Quotient ==
  ASSUME NEW x \in Nat, NEW d \in Nat \ {0}
  PROVE  x \div d \in Nat /\ (x \div d) * d <= x /\ x < (x \div d) * d + d
OBVIOUS

\* There is only one such number.
LEMMA QuotientIs ==
  ASSUME NEW x \in Nat, NEW d \in Nat \ {0}, NEW q \in Nat, q * d <= x, x < q * d + d
  PROVE  x \div d = q
OBVIOUS

-----------------------------------------------------------------------------
(* Folds: the library's theorems of induction take operators, these a set   *)
(* and a function by steps instead.                                        *)

\* Induction, said of a set of numbers.
LEMMA AllOfNat ==
  ASSUME NEW S, 0 \in S, \A n \in Nat : n \in S => n + 1 \in S
  PROVE  \A n \in Nat : n \in S
<1> SUFFICES ASSUME Nat \ S # {} PROVE FALSE
  OBVIOUS
<1>1. PICK x \in Nat \ S : \A y \in Nat \ S : ~(<<y, x>> \in OpToRel(<, Nat))
  BY NatLessThanWellFounded, WFMin
<1>2. \A y \in Nat \ S : ~(y < x)
  BY <1>1 DEF OpToRel
<1>3. x # 0 /\ x - 1 \in Nat /\ (x - 1) + 1 = x /\ x - 1 < x
  OBVIOUS
<1>4. x - 1 \in S
  BY <1>2, <1>3
<1> QED BY <1>3, <1>4

\* The highest number of a set, as the folds choose it.
Highest(s) == CHOOSE x \in s : \A y \in s : x >= y

\* A set of numbers up to n that has any has a highest.
LEMMA HighestIs ==
  ASSUME NEW n \in Nat, NEW s \in SUBSET (1..n), s # {}
  PROVE  Highest(s) \in s /\ \A y \in s : Highest(s) >= y
<1> DEFINE Good == {m \in Nat : \A t \in SUBSET (1..m) : t # {} => \E x \in t : \A y \in t : x >= y}
<1>1. 0 \in Good
  <2>1. 1..0 = {}
    OBVIOUS
  <2> QED BY <2>1
<1>2. ASSUME NEW m \in Nat, m \in Good PROVE m + 1 \in Good
  <2> SUFFICES ASSUME NEW t \in SUBSET (1..(m + 1)), t # {} PROVE \E x \in t : \A y \in t : x >= y
    OBVIOUS
  <2>1. CASE m + 1 \in t
    BY <2>1
  <2>2. CASE m + 1 \notin t
    <3>1. t \in SUBSET (1..m)
      BY <2>2
    <3> QED BY <1>2, <3>1
  <2> QED BY <2>1, <2>2
<1>3. n \in Good
  <2> HIDE DEF Good
  <2> QED BY <1>1, <1>2, AllOfNat
<1>4. \E x \in s : \A y \in s : x >= y
  BY <1>3
<1> QED BY <1>4 DEF Highest

LEMMA HighestOfAll ==
  ASSUME NEW n \in Nat, NEW s \in SUBSET (1..n), NEW k \in s, \A y \in s : k >= y
  PROVE  Highest(s) = k
<1>1. Highest(s) \in s /\ \A y \in s : Highest(s) >= y
  BY HighestIs
<1>2. Highest(s) \in s /\ Highest(s) >= k /\ k >= Highest(s)
  BY <1>1
<1>3. \A x, y \in Int : x >= y /\ y >= x => x = y
  OBVIOUS
<1>4. \A x \in s : x \in Int
  OBVIOUS
<1>5. k \in Int /\ Highest(s) \in Int
  BY <1>2, <1>4, Zenon
<1> QED BY <1>2, <1>3, <1>5, Zenon

\* A fold by steps: what it makes of each set of places.
Folded(f, n, base, step) ==
  f = [s \in SUBSET (1..n) |-> IF s = {} THEN base ELSE step[Highest(s)][f[s \ {Highest(s)}]]]

LEMMA FoldExists ==
  ASSUME NEW B, NEW base \in B, NEW n \in Nat, NEW step \in [1..n -> [B -> B]]
  PROVE  \E f \in [SUBSET (1..n) -> B] : Folded(f, n, base, step)
<1> DEFINE Good == {m \in Nat : m <= n => \E f \in [SUBSET (1..m) -> B] : Folded(f, m, base, step)}
<1>1. 0 \in Good
  <2> DEFINE f == [s \in SUBSET (1..0) |-> base]
  <2>1. f \in [SUBSET (1..0) -> B]
    OBVIOUS
  <2>2. \A s \in SUBSET (1..0) : s = {}
    <3>1. 1..0 = {}
      OBVIOUS
    <3> HIDE DEF f
    <3> QED BY <3>1
  <2>3. Folded(f, 0, base, step)
    BY <2>2 DEF Folded
  <2> QED BY <2>1, <2>3
<1>2. ASSUME NEW m \in Nat, m \in Good PROVE m + 1 \in Good
  <2> SUFFICES ASSUME m + 1 <= n
               PROVE  \E f \in [SUBSET (1..(m + 1)) -> B] : Folded(f, m + 1, base, step)
    <3>1. m + 1 \in Nat
      OBVIOUS
    <3> QED BY <3>1
  <2>1. m <= n /\ m + 1 \in 1..n
    OBVIOUS
  <2>2. PICK f \in [SUBSET (1..m) -> B] : Folded(f, m, base, step)
    BY <1>2, <2>1
  <2> DEFINE New(s) == IF m + 1 \in s THEN step[m + 1][f[s \ {m + 1}]] ELSE f[s]
             g == [s \in SUBSET (1..(m + 1)) |-> New(s)]
  <2>3. \A s \in SUBSET (1..(m + 1)) : s \ {m + 1} \in SUBSET (1..m) /\ (m + 1 \notin s => s \in SUBSET (1..m))
    OBVIOUS
  <2>4. \A s \in SUBSET (1..(m + 1)) : New(s) \in B
    <3>1. step[m + 1] \in [B -> B]
      BY <2>1
    <3> QED BY <2>3, <3>1
  <2>5. g \in [SUBSET (1..(m + 1)) -> B]
    BY <2>4
  <2>6. ASSUME NEW s \in SUBSET (1..(m + 1))
        PROVE  New(s) = IF s = {} THEN base ELSE step[Highest(s)][g[s \ {Highest(s)}]]
    <3>1. CASE s = {}
      <4>1. f[{}] = base
        BY <2>2 DEF Folded
      <4> QED BY <3>1, <4>1
    <3>2. CASE m + 1 \in s
      <4>1. Highest(s) = m + 1
        <5>1. m + 1 \in Nat /\ \A y \in s : m + 1 >= y
          OBVIOUS
        <5> QED BY <3>2, <5>1, HighestOfAll
      <4>2. s \ {m + 1} \in SUBSET (1..(m + 1)) /\ m + 1 \notin s \ {m + 1}
        OBVIOUS
      <4>3. g[s \ {m + 1}] = f[s \ {m + 1}]
        BY <4>2
      <4> HIDE DEF g
      <4> QED BY <3>2, <4>1, <4>3
    <3>3. CASE s # {} /\ m + 1 \notin s
      <4>1. s \in SUBSET (1..m)
        BY <2>3, <3>3
      <4>2. Highest(s) \in s
        BY <3>3, <4>1, HighestIs
      <4>3. f[s] = step[Highest(s)][f[s \ {Highest(s)}]]
        BY <2>2, <3>3, <4>1 DEF Folded
      <4>4. s \ {Highest(s)} \in SUBSET (1..(m + 1)) /\ m + 1 \notin s \ {Highest(s)}
        BY <3>3
      <4>5. g[s \ {Highest(s)}] = f[s \ {Highest(s)}]
        BY <4>4
      <4> HIDE DEF g
      <4> QED BY <3>3, <4>3, <4>5
    <3> QED BY <3>1, <3>2, <3>3
  <2>7. Folded(g, m + 1, base, step)
    <3> HIDE DEF New
    <3> QED BY <2>6 DEF Folded
  <2> QED BY <2>5, <2>7
<1>3. n \in Good
  <2> HIDE DEF Good
  <2> QED BY <1>1, <1>2, AllOfNat
<1>4. n <= n
  OBVIOUS
<1> QED BY <1>3, <1>4

\* The places up to k.
LEMMA UpToPlace ==
  ASSUME NEW n \in Nat, NEW k \in 1..n
  PROVE  /\ 1..k \in SUBSET (1..n) /\ 1..k # {} /\ Highest(1..k) = k /\ (1..k) \ {k} = 1..(k - 1)
<1>1. 1..k \in SUBSET (1..n) /\ k \in 1..k /\ \A y \in 1..k : k >= y
  OBVIOUS
<1>2. Highest(1..k) = k
  BY <1>1, HighestOfAll
<1>3. (1..k) \ {k} = 1..(k - 1)
  OBVIOUS
<1> QED BY <1>1, <1>2, <1>3

-----------------------------------------------------------------------------
(* ACARS messages (src/acars.ts). *)

\* A position tells what it was to half a tenth of a minute, wherever it is
\* on the globe, and never says 60 minutes (formatLatLon).
THEOREM PositionsReadTrue == \A v \in Int : Message!PositionReadsTrue(v)
BY DEF Message!PositionReadsTrue, Message!FormatAngle, Message!Round

\* The weights of a load sheet add up whichever of them the plan leaves out,
\* and at most one of payload and zero fuel weight is worked out
\* (buildLoadsheetFigures).
THEOREM LoadsheetsAddUp ==
  ASSUME NULL \notin Int,
         NEW p \in [{"ramp", "takeoff", "taxi", "payload", "est_zfw", "oew"} -> Int \cup {NULL}]
  PROVE  Message!LoadsheetAddsUp(p)
BY DEF Message!LoadsheetAddsUp, Message!LoadsheetFigures

\* A time to go is known from 30 knots up and is then right to half a second
\* of flight (estimateEnrouteSec).
LEMMA EnrouteTimeReadsTrue ==
  ASSUME NULL \notin Int, NEW n \in Nat, NEW gs \in Nat
  PROVE  LET s == Message!EstimateEnrouteSec(n, gs)
         IN  /\ s = NULL <=> gs < 30
             /\ gs >= 30 => s \in Nat /\ 2 * (s * gs - n * 360) \in -gs .. gs
<1> DEFINE x == 2 * (n * 360) + gs
           d == 2 * gs
           q == x \div d
<1>1. ASSUME gs >= 30
      PROVE  /\ q \in Nat
             /\ q * (2 * gs) <= 2 * (n * 360) + gs /\ 2 * (n * 360) + gs < q * (2 * gs) + 2 * gs
  <2>1. x \in Nat /\ d \in Nat \ {0}
    BY <1>1
  <2>2. q \in Nat /\ q * d <= x /\ x < q * d + d
    <3> HIDE DEF x, d
    <3> QED BY <2>1, Quotient
  <2> QED BY <2>2
<1>2. gs >= 30 => Message!EstimateEnrouteSec(n, gs) = q
  BY DEF Message!EstimateEnrouteSec, Message!Round, Message!MIN_ETA_GROUND_SPEED_KTS
<1>3. gs < 30 => Message!EstimateEnrouteSec(n, gs) = NULL
  BY DEF Message!EstimateEnrouteSec, Message!MIN_ETA_GROUND_SPEED_KTS
<1> HIDE DEF q
<1>4. ASSUME gs >= 30 PROVE 2 * (q * gs - n * 360) \in -gs .. gs
  <2>1. q * (2 * gs) = 2 * (q * gs)
    BY <1>1, <1>4
  <2> DEFINE p == q * gs
  <2>2. p \in Int
    BY <1>1, <1>4
  <2> HIDE DEF p
  <2> QED BY <1>1, <1>4, <2>1, <2>2 DEF p
<1> QED BY <1>1, <1>2, <1>3, <1>4

\* A code a leg may be given.
Assigned(code) == code \in (0 .. 4095) \ Message!ReservedCodes

\* A squawk is a code of four octal digits that is not reserved, and is the
\* stride's own code where that is not reserved.
LEMMA SquawkIs ==
  ASSUME NEW leg \in Nat
  PROVE  /\ Assigned(Message!SquawkForLeg(leg))
         /\ (leg * 2481) % 4096 \notin Message!ReservedCodes => Message!SquawkForLeg(leg) = (leg * 2481) % 4096
<1> DEFINE n == (leg * 2481) % 4096
<1>1. n \in 0 .. 4095
  OBVIOUS
<1>2. Message!SquawkForLeg(leg) = IF n \in Message!ReservedCodes THEN (n + 1) % 4096 ELSE n
  BY DEF Message!SquawkForLeg
<1> HIDE DEF n
<1>3. n \in Message!ReservedCodes => Assigned((n + 1) % 4096)
  BY DEF Message!ReservedCodes, Assigned
<1>4. n \notin Message!ReservedCodes => Assigned(n)
  BY <1>1 DEF Assigned
<1>5. Assigned(Message!SquawkForLeg(leg)) /\ (n \notin Message!ReservedCodes => Message!SquawkForLeg(leg) = n)
  <2>1. CASE n \in Message!ReservedCodes
    BY <1>2, <1>3, <2>1
  <2>2. CASE n \notin Message!ReservedCodes
    BY <1>2, <1>4, <2>2
  <2> QED BY <2>1, <2>2
<1> QED BY <1>5 DEF n

\* The stride of the squawks is odd, so it loses no leg number below 4096.
LEMMA StrideIsInvertible ==
  ASSUME NEW a \in Nat, NEW b \in Nat, (a * 2481) % 4096 = (b * 2481) % 4096
  PROVE  (a - b) % 4096 = 0
OBVIOUS

\* No leg whatever is given a reserved code, and two legs that share a code
\* are 4096 apart or had a reserved one stepped over (squawkForLeg).
THEOREM SquawksStayApart == \A leg, other \in Nat : Message!SquawksTellLegsApart(leg, other)
<1> SUFFICES ASSUME NEW leg \in Nat, NEW other \in Nat PROVE Message!SquawksTellLegsApart(leg, other)
  OBVIOUS
<1> DEFINE n == (leg * 2481) % 4096
           m == (other * 2481) % 4096
<1>1. n = m => (leg - other) % 4096 = 0
  BY StrideIsInvertible
<1>2. n \notin Message!ReservedCodes => Message!SquawkForLeg(leg) = n
  BY SquawkIs
<1>3. m \notin Message!ReservedCodes => Message!SquawkForLeg(other) = m
  BY SquawkIs
<1>4. Assigned(Message!SquawkForLeg(leg))
  BY SquawkIs
<1>5. Message!SquawkForLeg(leg) = Message!SquawkForLeg(other)
        => (leg - other) % 4096 = 0 \/ {n, m} \cap Message!ReservedCodes # {}
  <2> HIDE DEF n, m
  <2> QED BY <1>1, <1>2, <1>3
<1> QED BY <1>4, <1>5 DEF Message!SquawksTellLegsApart, Assigned

\* Times, levels, intervals and routes of any size read true: a time never
\* longer than it is, a level within 50 ft, a report interval that is off
\* only when it was set to 0, a route within its limit.
THEOREM NumbersStayTrue ==
  ASSUME NULL \notin Int, Text \notin Int, NEW n \in Nat
  PROVE  Message!NumbersReadTrue(n)
<1>1. \A gs \in {0, 29, 30, 450} :
       LET s == Message!EstimateEnrouteSec(n, gs)
       IN  s = NULL \/ (gs >= 30 /\ 2 * (s * gs - n * 360) \in -gs..gs)
  BY EnrouteTimeReadsTrue
<1>2. n >= 18000 => n - Message!LevelText(n).fl * 100 \in -50..50
  BY DEF Message!LevelText, Message!Round
<1>3. Message!Hhmm(n) # NULL =>
        /\ Message!Hhmm(n).m \in 0..59
        /\ n - (Message!Hhmm(n).h * 3600 + Message!Hhmm(n).m * 60) \in 0..59
  BY DEF Message!Hhmm
<1>4. Message!ParsePositionReportIntervalMs(n) = IF n = 0 THEN 0 ELSE IF n < 500 THEN 30000 ELSE n * 60
  BY DEF Message!ParsePositionReportIntervalMs
<1>5. Message!ClampRoute(n) <= 900
  BY DEF Message!ClampRoute, Message!MAX_ROUTE_BODY_CHARS
<1> QED BY <1>1, <1>2, <1>3, <1>4, <1>5 DEF Message!NumbersReadTrue, Message!MAX_ROUTE_BODY_CHARS

\* NULL is none of the three words for an estimated time.
NoWord == NULL \notin {"TAKEOFF", "FLIGHT END", "APPROXIMATE"}

\* Every report of every flight: its row, its body and its payload speak of
\* one moment, and two share a key only when they are the same report
\* (buildOooiMessage and buildPositionReportMessage).
THEOREM ReportsStayTrue ==
  ASSUME NULL \notin Int, NoWord, NEW i, NEW j,
         i.remaining \in Nat, i.gs \in Nat, i.at \in Nat, i.estimated \in BOOLEAN
  PROVE  Message!ReportsSpeakOfOneMoment(i, j)
<1> DEFINE m == Message!PositionReportMessage(i)
           o == Message!OooiMessage(i)
           s == Message!EstimateEnrouteSec(i.remaining, i.gs)
<1>1. i.remaining \in Nat /\ i.gs \in Nat /\ i.at \in Nat /\ i.estimated \in BOOLEAN
  OBVIOUS
<1>2. (s = NULL <=> i.gs < 30) /\ (i.gs >= 30 => s \in Nat /\ 2 * (s * i.gs - i.remaining * 360) \in -i.gs .. i.gs)
  <2> DEFINE n == i.remaining
             gs == i.gs
  <2>1. n \in Nat /\ gs \in Nat
    OBVIOUS
  <2> HIDE DEF n, gs
  <2>2. LET t == Message!EstimateEnrouteSec(n, gs)
        IN  (t = NULL <=> gs < 30) /\ (gs >= 30 => t \in Nat /\ 2 * (t * gs - n * 360) \in -gs .. gs)
    BY <2>1, EnrouteTimeReadsTrue
  <2> QED BY <2>2 DEF n, gs
<1> HIDE DEF s
<1>3. m.payload.ete = s /\ m.payload.at = i.at /\ m.payload.eta = (IF s = NULL THEN NULL ELSE i.at + s)
  BY DEF Message!PositionReportMessage, Message!PositionReportPayload, s
<1>4. /\ m.sentAt = i.at /\ m.body.time = Message!Hhmmz(i.at) /\ m.body.ete = Message!Hhmm(s)
      /\ m.body.eta = (IF s = NULL THEN NULL ELSE Message!Hhmmz(i.at + s))
  BY DEF Message!PositionReportMessage, Message!PositionReportBody, s
<1>5. m.key = Message!PositionReportMessage(j).key <=> i.flight = j.flight /\ i.window = j.window
  BY DEF Message!PositionReportMessage
<1>6. o.key = Message!OooiMessage(j).key <=> i.flight = j.flight /\ i.event = j.event
  BY DEF Message!OooiMessage
<1>7. o.body.time = Message!Hhmmz(o.payload.at) /\ (o.body.estimated # NULL) = o.payload.estimated
  <2>1. o.body.time = Message!Hhmmz(i.at) /\ o.payload.at = i.at /\ o.payload.estimated = i.estimated
    BY DEF Message!OooiMessage, Message!OooiBody, Message!OooiPayload
  <2>2. o.body.estimated = IF ~i.estimated THEN NULL
          ELSE IF i.event = "OUT" THEN "TAKEOFF" ELSE IF i.event = "ON" THEN "FLIGHT END" ELSE "APPROXIMATE"
    BY DEF Message!OooiMessage, Message!OooiBody
  <2> HIDE DEF o
  <2>3. o.body.estimated # NULL <=> i.estimated
    BY <1>1, <2>2 DEF NoWord
  <2>4. (o.body.estimated # NULL) = i.estimated
    BY <1>1, <2>3, Zenon
  <2> QED BY <2>1, <2>4
<1> HIDE DEF m, o
<1>8. m.body.eta = Message!Hhmmz(m.payload.eta)
  BY <1>3, <1>4 DEF Message!Hhmmz
<1>9. /\ (m.payload.ete = NULL) = (m.payload.eta = NULL)
      /\ (m.payload.ete # NULL => m.payload.eta - m.payload.at = m.payload.ete)
  <2>1. i.gs >= 30 \/ i.gs < 30
    BY <1>1
  <2>2. s # NULL => s \in Nat
    BY <1>2, <2>1
  <2> QED BY <1>1, <1>3, <2>2
<1>10. i.gs >= 30 => m.payload.ete * i.gs * 2 - i.remaining * 720 \in -i.gs .. i.gs
  <2> SUFFICES ASSUME i.gs >= 30 PROVE s * i.gs * 2 - i.remaining * 720 \in -i.gs .. i.gs
    BY <1>3
  <2> DEFINE p == s * i.gs
  <2>1. p \in Int
    BY <1>1, <1>2
  <2>2. 2 * (p - i.remaining * 360) \in -i.gs .. i.gs
    BY <1>2
  <2> HIDE DEF p
  <2>3. p * 2 - i.remaining * 720 \in -i.gs .. i.gs
    BY <1>1, <2>1, <2>2
  <2> QED BY <2>3 DEF p
<1> QED BY <1>3, <1>4, <1>5, <1>6, <1>7, <1>8, <1>9, <1>10
       DEF Message!ReportsSpeakOfOneMoment, Message!MIN_ETA_GROUND_SPEED_KTS, m, o

\* A station as it may be written.
Stations == [letters : STRING, padded : BOOLEAN, lower : BOOLEAN, shaped : BOOLEAN]

\* However it is written a station has one name, and a METAR that is missing
\* is not told (normaliseIcao and the two builders).
THEOREM StationsHaveOneName ==
  ASSUME NEW raw \in Stations, NEW metar, NEW taf, \A r : r.request \in STRING => r # NULL
  PROVE  Message!WeatherIsOfTheStation(raw, metar, taf)
<1> DEFINE m == Message!WxMessages(raw, metar, taf)
           other == [raw EXCEPT !.lower = ~@, !.padded = ~@]
           reply == IF metar = NULL THEN [label |-> "WX UNAVAILABLE", about |-> raw.letters, lines |-> <<>>]
                      ELSE [label |-> "METAR", about |-> raw.letters,
                            lines |-> IF taf = NULL THEN <<metar>> ELSE <<metar, taf>>]
<1>1. Message!NormaliseIcao(other) = Message!NormaliseIcao(raw)
  BY DEF Message!NormaliseIcao, Stations
<1>2. Message!NormaliseIcao(raw).shaped = raw.shaped /\ Message!NormaliseIcao(raw).letters = raw.letters
  BY DEF Message!NormaliseIcao, Stations
<1>3. m = Message!WxMessages(other, metar, taf)
  BY <1>1 DEF Message!WxMessages
<1>4. m = IF ~raw.shaped THEN NULL ELSE [request |-> raw.letters, reply |-> reply]
  BY <1>2 DEF Message!WxMessages
<1>5. raw.shaped \in BOOLEAN /\ raw.letters \in STRING
  BY DEF Stations
<1>6. /\ reply.about = raw.letters /\ (metar = NULL => reply.lines = <<>>)
      /\ (taf # NULL /\ metar # NULL => reply.lines = <<metar, taf>>)
  OBVIOUS
<1> HIDE DEF m, reply, other
<1>7. m = NULL <=> ~raw.shaped
  BY <1>4, <1>5
<1>8. (m = NULL) = ~raw.shaped
  BY <1>5, <1>7, Zenon
<1>9. m # NULL => m.request = raw.letters /\ m.reply = reply
  BY <1>4, <1>7
<1> QED BY <1>3, <1>6, <1>8, <1>9 DEF Message!WeatherIsOfTheStation, m, other

\* A cleared altitude not above the default one.
Early(altitude) == altitude \in Int /\ altitude <= 5000

\* The first altitude of a clearance is a number and not above the default.
LEMMA FirstLevel ==
  ASSUME NULL \notin Int
  PROVE  \A cruise \in Int \cup {NULL} : Early(Message!InitialAltitude(cruise))
<1> SUFFICES ASSUME NEW cruise \in Int \cup {NULL} PROVE Early(Message!InitialAltitude(cruise))
  OBVIOUS
<1> USE DEF Early
<1>1. CASE cruise = NULL
  BY <1>1 DEF Message!InitialAltitude, Message!DEFAULT_INITIAL_ALTITUDE_FT
<1>2. CASE cruise # NULL
  <2> DEFINE S == {5000, cruise}
             low == IF cruise < 5000 THEN cruise ELSE 5000
  <2>1. low \in S /\ \A y \in S : low <= y
    BY <1>2
  <2>2. Message!Min(S) \in S /\ \A y \in S : Message!Min(S) <= y
    BY <1>2, <2>1 DEF Message!Min
  <2> QED BY <1>2, <2>2 DEF Message!InitialAltitude, Message!DEFAULT_INITIAL_ALTITUDE_FT
<1> QED BY <1>1, <1>2

\* A route in a body has a length.
LEMMA RouteIs ==
  ASSUME NULL \notin Int, NEW length \in Nat \cup {NULL}
  PROVE  Message!ClampRoute(length) \in Nat
BY DEF Message!ClampRoute, Message!MAX_ROUTE_BODY_CHARS

\* What a clearance tells.
ClearanceFields == {"from", "to", "route", "altitude", "squawk"}

\* A plan whose four fields of a clearance are of their type.
Unspoilt(plan) ==
  /\ plan["cruiseAltFt"] \in Int \cup {NULL} /\ plan["routeString"] \in Nat \cup {NULL}
  /\ plan["departure"] # Text /\ plan["destination"] # Text

\* A clearance reads back as it was issued, for every plan, leg and loss of
\* fields: what is lost reads as unknown, as the default altitude or as the
\* squawk of no leg, and takes no other field with it (parseClearancePayload).
THEOREM ClearancesReadAsIssued ==
  ASSUME NULL \notin Int, Text \notin Int, NULL # Text, NEW plan, Unspoilt(plan),
         NEW leg \in Nat, NEW damaged \in SUBSET ClearanceFields
  PROVE  Message!ClearanceIsReadAsIssued(plan, leg, damaged)
<1>0. plan["cruiseAltFt"] \in Int \cup {NULL} /\ plan["routeString"] \in Nat \cup {NULL}
  BY DEF Unspoilt
<1>d. NULL \notin Int
  OBVIOUS
<1>a. Early(Message!InitialAltitude(plan["cruiseAltFt"]))
  BY <1>0, <1>d, FirstLevel, Zenon
<1>b. Message!ClampRoute(plan["routeString"]) \in Nat
  BY <1>0, RouteIs
<1>c. Message!SquawkForLeg(leg) \in Nat /\ Message!SquawkForLeg(leg) # 0
  BY DEF Message!SquawkForLeg, Message!ReservedCodes
<1> DEFINE filed == Message!BuildDispatchPayload(plan, <<>>)
           issued == Message!BuildClearanceDetails(filed, leg)
           raw == [form |-> "object", v |-> 1,
                   fields |-> [f \in DOMAIN issued |-> IF f \in damaged THEN Text ELSE issued[f]]]
           read == Message!ParseClearancePayload(raw)
           Str(f) == IF f \in DOMAIN raw.fields /\ raw.fields[f] # Text THEN raw.fields[f] ELSE NULL
<1>1. /\ filed.fields["origin"] = plan["departure"] /\ filed.fields["destination"] = plan["destination"]
      /\ filed.fields["route"] = plan["routeString"] /\ filed.fields["cruise_alt_ft"] = plan["cruiseAltFt"]
  BY DEF Message!BuildDispatchPayload, Message!Fields, Message!PLAN_FIELD
<1> HIDE DEF filed
<1>2. issued = [from |-> plan["departure"], to |-> plan["destination"],
                route |-> Message!ClampRoute(plan["routeString"]),
                altitude |-> Message!InitialAltitude(plan["cruiseAltFt"]), squawk |-> Message!SquawkForLeg(leg)]
  BY <1>1 DEF Message!BuildClearanceDetails
<1>3. issued.altitude \in Int /\ issued.altitude <= 5000 /\ issued.route \in Nat
  <2>1. /\ issued.altitude = Message!InitialAltitude(plan["cruiseAltFt"])
        /\ issued.route = Message!ClampRoute(plan["routeString"])
    BY <1>2
  <2> HIDE DEF issued
  <2> QED BY <2>1, <1>a, <1>b DEF Early
<1>4. issued.squawk \in Nat /\ issued.squawk # 0
  <2>1. issued.squawk = Message!SquawkForLeg(leg)
    BY <1>2
  <2> HIDE DEF issued
  <2> QED BY <2>1, <1>c
<1>5. issued.from # Text /\ issued.to # Text /\ DOMAIN issued = ClearanceFields
  BY <1>2 DEF Unspoilt, ClearanceFields
<1>6. issued = [from |-> issued.from, to |-> issued.to, route |-> issued.route,
                altitude |-> issued.altitude, squawk |-> issued.squawk]
  BY <1>2
<1>7. read = [from |-> Str("from"), to |-> Str("to"), route |-> Str("route"),
              altitude |-> IF Str("altitude") = NULL THEN 5000 ELSE Str("altitude"),
              squawk |-> IF Str("squawk") = NULL THEN 0 ELSE Str("squawk")]
  BY DEF Message!ParseClearancePayload, Message!DEFAULT_INITIAL_ALTITUDE_FT
<1> HIDE DEF issued
<1>8. \A f \in ClearanceFields : issued[f] # Text
  BY <1>3, <1>4, <1>5 DEF ClearanceFields
<1>9. \A f \in ClearanceFields : Str(f) = IF f \in damaged THEN NULL ELSE issued[f]
  BY <1>5, <1>8
<1> HIDE DEF read, Str
<1>10. /\ read.from = IF "from" \in damaged THEN NULL ELSE issued.from
       /\ read.to = IF "to" \in damaged THEN NULL ELSE issued.to
       /\ read.route = IF "route" \in damaged THEN NULL ELSE issued.route
       /\ read.altitude = IF "altitude" \in damaged THEN 5000 ELSE issued.altitude
       /\ read.squawk = IF "squawk" \in damaged THEN 0 ELSE issued.squawk
  BY <1>3, <1>4, <1>7, <1>9 DEF ClearanceFields
<1>11. read = [from |-> read.from, to |-> read.to, route |-> read.route,
               altitude |-> read.altitude, squawk |-> read.squawk]
  BY <1>7
<1>12. damaged = {} => read = issued
  BY <1>6, <1>10, <1>11
<1>13. \A f \in ClearanceFields \ damaged : read[f] = issued[f]
  BY <1>10 DEF ClearanceFields
<1>14. read.squawk = 0 <=> "squawk" \in damaged
  BY <1>4, <1>10
<1>15. (read.squawk = 0) = ("squawk" \in damaged)
  BY <1>14
<1>16. read.altitude <= 5000
  BY <1>3, <1>10
<1> QED
  BY <1>5, <1>12, <1>13, <1>15, <1>16
     DEF Message!ClearanceIsReadAsIssued, Message!DEFAULT_INITIAL_ALTITUDE_FT, read, issued, filed

\* The sums of a sequence, as its fold makes them.
Sums(f, seq) ==
  f = [s \in SUBSET DOMAIN seq |-> IF s = {} THEN 0 ELSE f[s \ {Highest(s)}] + seq[Highest(s)]]

LEMMA SumsExist ==
  ASSUME NEW seq \in Seq(Int)
  PROVE  \E f : Sums(f, seq)
<1> DEFINE n == Len(seq)
           step == [k \in 1..n |-> [b \in Int |-> b + seq[k]]]
<1>1. n \in Nat /\ DOMAIN seq = 1..n /\ \A k \in 1..n : seq[k] \in Int
  OBVIOUS
<1> HIDE DEF n
<1>2. step \in [1..n -> [Int -> Int]]
  BY <1>1
<1>3. \A k \in 1..n, b \in Int : step[k][b] = b + seq[k]
  OBVIOUS
<1> HIDE DEF step
<1>4. PICK f \in [SUBSET (1..n) -> Int] : Folded(f, n, 0, step)
  <2>1. 0 \in Int
    OBVIOUS
  <2> QED BY <1>1, <1>2, <2>1, FoldExists
<1>5. ASSUME NEW s \in SUBSET (1..n), s # {}
      PROVE  step[Highest(s)][f[s \ {Highest(s)}]] = f[s \ {Highest(s)}] + seq[Highest(s)]
  <2>1. Highest(s) \in 1..n
    BY <1>1, <1>5, HighestIs
  <2> QED BY <1>3, <1>4, <2>1
<1>6. f = [s \in SUBSET (1..n) |-> IF s = {} THEN 0 ELSE f[s \ {Highest(s)}] + seq[Highest(s)]]
  BY <1>4, <1>5 DEF Folded
<1>7. Sums(f, seq)
  BY <1>1, <1>6 DEF Sums
<1> QED BY <1>7

\* The length of a route, by the lengths of its tokens.
SumOf(seq) == (CHOOSE f : Sums(f, seq))[DOMAIN seq]

LEMMA JoinedIs ==
  ASSUME NEW seq PROVE Message!Joined(seq) = SumOf(seq) + (Len(seq) - 1)
BY DEF Message!Joined, Message!FoldLeft, Message!MapThenFoldSet, Message!Max, SumOf, Sums, Highest

\* The sum up to each place.
LEMMA SumsRun ==
  ASSUME NEW seq \in Seq(Int), NEW f, Sums(f, seq)
  PROVE  /\ f[1..0] = 0
         /\ \A k \in 1..Len(seq) : f[1..k] = f[1..(k - 1)] + seq[k]
         /\ \A k \in 0..Len(seq) : f[1..k] \in Int
<1> DEFINE n == Len(seq)
<1>1. n \in Nat /\ DOMAIN seq = 1..n /\ \A k \in 1..n : seq[k] \in Int
  OBVIOUS
<1> HIDE DEF n
<1>2. \A s \in SUBSET (1..n) : f[s] = IF s = {} THEN 0 ELSE f[s \ {Highest(s)}] + seq[Highest(s)]
  BY <1>1 DEF Sums
<1>3. f[1..0] = 0
  <2>1. 1..0 = {} /\ {} \in SUBSET (1..n)
    OBVIOUS
  <2> QED BY <1>2, <2>1
<1>4. ASSUME NEW k \in 1..n PROVE f[1..k] = f[1..(k - 1)] + seq[k]
  BY <1>1, <1>2, UpToPlace
<1> DEFINE Good == {k \in Nat : k <= n => f[1..k] \in Int}
<1>5. 0 \in Good
  BY <1>3
<1>6. ASSUME NEW k \in Nat, k \in Good PROVE k + 1 \in Good
  <2> SUFFICES ASSUME k + 1 <= n PROVE f[1..(k + 1)] \in Int
    <3>1. k + 1 \in Nat
      OBVIOUS
    <3> QED BY <3>1
  <2>1. k + 1 \in 1..n /\ (k + 1) - 1 = k /\ k <= n
    BY <1>1
  <2>2. f[1..k] \in Int
    BY <1>6, <2>1
  <2>3. f[1..(k + 1)] = f[1..k] + seq[k + 1]
    BY <1>4, <2>1
  <2> QED BY <1>1, <2>1, <2>2, <2>3
<1>7. \A k \in Nat : k \in Good
  <2> HIDE DEF Good
  <2> QED BY <1>5, <1>6, AllOfNat
<1>8. \A k \in 0..n : f[1..k] \in Int
  BY <1>1, <1>7
<1> QED BY <1>3, <1>4, <1>8 DEF n

\* The sum of a beginning is the sum up to its end.
LEMMA SumOfBeginning ==
  ASSUME NEW seq \in Seq(Int), NEW f, Sums(f, seq), NEW k \in 0..Len(seq)
  PROVE  SumOf(SubSeq(seq, 1, k)) = f[1..k]
<1> DEFINE part == SubSeq(seq, 1, k)
           g    == CHOOSE g : Sums(g, part)
<1>1. part \in Seq(Int) /\ Len(part) = k /\ DOMAIN part = 1..k /\ \A j \in 1..k : part[j] = seq[j]
  OBVIOUS
<1> HIDE DEF part
<1>2. Sums(g, part)
  BY <1>1, SumsExist
<1> HIDE DEF g
<1>3. g[1..0] = 0 /\ \A j \in 1..k : g[1..j] = g[1..(j - 1)] + part[j]
  BY <1>1, <1>2, SumsRun
<1>4. f[1..0] = 0 /\ \A j \in 1..k : f[1..j] = f[1..(j - 1)] + seq[j]
  <2>1. \A j \in 1..k : j \in 1..Len(seq)
    OBVIOUS
  <2> QED BY <2>1, SumsRun
<1> DEFINE Good == {j \in Nat : j <= k => g[1..j] = f[1..j]}
<1>5. 0 \in Good
  BY <1>3, <1>4
<1>6. ASSUME NEW j \in Nat, j \in Good PROVE j + 1 \in Good
  <2> SUFFICES ASSUME j + 1 <= k PROVE g[1..(j + 1)] = f[1..(j + 1)]
    <3>1. j + 1 \in Nat
      OBVIOUS
    <3> QED BY <3>1
  <2>1. j + 1 \in 1..k /\ (j + 1) - 1 = j /\ j <= k
    OBVIOUS
  <2>2. g[1..j] = f[1..j] /\ part[j + 1] = seq[j + 1]
    BY <1>1, <1>6, <2>1
  <2> QED BY <1>3, <1>4, <2>1, <2>2
<1>7. \A j \in Nat : j \in Good
  <2> HIDE DEF Good
  <2> QED BY <1>5, <1>6, AllOfNat
<1>8. k \in Nat /\ k <= k
  OBVIOUS
<1> QED BY <1>1, <1>7, <1>8 DEF SumOf, g, part

\* A route is as long as its tokens and a space before each but the first.
LEMMA JoinedGrows ==
  ASSUME NEW seq \in Seq(Int), NEW k \in 0..(Len(seq) - 1)
  PROVE  /\ Message!Joined(SubSeq(seq, 1, k)) \in Int
         /\ Message!Joined(SubSeq(seq, 1, k + 1)) = Message!Joined(SubSeq(seq, 1, k)) + 1 + seq[k + 1]
<1>1. PICK f : Sums(f, seq)
  BY SumsExist
<1>2. k + 1 \in 1..Len(seq) /\ k \in 0..Len(seq) /\ k + 1 \in 0..Len(seq) /\ (k + 1) - 1 = k
      /\ Len(SubSeq(seq, 1, k)) = k /\ Len(SubSeq(seq, 1, k + 1)) = k + 1 /\ seq[k + 1] \in Int
  OBVIOUS
<1>3. f[1..(k + 1)] = f[1..k] + seq[k + 1] /\ f[1..k] \in Int
  BY <1>1, <1>2, SumsRun
<1>4. SumOf(SubSeq(seq, 1, k)) = f[1..k] /\ SumOf(SubSeq(seq, 1, k + 1)) = f[1..(k + 1)]
  BY <1>1, <1>2, SumOfBeginning
<1> DEFINE a == SubSeq(seq, 1, k)
           b == SubSeq(seq, 1, k + 1)
<1>5. Message!Joined(a) = f[1..k] + (k - 1) /\ Message!Joined(b) = f[1..(k + 1)] + ((k + 1) - 1)
  <2>1. Len(a) = k /\ Len(b) = k + 1 /\ SumOf(a) = f[1..k] /\ SumOf(b) = f[1..(k + 1)]
    BY <1>2, <1>4
  <2> HIDE DEF a, b
  <2>2. Message!Joined(a) = SumOf(a) + (Len(a) - 1) /\ Message!Joined(b) = SumOf(b) + (Len(b) - 1)
    BY JoinedIs
  <2> QED BY <2>1, <2>2
<1>6. k \in Int
  OBVIOUS
<1> HIDE DEF a, b
<1>7. Message!Joined(a) \in Int /\ Message!Joined(b) = Message!Joined(a) + 1 + seq[k + 1]
  BY <1>2, <1>3, <1>5, <1>6
<1> QED BY <1>7 DEF a, b

LEMMA JoinedEnds ==
  ASSUME NEW seq \in Seq(Int), seq # <<>>
  PROVE  /\ Message!Joined(seq) \in Int
         /\ Message!Joined(SubSeq(seq, 1, 1)) = seq[1]
<1>1. Len(seq) \in Nat \ {0} /\ Len(seq) - 1 \in 0..(Len(seq) - 1) /\ 0 \in 0..(Len(seq) - 1)
      /\ seq[Len(seq)] \in Int /\ seq[1] \in Int /\ (Len(seq) - 1) + 1 = Len(seq) /\ 0 + 1 = 1
      /\ SubSeq(seq, 1, Len(seq)) = seq
  OBVIOUS
<1>2. Message!Joined(SubSeq(seq, 1, Len(seq) - 1)) \in Int
      /\ Message!Joined(seq) = Message!Joined(SubSeq(seq, 1, Len(seq) - 1)) + 1 + seq[Len(seq)]
  BY <1>1, JoinedGrows
<1>3. Message!Joined(SubSeq(seq, 1, 0)) = 0 - 1
  <2>1. PICK f : Sums(f, seq)
    BY SumsExist
  <2>2. 0 \in 0..Len(seq) /\ Len(SubSeq(seq, 1, 0)) = 0
    OBVIOUS
  <2>3. SumOf(SubSeq(seq, 1, 0)) = 0
    BY <2>1, <2>2, SumOfBeginning, SumsRun
  <2>4. Message!Joined(SubSeq(seq, 1, 0)) = SumOf(SubSeq(seq, 1, 0)) + (Len(SubSeq(seq, 1, 0)) - 1)
    BY JoinedIs
  <2> QED BY <2>2, <2>3, <2>4
<1>4. Message!Joined(SubSeq(seq, 1, 1)) = Message!Joined(SubSeq(seq, 1, 0)) + 1 + seq[1]
  BY <1>1, JoinedGrows
<1> QED BY <1>1, <1>2, <1>3, <1>4

\* What a route that is too long is cut to.
LEMMA ClippedFits ==
  ASSUME NEW tokens \in Seq(Int), tokens # <<>>, NEW budget \in Int, budget >= 5
  PROVE  LET cut == Message!ClipRoute(tokens, budget)
         IN  /\ cut.length \in Int /\ cut.length <= budget
             /\ cut.whole <=> Message!Joined(tokens) <= budget
             /\ (Len(tokens) >= 2 /\ tokens[1] + 4 + tokens[Len(tokens)] <= budget) => cut.head >= 1
             /\ (~cut.whole /\ cut.head \in 1..(Len(tokens) - 2)) =>
                  cut.length + 1 + tokens[cut.head + 1] > budget
<1> DEFINE n      == Len(tokens)
           suffix == 4 + tokens[n]
           P(k)   == Message!Joined(SubSeq(tokens, 1, k))
           fits   == {k \in 1..(n - 1) : P(k) + suffix <= budget}
           spaced == \E k \in 1..(n - 1) : P(k) + 1 = budget - 2
           top    == Message!Max(fits)
           all    == Message!Joined(tokens)
           cut    == Message!ClipRoute(tokens, budget)
<1>1. cut = IF all <= budget THEN [length |-> all, head |-> n, whole |-> TRUE]
            ELSE IF fits # {} THEN [length |-> P(top) + suffix, head |-> top, whole |-> FALSE]
            ELSE IF budget >= 3
            THEN [length |-> IF spaced THEN budget - 1 ELSE budget, head |-> 0, whole |-> FALSE]
            ELSE [length |-> 3, head |-> 0, whole |-> FALSE]
  <2>1. Message!Last(tokens) = tokens[n]
    BY DEF Message!Last
  <2> QED BY <2>1 DEF Message!ClipRoute
<1>2. n \in Nat \ {0} /\ suffix \in Int /\ \A k \in 1..n : tokens[k] \in Int
  OBVIOUS
<1>3. all \in Int /\ P(1) = tokens[1]
  BY JoinedEnds
<1>4. \A k \in 1..(n - 1) : P(k) \in Int /\ P(k + 1) = P(k) + 1 + tokens[k + 1]
  <2> SUFFICES ASSUME NEW k \in 1..(n - 1) PROVE P(k) \in Int /\ P(k + 1) = P(k) + 1 + tokens[k + 1]
    OBVIOUS
  <2>1. k \in 0..(Len(tokens) - 1)
    OBVIOUS
  <2> QED BY <2>1, JoinedGrows
<1> HIDE DEF n, suffix, P, all, cut
<1>5. ASSUME fits # {} PROVE top \in fits /\ \A k \in fits : top >= k
  <2>1. n - 1 \in Nat /\ fits \in SUBSET (1..(n - 1))
    BY <1>2
  <2>2. Highest(fits) \in fits /\ \A k \in fits : Highest(fits) >= k
    <3> HIDE DEF fits
    <3> QED BY <1>5, <2>1, HighestIs
  <2>3. top = Highest(fits)
    BY DEF Message!Max, Highest
  <2> QED BY <2>2, <2>3
<1> HIDE DEF top
<1>6. CASE all <= budget
  <2>1. cut.length = all /\ cut.head = n /\ cut.whole = TRUE
    BY <1>1, <1>6
  <2> QED BY <1>2, <1>3, <1>6, <2>1 DEF n, all, cut
<1>7. CASE all > budget /\ fits # {}
  <2>1. cut.length = P(top) + suffix /\ cut.head = top /\ cut.whole = FALSE
    BY <1>1, <1>3, <1>7
  <2>2. top \in 1..(n - 1) /\ P(top) + suffix <= budget
    BY <1>5, <1>7
  <2>3. ASSUME top \in 1..(n - 2) PROVE cut.length + 1 + tokens[top + 1] > budget
    <3>1. top + 1 \in 1..(n - 1) /\ top \in 1..(n - 1) /\ top + 1 \in 1..n
      BY <1>2, <2>3
    <3>2. top + 1 \notin fits
      <4>1. ~(top >= top + 1)
        BY <3>1
      <4> QED BY <1>5, <1>7, <4>1
    <3>3. ~(P(top + 1) + suffix <= budget)
      BY <3>1, <3>2
    <3>4. P(top) \in Int /\ P(top + 1) = P(top) + 1 + tokens[top + 1] /\ tokens[top + 1] \in Int
      BY <1>2, <1>4, <3>1
    <3> HIDE DEF fits
    <3> QED BY <1>2, <2>1, <3>3, <3>4
  <2>4. cut.length \in Int /\ cut.length <= budget
    BY <1>2, <1>4, <2>1, <2>2
  <2>5. cut.head >= 1
    BY <1>2, <2>1, <2>2
  <2>6. ~(all <= budget)
    BY <1>3, <1>7
  <2> HIDE DEF fits
  <2> QED BY <2>1, <2>3, <2>4, <2>5, <2>6 DEF n, all, cut
<1>8. CASE all > budget /\ fits = {}
  <2>1. cut.length \in {budget - 1, budget} /\ cut.head = 0 /\ cut.whole = FALSE
    <3>1. ~(all <= budget) /\ budget >= 3
      BY <1>3, <1>8
    <3> HIDE DEF fits, spaced
    <3> QED BY <1>1, <1>8, <3>1
  <2>2. ~(n >= 2 /\ tokens[1] + 4 + tokens[n] <= budget)
    <3> SUFFICES ASSUME n >= 2, tokens[1] + 4 + tokens[n] <= budget PROVE FALSE
      OBVIOUS
    <3>1. 1 \in 1..(n - 1) /\ tokens[1] \in Int /\ tokens[n] \in Int
      BY <1>2
    <3>2. P(1) + suffix <= budget
      BY <1>3, <3>1 DEF suffix
    <3> QED BY <1>8, <3>1, <3>2
  <2>3. ~(all <= budget)
    BY <1>3, <1>8
  <2>4. cut.length \in Int /\ cut.length <= budget /\ cut.head \notin 1..(n - 2)
    BY <2>1
  <2> HIDE DEF fits
  <2> QED BY <2>1, <2>2, <2>3, <2>4 DEF n, all, cut
<1> QED BY <1>3, <1>6, <1>7, <1>8

\* A clearance fits a line of SayIntentions' with its level and its squawk
\* whole, and drops no more of its route than it must, for airports, levels and
\* routes of any length (condensedClearance and clipRoute).
THEOREM ClearancesAlwaysFit ==
  ASSUME NEW dep \in Nat, NEW dst \in Nat, NEW level \in Nat, NEW tokens \in Seq(Int)
  PROVE  Message!ClearanceFits(dep, dst, tokens, level)
<1> DEFINE budget == 128 - (24 + dep + dst + level)
           cut    == Message!ClipRoute(tokens, budget)
           route  == IF tokens = <<>> \/ budget < 5 THEN [length |-> 3, head |-> 0, whole |-> FALSE] ELSE cut
           length == 11 + dep + dst + route.length + (13 + level)
           m      == Message!CondensedClearance(dep, dst, tokens, level)
<1>1. m = [route |-> route, length |-> Message!Min({length, 128}), cut |-> length > 128]
  <2>1. 128 - (11 + dep + dst) - (13 + level) = budget
    OBVIOUS
  <2> HIDE DEF budget
  <2> QED BY <2>1 DEF Message!CondensedClearance, Message!MAX_ACARS_IN_CHARS
<1>2. budget \in Int /\ 24 + dep + dst + level = 128 - budget
  OBVIOUS
<1>3. ASSUME tokens # <<>>, budget >= 5
      PROVE  /\ cut.length \in Int /\ cut.length <= budget
             /\ cut.whole <=> Message!Joined(tokens) <= budget
             /\ (Len(tokens) >= 2 /\ tokens[1] + 4 + tokens[Len(tokens)] <= budget) => cut.head >= 1
             /\ (~cut.whole /\ cut.head \in 1..(Len(tokens) - 2)) =>
                  cut.length + 1 + tokens[cut.head + 1] > budget
  <2> HIDE DEF budget
  <2> QED BY <1>2, <1>3, ClippedFits
<1> HIDE DEF cut
<1>4. route.length \in Int /\ (budget >= 3 => route.length <= budget)
  BY <1>2, <1>3
<1> HIDE DEF route
<1>5. length \in Int /\ (budget >= 3 => length <= 128)
  BY <1>2, <1>4
<1> HIDE DEF length
<1>6. Message!Min({length, 128}) <= 128
  <2>1. \E x \in {length, 128} : \A y \in {length, 128} : x <= y
    BY <1>5
  <2>2. Message!Min({length, 128}) \in {length, 128} /\ \A y \in {length, 128} : Message!Min({length, 128}) <= y
    BY <2>1 DEF Message!Min
  <2> QED BY <2>2
<1>7. budget >= 3 => ~(length > 128)
  BY <1>5
<1>8. m.length <= 128 /\ m.cut = (length > 128) /\ m.route = route
  BY <1>1, <1>6
<1>9. tokens # <<>> /\ budget >= 5 => route = cut
  BY <1>2 DEF route
<1>10. Message!Last(tokens) = tokens[Len(tokens)]
  BY DEF Message!Last
<1> HIDE DEF budget, m
<1>11. budget >= 3 => ~m.cut
  BY <1>7, <1>8
<1>12. tokens # <<>> /\ budget >= 5 =>
           /\ m.route.length <= budget
           /\ m.route.whole <=> Message!Joined(tokens) <= budget
           /\ (Len(tokens) >= 2 /\ tokens[1] + 4 + Message!Last(tokens) <= budget) => m.route.head >= 1
           /\ (~m.route.whole /\ m.route.head \in 1..(Len(tokens) - 2)) =>
                m.route.length + 1 + tokens[m.route.head + 1] > budget
  BY <1>3, <1>8, <1>9, <1>10
<1> QED BY <1>8, <1>11, <1>12 DEF Message!ClearanceFits, Message!MAX_ACARS_IN_CHARS, budget, m

\* The words of a list that has nothing else, as the fold that reads it finds them.
Words(f, seq) ==
  f = [s \in SUBSET DOMAIN seq |->
         IF s = {} THEN <<>>
         ELSE IF seq[Highest(s)] = Text THEN f[s \ {Highest(s)}]
         ELSE Append(f[s \ {Highest(s)}], seq[Highest(s)])]

LEMMA WordsExist ==
  ASSUME NEW S, NEW seq \in Seq(S)
  PROVE  \E f : Words(f, seq)
<1> DEFINE n == Len(seq)
           B == Seq(S)
           step == [k \in 1..n |-> [b \in B |-> IF seq[k] = Text THEN b ELSE Append(b, seq[k])]]
<1>1. n \in Nat /\ DOMAIN seq = 1..n /\ <<>> \in B
  OBVIOUS
<1>2. step \in [1..n -> [B -> B]]
  <2>1. \A k \in 1..n, b \in B : (IF seq[k] = Text THEN b ELSE Append(b, seq[k])) \in B
    OBVIOUS
  <2> HIDE DEF B, n
  <2> QED BY <2>1
<1> HIDE DEF n, B
<1>3. \A k \in 1..n, b \in B : step[k][b] = IF seq[k] = Text THEN b ELSE Append(b, seq[k])
  OBVIOUS
<1> HIDE DEF step
<1>4. PICK f \in [SUBSET (1..n) -> B] : Folded(f, n, <<>>, step)
  BY <1>1, <1>2, FoldExists
<1> DEFINE Next1(s) == IF seq[Highest(s)] = Text THEN f[s \ {Highest(s)}]
                       ELSE Append(f[s \ {Highest(s)}], seq[Highest(s)])
<1>5. ASSUME NEW s \in SUBSET (1..n), s # {}
      PROVE  step[Highest(s)][f[s \ {Highest(s)}]] = Next1(s)
  <2>1. Highest(s) \in 1..n
    BY <1>1, <1>5, HighestIs
  <2>2. f[s \ {Highest(s)}] \in B
    BY <1>4
  <2> QED BY <1>3, <2>1, <2>2
<1> HIDE DEF Next1
<1>6. f = [s \in SUBSET (1..n) |-> IF s = {} THEN <<>> ELSE Next1(s)]
  BY <1>4, <1>5 DEF Folded
<1>7. Words(f, seq)
  BY <1>1, <1>6 DEF Words, Next1
<1> QED BY <1>7

\* A list of words is read as it is.
LEMMA WordsAreRead ==
  ASSUME NEW S, NEW seq \in Seq(S), Text \notin S
  PROVE  Message!FoldLeft(LAMBDA read, a : IF a = Text THEN read ELSE Append(read, a), <<>>, seq) = seq
<1> DEFINE n == Len(seq)
           f == CHOOSE f : Words(f, seq)
<1>1. n \in Nat /\ DOMAIN seq = 1..n /\ SubSeq(seq, 1, n) = seq /\ SubSeq(seq, 1, 0) = <<>>
  OBVIOUS
<1>2. \A k \in 1..n : seq[k] # Text /\ Append(SubSeq(seq, 1, k - 1), seq[k]) = SubSeq(seq, 1, k)
  OBVIOUS
<1>3. Words(f, seq)
  BY WordsExist
<1>4. Message!FoldLeft(LAMBDA read, a : IF a = Text THEN read ELSE Append(read, a), <<>>, seq) = f[1..n]
  BY <1>1 DEF Message!FoldLeft, Message!MapThenFoldSet, Message!Max, Words, Highest
<1> HIDE DEF f, n
<1>5. \A s \in SUBSET (1..n) : f[s] = IF s = {} THEN <<>>
                                      ELSE IF seq[Highest(s)] = Text THEN f[s \ {Highest(s)}]
                                      ELSE Append(f[s \ {Highest(s)}], seq[Highest(s)])
  BY <1>1, <1>3 DEF Words
<1> DEFINE Good == {k \in Nat : k <= n => f[1..k] = SubSeq(seq, 1, k)}
<1>6. 0 \in Good
  <2>1. 1..0 = {} /\ {} \in SUBSET (1..n)
    OBVIOUS
  <2> QED BY <1>1, <1>5, <2>1
<1>7. ASSUME NEW k \in Nat, k \in Good PROVE k + 1 \in Good
  <2> SUFFICES ASSUME k + 1 <= n PROVE f[1..(k + 1)] = SubSeq(seq, 1, k + 1)
    <3>1. k + 1 \in Nat
      OBVIOUS
    <3> QED BY <3>1
  <2>1. k + 1 \in 1..n /\ (k + 1) - 1 = k /\ k <= n
    BY <1>1
  <2>2. f[1..k] = SubSeq(seq, 1, k)
    BY <1>7, <2>1
  <2>3. f[1..(k + 1)] = Append(f[1..k], seq[k + 1])
    <3>1. 1..(k + 1) \in SUBSET (1..n) /\ 1..(k + 1) # {} /\ Highest(1..(k + 1)) = k + 1
          /\ (1..(k + 1)) \ {k + 1} = 1..k
      BY <1>1, <2>1, UpToPlace
    <3> HIDE DEF Good
    <3> QED BY <1>2, <1>5, <2>1, <3>1
  <2> QED BY <1>2, <2>1, <2>2, <2>3
<1>8. n \in Good
  <2> HIDE DEF Good
  <2> QED BY <1>1, <1>6, <1>7, AllOfNat
<1>9. f[1..n] = SubSeq(seq, 1, n)
  BY <1>1, <1>8
<1> QED BY <1>1, <1>4, <1>9

\* A plan that has each field of a dispatch, and none of the wrong type.
Filed(plan) == \A f \in Message!Fields : plan[Message!PLAN_FIELD[f]] # Text

\* A dispatch reads back as it was filed, for every plan, list of alternates and
\* loss: a field or a group that is spoilt reads as unknown and takes no other
\* with it, and the load sheet works nothing out of what is not there
\* (parseDispatchPayload, loadsheetFigures).
THEOREM DispatchesReadAsFiled ==
  ASSUME NULL # Text, \A f, a : [fields |-> f, alternates |-> a] # NULL,
         NEW plan, Filed(plan), NEW Airport, Text \notin Airport, Text \notin Seq(Airport),
         NEW alternates \in Seq(Airport), NEW damaged \in SUBSET Message!Fields,
         NEW lost \in SUBSET DOMAIN Message!GROUP, NEW version
  PROVE  Message!DispatchIsReadAsFiled(plan, alternates, damaged, lost, version)
<1> DEFINE filed  == Message!BuildDispatchPayload(plan, alternates)
           fields == [f \in Message!Fields |-> IF f \in damaged THEN Text ELSE filed.fields[f]]
           raw    == [Message!Stored(filed) EXCEPT !.v = version, !.lost = lost,
                        !.fields = [f \in Message!Fields |-> IF f \in damaged THEN Text ELSE @[f]]]
           read   == Message!ParseDispatchPayload(raw)
           gone   == damaged \cup UNION {Message!GROUP[g] : g \in lost}
           known  == [f \in Message!Fields |-> IF f \in gone THEN NULL ELSE filed.fields[f]]
<1>1. /\ \A f \in Message!Fields : filed.fields[f] # Text
      /\ filed.alternates = alternates /\ filed = [fields |-> filed.fields, alternates |-> filed.alternates]
      /\ filed.fields = [f \in Message!Fields |-> filed.fields[f]]
  BY DEF Message!BuildDispatchPayload, Filed
<1> HIDE DEF filed
<1>2. raw = [form |-> "object", v |-> version, source |-> "simbrief", lost |-> lost, fields |-> fields,
             alternates |-> alternates]
  <2>1. raw = [Message!Stored(filed) EXCEPT !.v = version, !.lost = lost, !.fields = fields]
    <3>1. Message!Stored(filed).fields = filed.fields
      BY DEF Message!Stored
    <3> QED BY <3>1
  <2> HIDE DEF fields, raw
  <2>2. Message!Stored(filed) = [form |-> "object", v |-> 1, source |-> "simbrief", lost |-> {},
                                 fields |-> filed.fields, alternates |-> alternates]
    BY <1>1 DEF Message!Stored
  <2>3. raw = [[form |-> "object", v |-> 1, source |-> "simbrief", lost |-> {}, fields |-> filed.fields,
                alternates |-> alternates] EXCEPT !.v = version, !.lost = lost, !.fields = fields]
    BY <2>1, <2>2
  <2> QED BY <2>3
<1> DEFINE Lost(f) == \E g \in lost : f \in Message!GROUP[g]
<1>3. \A f \in Message!Fields :
        known[f] = IF Lost(f) \/ f \notin DOMAIN fields THEN NULL
                   ELSE IF fields[f] = Text THEN NULL ELSE fields[f]
  <2> SUFFICES ASSUME NEW f \in Message!Fields
               PROVE  known[f] = IF Lost(f) \/ f \notin DOMAIN fields THEN NULL
                                 ELSE IF fields[f] = Text THEN NULL ELSE fields[f]
    OBVIOUS
  <2>1. f \in gone <=> f \in damaged \/ Lost(f)
    OBVIOUS
  <2>2. f \in DOMAIN fields /\ fields[f] = IF f \in damaged THEN Text ELSE filed.fields[f]
    OBVIOUS
  <2>3. known[f] = IF f \in gone THEN NULL ELSE filed.fields[f]
    OBVIOUS
  <2>4. filed.fields[f] # Text
    BY <1>1
  <2> HIDE DEF gone, Lost, fields, known
  <2> QED BY <2>1, <2>2, <2>3, <2>4
<1>4. read = IF version # 1 THEN NULL ELSE [fields |-> known, alternates |-> alternates]
  <2>1. Message!FoldLeft(LAMBDA words, a : IF a = Text THEN words ELSE Append(words, a), <<>>, alternates) = alternates
    BY WordsAreRead
  <2>2. raw.form = "object" /\ raw.source = "simbrief" /\ raw.v = version /\ raw.lost = lost
        /\ raw.fields = fields /\ raw.alternates = alternates /\ alternates # Text
    BY <1>2
  <2>3. known = [f \in Message!Fields |-> known[f]]
    OBVIOUS
  <2> HIDE DEF raw, fields, known
  <2>4. known = [f \in Message!Fields |->
                   IF Lost(f) \/ f \notin DOMAIN fields THEN NULL
                   ELSE IF fields[f] = Text THEN NULL ELSE fields[f]]
    BY <1>3, <2>3
  <2> QED BY <2>1, <2>2, <2>4 DEF Message!ParseDispatchPayload
<1> HIDE DEF read, raw
<1>5. read = NULL <=> version # 1
  BY <1>4
<1>6. read # NULL => read.fields = known /\ read.alternates = alternates
  BY <1>4
<1>7. \A f \in Message!Fields : known[f] = IF f \in gone THEN NULL ELSE filed.fields[f]
  OBVIOUS
<1>8. gone = {} => known = filed.fields
  BY <1>1
<1> HIDE DEF known, gone
<1> DEFINE sheet == Message!LoadsheetReplyBody(read, 1)
<1>9. ASSUME read # NULL, gone = {}
      PROVE  /\ Message!DispatchReleaseBody(read, 1) = Message!DispatchReleaseBody(filed, 1)
             /\ sheet.from = Message!LoadsheetRequestBody(filed).from
  <2>1. read = filed
    BY <1>1, <1>4, <1>5, <1>8, <1>9
  <2>2. sheet.from = read.fields.origin /\ Message!LoadsheetRequestBody(filed).from = filed.fields.origin
    BY DEF Message!LoadsheetReplyBody, Message!LoadsheetRequestBody
  <2> QED BY <2>1, <2>2
<1>10. ASSUME read # NULL
       PROVE  /\ {"ramp", "takeoff"} \subseteq gone => sheet.block = NULL
              /\ sheet.max = NULL <=> read.fields.max_zfw = NULL
              /\ sheet.zfw # NULL /\ read.fields.est_zfw = NULL =>
                   sheet.zfw = read.fields.oew + read.fields.payload
  <2> DEFINE d == read.fields
  <2>1. sheet.max = d.max_zfw
    BY DEF Message!LoadsheetReplyBody
  <2>2. sheet.block = Message!LoadsheetFigures(d).block /\ sheet.zfw = Message!LoadsheetFigures(d).zfw
    BY DEF Message!LoadsheetReplyBody
  <2>3. Message!LoadsheetFigures(d).block = IF d.ramp # NULL THEN d.ramp
                 ELSE IF d.takeoff # NULL /\ d.taxi # NULL THEN d.takeoff + d.taxi ELSE NULL
    BY DEF Message!LoadsheetFigures
  <2>4. ASSUME {"ramp", "takeoff"} \subseteq gone PROVE d.ramp = NULL /\ d.takeoff = NULL
    <3>1. {"ramp", "takeoff"} \subseteq Message!Fields
      BY DEF Message!Fields, Message!PLAN_FIELD
    <3>2. known["ramp"] = NULL /\ known["takeoff"] = NULL
      BY <1>7, <2>4, <3>1
    <3> QED BY <1>6, <1>10, <3>2
  <2>5. ASSUME Message!LoadsheetFigures(d).zfw # NULL, d.est_zfw = NULL
        PROVE  Message!LoadsheetFigures(d).zfw = d.oew + d.payload
    BY <2>5 DEF Message!LoadsheetFigures
  <2> HIDE DEF d, sheet
  <2> QED BY <2>1, <2>2, <2>3, <2>4, <2>5 DEF d
<1>11. \A f \in Message!Fields : read # NULL => read.fields[f] = IF f \in gone THEN NULL ELSE filed.fields[f]
  BY <1>6, <1>7
<1> QED BY <1>5, <1>6, <1>9, <1>10, <1>11 DEF Message!DispatchIsReadAsFiled, read, raw, gone, filed

\* The values that are no number tell from numbers, texts, records and lists.
ValuesApart ==
  /\ NULL \notin Int /\ Text \notin Int /\ NULL # Text /\ NoWord
  /\ \A S : Text \notin Seq(S)
  /\ \A f, a : [fields |-> f, alternates |-> a] # NULL
  /\ \A r : r.request \in STRING => r # NULL

\* A question of the types of its subject's code: any figures, routes, legs,
\* positions, plans, losses and reports.
Answerable ==
  /\ About("loadsheet") => in \in [{"ramp", "takeoff", "taxi", "payload", "est_zfw", "oew"} -> Int \cup {NULL}]
  /\ About("clearance") => in.dep \in Nat /\ in.dst \in Nat /\ in.level \in Nat /\ in.tokens \in Seq(Int)
  /\ About("squawk") => in[1] \in Nat /\ in[2] \in Nat
  /\ About("position") => in \in Int
  /\ About("number") => in \in Nat
  /\ About("dispatch") =>
       /\ Filed(in.plan) /\ \E Airport : Text \notin Airport /\ in.alternates \in Seq(Airport)
       /\ in.damaged \in SUBSET Message!Fields /\ in.lost \in SUBSET DOMAIN Message!GROUP
  /\ About("issue") => Unspoilt(in.plan) /\ in.leg \in Nat /\ in.damaged \in SUBSET ClearanceFields
  /\ About("report") =>
       in[1].remaining \in Nat /\ in[1].gs \in Nat /\ in[1].at \in Nat /\ in[1].estimated \in BOOLEAN
  /\ About("station") => in.raw \in Stations

\* What a message says is so, whatever it is asked of (src/acars.ts): the
\* property of the run, for questions of every size.
THEOREM MessagesAlwaysAgree ==
  ASSUME ValuesApart, Answerable
  PROVE  MessagesAgree
<1>1. NULL \notin Int /\ Text \notin Int /\ NULL # Text /\ NoWord
  BY DEF ValuesApart
<1>2. About("loadsheet") => Message!LoadsheetAddsUp(in)
  BY <1>1, LoadsheetsAddUp DEF Answerable
<1>3. About("clearance") => Message!ClearanceFits(in.dep, in.dst, in.tokens, in.level)
  BY ClearancesAlwaysFit DEF Answerable
<1>4. About("squawk") => Message!SquawksTellLegsApart(in[1], in[2])
  BY SquawksStayApart DEF Answerable
<1>5. About("position") => Message!PositionReadsTrue(in)
  BY PositionsReadTrue DEF Answerable
<1>6. About("number") => Message!NumbersReadTrue(in)
  BY <1>1, NumbersStayTrue DEF Answerable
<1>7. ASSUME About("dispatch")
      PROVE  Message!DispatchIsReadAsFiled(in.plan, in.alternates, in.damaged, in.lost, in.version)
  <2>1. PICK Airport : Text \notin Airport /\ in.alternates \in Seq(Airport)
    BY <1>7 DEF Answerable
  <2>2. Filed(in.plan) /\ in.damaged \in SUBSET Message!Fields /\ in.lost \in SUBSET DOMAIN Message!GROUP
    BY <1>7 DEF Answerable
  <2>3. Text \notin Seq(Airport) /\ \A f, a : [fields |-> f, alternates |-> a] # NULL
    BY DEF ValuesApart
  <2> QED BY <1>1, <2>1, <2>2, <2>3, DispatchesReadAsFiled
<1>8. About("issue") => Message!ClearanceIsReadAsIssued(in.plan, in.leg, in.damaged)
  BY <1>1, ClearancesReadAsIssued DEF Answerable
<1>9. About("report") => Message!ReportsSpeakOfOneMoment(in[1], in[2])
  BY <1>1, ReportsStayTrue DEF Answerable
<1>10. About("station") => Message!WeatherIsOfTheStation(in.raw, in.metar, in.taf)
  BY StationsHaveOneName DEF Answerable, ValuesApart
<1> QED BY <1>2, <1>3, <1>4, <1>5, <1>6, <1>7, <1>8, <1>9, <1>10 DEF MessagesAgree

-----------------------------------------------------------------------------
(* The MCP tools (src/mcp/tools). *)

\* Math.round(i * (n - 1) / (m - 1)): the i-th of the m kept indices of n.
Kept(i, n, m) == (2 * i * (n - 1) + (m - 1)) \div (2 * (m - 1))

\* Kept indices rise.
LEMMA KeptRises ==
  ASSUME NEW n \in Nat, NEW m \in Nat, 2 <= m, m < n, NEW i \in Nat, NEW j \in Nat, i < j
  PROVE  Kept(i, n, m) \in Nat /\ Kept(i, n, m) < Kept(j, n, m)
<1> DEFINE x == 2 * i * (n - 1) + (m - 1)
           y == 2 * j * (n - 1) + (m - 1)
           d == 2 * (m - 1)
           p == i * (n - 1)
           r == j * (n - 1)
<1>1. p \in Nat /\ r \in Nat /\ p + (n - 1) <= r /\ x = 2 * p + (m - 1) /\ y = 2 * r + (m - 1)
  <2>1. j = i + 1 + (j - i - 1) /\ j - i - 1 \in Nat /\ n - 1 \in Nat
    OBVIOUS
  <2>2. (j - i - 1) * (n - 1) \in Nat /\ r = p + (n - 1) + (j - i - 1) * (n - 1)
    BY <2>1
  <2> QED BY <2>1, <2>2
<1> HIDE DEF p, r
<1>2. x \in Nat /\ y \in Nat /\ d \in Nat \ {0} /\ x + d < y
  BY <1>1
<1> HIDE DEF x, y, d
<1>3. x \div d \in Nat /\ (x \div d) * d <= x
  BY <1>2, Quotient
<1>4. y \div d \in Nat /\ y < (y \div d) * d + d
  BY <1>2, Quotient
<1> DEFINE a == x \div d
           b == y \div d
<1>5. a < b
  <2>1. a \in Nat /\ b \in Nat /\ a * d + d < b * d + d
    <3>1. a * d \in Nat /\ b * d \in Nat
      BY <1>2, <1>3, <1>4
    <3> DEFINE s == a * d
               t == b * d
    <3> HIDE DEF s, t
    <3>2. s + d < t + d
      BY <1>2, <1>3, <1>4, <3>1 DEF s, t
    <3> QED BY <1>3, <1>4, <3>2 DEF s, t
  <2> HIDE DEF a, b
  <2>2. a >= b => a * d >= b * d
    BY <1>2, <2>1
  <2> QED BY <1>2, <2>1, <2>2
<1> QED BY <1>3, <1>5 DEF Kept, x, y, d

\* The first is the first and the last is the last.
LEMMA KeptEnds ==
  ASSUME NEW n \in Nat, NEW m \in Nat, 2 <= m, m < n
  PROVE  Kept(0, n, m) = 0 /\ Kept(m - 1, n, m) = n - 1
<1> DEFINE d == 2 * (m - 1)
<1>1. d \in Nat \ {0} /\ m - 1 \in Nat /\ m - 1 < d
  OBVIOUS
<1>2. Kept(0, n, m) = 0
  <2>1. (m - 1) \div d = 0
    <3> HIDE DEF d
    <3> QED BY <1>1, QuotientIs
  <2>2. 2 * 0 * (n - 1) + (m - 1) = m - 1
    OBVIOUS
  <2> QED BY <2>1, <2>2 DEF Kept
<1>3. Kept(m - 1, n, m) = n - 1
  <2> DEFINE x == 2 * (m - 1) * (n - 1) + (m - 1)
  <2>1. x \in Nat /\ x = (n - 1) * d + (m - 1) /\ n - 1 \in Nat
    OBVIOUS
  <2>2. x \div d = n - 1
    <3> HIDE DEF x, d
    <3>1. (n - 1) * d \in Nat
      BY <1>1, <2>1
    <3> QED BY <1>1, <2>1, <3>1, QuotientIs
  <2> QED BY <2>2 DEF Kept
<1> QED BY <1>2, <1>3

\* Every one is an index.
LEMMA KeptWithin ==
  ASSUME NEW n \in Nat, NEW m \in Nat, 2 <= m, m < n, NEW i \in 0 .. m - 1
  PROVE  Kept(i, n, m) \in 0 .. n - 1
<1>1. CASE i = m - 1
  BY <1>1, KeptEnds
<1>2. CASE i < m - 1
  <2>1. m - 1 \in Nat /\ i \in Nat
    OBVIOUS
  <2>2. Kept(i, n, m) \in Nat /\ Kept(i, n, m) < Kept(m - 1, n, m)
    BY <1>2, <2>1, KeptRises
  <2> QED BY <2>2, KeptEnds
<1> QED BY <1>1, <1>2

\* Whatever the length of a flight and the cap, a downsampled track keeps
\* both ends and the order, repeats no point and has as many as it may
\* (downsampleTrack).
THEOREM SampledTracksKeepTheFlight ==
  ASSUME NEW S, NEW points \in Seq(S), NEW max \in Nat \ {0},
         \A i, j \in DOMAIN points : points[i] = points[j] => i = j
  PROVE  Tool!SampleKeepsTheFlight(points, max)
<1> DEFINE n == Len(points)
           s == Tool!DownsampleTrack(points, max)
           Position(p) == CHOOSE i \in DOMAIN points : points[i] = p
<1>1. n \in Nat /\ DOMAIN points = 1 .. n
  OBVIOUS
<1>2. \A i \in 1 .. n : Position(points[i]) = i
  BY <1>1
<1>3. CASE n <= max
  <2>1. s = points
    BY <1>3 DEF Tool!DownsampleTrack
  <2> HIDE DEF s, Position
  <2>2. \A i \in 1 .. (Len(s) - 1) : Position(s[i]) < Position(s[i + 1])
    BY <1>1, <1>2, <2>1
  <2>3. points # <<>> => s[1] = points[1] /\ s[Len(s)] = points[Len(points)]
    BY <2>1
  <2> QED BY <1>3, <2>1, <2>2, <2>3 DEF Tool!SampleKeepsTheFlight, Tool!Last, s, Position
<1>4. CASE n > max /\ max = 1
  <2>1. s = SubSeq(points, 1, 1)
    BY <1>4 DEF Tool!DownsampleTrack
  <2>2. Len(s) = 1
    BY <1>1, <1>4, <2>1
  <2> HIDE DEF s
  <2> QED BY <1>4, <2>2 DEF Tool!SampleKeepsTheFlight, s
<1>5. CASE n > max /\ max > 1
  <2>1. s = [i \in 1 .. max |-> points[Kept(i - 1, n, max) + 1]]
    BY <1>5 DEF Tool!DownsampleTrack, Kept
  <2>2. \A i \in 1 .. max : Kept(i - 1, n, max) + 1 \in 1 .. n
    BY <1>1, <1>5, KeptWithin
  <2>3. Len(s) = max
    <3> HIDE DEF s
    <3>1. s \in Seq(S)
      BY <1>1, <2>1, <2>2
    <3> QED BY <2>1, <3>1
  <2>4. s[1] = points[1] /\ s[max] = points[n]
    <3>1. Kept(0, n, max) + 1 = 1 /\ Kept(max - 1, n, max) + 1 = n
      BY <1>1, <1>5, KeptEnds
    <3> HIDE DEF s, n
    <3>2. 1 \in 1 .. max /\ max \in 1 .. max /\ 1 - 1 = 0
      OBVIOUS
    <3> QED BY <2>1, <3>1, <3>2
  <2>5. \A i \in 1 .. (max - 1) : Position(s[i]) < Position(s[i + 1])
    <3> SUFFICES ASSUME NEW i \in 1 .. (max - 1) PROVE Position(s[i]) < Position(s[i + 1])
      OBVIOUS
    <3>1. i \in 1 .. max /\ i + 1 \in 1 .. max /\ i - 1 \in Nat /\ i \in Nat /\ i - 1 < i /\ (i + 1) - 1 = i
      OBVIOUS
    <3>2. s[i] = points[Kept(i - 1, n, max) + 1] /\ s[i + 1] = points[Kept(i, n, max) + 1]
      BY <2>1, <3>1
    <3>3. Kept(i - 1, n, max) \in Nat /\ Kept(i - 1, n, max) < Kept(i, n, max)
      BY <1>1, <1>5, <3>1, KeptRises
    <3>6. Kept(i, n, max) \in Nat
      BY <1>1, <1>5, <3>1, KeptWithin
    <3>4. Kept(i - 1, n, max) + 1 \in 1 .. n /\ Kept(i, n, max) + 1 \in 1 .. n
      BY <2>2, <3>1
    <3> HIDE DEF s, n, Position
    <3>5. Position(s[i]) = Kept(i - 1, n, max) + 1 /\ Position(s[i + 1]) = Kept(i, n, max) + 1
      BY <1>2, <3>2, <3>4
    <3>7. Kept(i - 1, n, max) + 1 < Kept(i, n, max) + 1
      BY <3>3, <3>6
    <3> QED BY <3>5, <3>7
  <2>6. ~(n <= max)
    BY <1>5
  <2> HIDE DEF s, Position
  <2> QED BY <2>3, <2>4, <2>5, <2>6 DEF Tool!SampleKeepsTheFlight, Tool!Last, s, Position
<1> QED BY <1>1, <1>3, <1>4, <1>5

\* The page from one place of a list to another.
Cut(all, lim, k) ==
  SubSeq(all, (k - 1) * lim + 1, IF (k - 1) * lim + lim < Len(all) THEN (k - 1) * lim + lim ELSE Len(all))

\* The first k pages of a list.
Upto(all, lim, k) == SubSeq(all, 1, IF k * lim < Len(all) THEN k * lim ELSE Len(all))

\* A page of a list is a sequence.
LEMMA CutsAreSequences ==
  ASSUME NEW S, NEW all \in Seq(S), NEW lim \in Nat, NEW k \in Nat \ {0}
  PROVE  Cut(all, lim, k) \in Seq(S)
<1> DEFINE a == (k - 1) * lim
           b == IF a + lim < Len(all) THEN a + lim ELSE Len(all)
<1>1. a \in Nat /\ Len(all) \in Nat
  OBVIOUS
<1> HIDE DEF a
<1>2. a + 1 \in Nat \ {0} /\ b \in 0..Len(all)
  BY <1>1
<1> HIDE DEF b
<1>3. SubSeq(all, a + 1, b) \in Seq(S)
  BY <1>2
<1> QED BY <1>3 DEF Cut, a, b

\* Products part with their sums.
LEMMA SumTimes == ASSUME NEW a \in Nat, NEW b \in Nat, NEW c \in Nat PROVE (a + b) * c = a * c + b * c
OBVIOUS

\* A page goes on where the ones before it end.
LEMMA PagesJoin ==
  ASSUME NEW S, NEW all \in Seq(S), NEW lim \in Nat \ {0}, NEW k \in Nat \ {0}, (k - 1) * lim < Len(all)
  PROVE  /\ Upto(all, lim, k - 1) \o Cut(all, lim, k) = Upto(all, lim, k)
         /\ Cut(all, lim, k) # <<>>
<1> DEFINE a == (k - 1) * lim
           n == Len(all)
           b == IF a + lim < n THEN a + lim ELSE n
<1>1. a \in Nat /\ n \in Nat /\ a < n /\ k * lim = a + lim
  OBVIOUS
<1>2. Upto(all, lim, k - 1) = SubSeq(all, 1, a) /\ Cut(all, lim, k) = SubSeq(all, a + 1, b)
      /\ Upto(all, lim, k) = SubSeq(all, 1, b)
  BY <1>1 DEF Upto, Cut
<1> HIDE DEF a, n
<1>3. b \in Nat /\ a < b /\ b <= n
  BY <1>1
<1> HIDE DEF b
<1>4. SubSeq(all, 1, a) \o SubSeq(all, a + 1, b) = SubSeq(all, 1, b)
  BY <1>1, <1>3 DEF n
<1>5. SubSeq(all, a + 1, b) # <<>>
  BY <1>1, <1>3 DEF n
<1> QED BY <1>2, <1>4, <1>5

\* FlattenSeq, as the function it is found by.
Flattens(seqs, f) == f = [i \in 1..Len(seqs) |-> IF i = 1 THEN seqs[i] ELSE f[i - 1] \o seqs[i]]

\* The pages of a list make the list.
LEMMA PagesFlatten ==
  ASSUME NEW S, NEW all \in Seq(S), NEW lim \in Nat \ {0}, NEW m \in Nat \ {0},
         (m - 1) * lim < Len(all), m * lim >= Len(all)
  PROVE  Tool!FlattenSeq([k \in 1..m |-> Cut(all, lim, k)]) = all
<1> DEFINE pages == [k \in 1..m |-> Cut(all, lim, k)]
           made  == [k \in 1..m |-> Upto(all, lim, k)]
           f     == CHOOSE f : Flattens(pages, f)
<1>0. Len(pages) = m /\ DOMAIN pages = 1..m
  <2>1. \A k \in 1..m : Cut(all, lim, k) \in Seq(S)
    BY CutsAreSequences
  <2>2. pages \in [1..m -> Seq(S)]
    BY <2>1
  <2> HIDE DEF pages
  <2> QED BY <2>2
<1>1. \A k \in 1..m : (k - 1) * lim < Len(all)
  <2> SUFFICES ASSUME NEW k \in 1..m PROVE (k - 1) * lim < Len(all)
    OBVIOUS
  <2>1. (m - k) * lim \in Nat /\ (k - 1) * lim \in Nat
    <3>1. m - k \in Nat /\ k - 1 \in Nat
      OBVIOUS
    <3> HIDE DEF pages, made
    <3> QED BY <3>1
  <2>2. (m - 1) * lim = (k - 1) * lim + (m - k) * lim
    <3>2. k - 1 \in Nat /\ m - k \in Nat /\ m - 1 = (k - 1) + (m - k)
      OBVIOUS
    <3> QED BY <3>2, SumTimes
  <2> QED BY <2>1, <2>2
<1>2. Upto(all, lim, 0) = <<>> /\ Upto(all, lim, m) = all
  BY DEF Upto
<1>3. \A k \in 1..m : Upto(all, lim, k - 1) \o pages[k] = Upto(all, lim, k)
  <2> SUFFICES ASSUME NEW k \in 1..m PROVE Upto(all, lim, k - 1) \o pages[k] = Upto(all, lim, k)
    OBVIOUS
  <2>1. k \in Nat \ {0} /\ (k - 1) * lim < Len(all)
    BY <1>1
  <2> QED BY <2>1, PagesJoin
<1>a. pages[1] = Upto(all, lim, 1)
  <2>1. 1 \in 1..m /\ 1 - 1 = 0 /\ 0 * lim = 0 /\ (1 - 1) * lim = 0
    OBVIOUS
  <2>2. pages[1] \in Seq(S)
    <3>1. Cut(all, lim, 1) \in Seq(S)
      BY CutsAreSequences
    <3> QED BY <2>1, <3>1
  <2>3. Upto(all, lim, 0) \o pages[1] = Upto(all, lim, 1)
    BY <1>3, <2>1
  <2> HIDE DEF pages
  <2>4. <<>> \o pages[1] = pages[1]
    BY <2>2
  <2> QED BY <1>2, <2>3, <2>4
<1>4. Flattens(pages, made)
  <2>1. \A k \in 1..m : made[k] = IF k = 1 THEN pages[k] ELSE made[k - 1] \o pages[k]
    <3> SUFFICES ASSUME NEW k \in 1..m PROVE made[k] = IF k = 1 THEN pages[k] ELSE made[k - 1] \o pages[k]
      OBVIOUS
    <3>1. CASE k = 1
      <4> HIDE DEF pages
      <4> QED BY <1>a, <3>1
    <3>2. CASE k # 1
      <4>1. k - 1 \in 1..m
        BY <3>2
      <4> HIDE DEF pages
      <4> QED BY <1>3, <3>2, <4>1
    <3> QED BY <3>1, <3>2
  <2> HIDE DEF pages
  <2>2. made = [k \in 1..m |-> made[k]]
    OBVIOUS
  <2> HIDE DEF made
  <2>3. made = [k \in 1..m |-> IF k = 1 THEN pages[k] ELSE made[k - 1] \o pages[k]]
    BY <2>1, <2>2
  <2> QED BY <1>0, <2>3 DEF Flattens
<1>5. Flattens(pages, f)
  BY <1>4
<1>6. Tool!FlattenSeq(pages) = f[m]
  BY <1>0 DEF Tool!FlattenSeq, Flattens
<1> HIDE DEF f, pages
<1> DEFINE Good == {k \in Nat : k + 1 \in 1..m => f[k + 1] = Upto(all, lim, k + 1)}
<1>7. 0 \in Good
  <2>1. ASSUME 0 + 1 \in 1..m PROVE f[0 + 1] = Upto(all, lim, 0 + 1)
    <3>1. f[0 + 1] = pages[1]
      BY <1>0, <1>5, <2>1 DEF Flattens
    <3> QED BY <1>a, <3>1
  <2> QED BY <2>1
<1>8. ASSUME NEW k \in Nat, k \in Good PROVE k + 1 \in Good
  <2> SUFFICES ASSUME (k + 1) + 1 \in 1..m PROVE f[(k + 1) + 1] = Upto(all, lim, (k + 1) + 1)
    OBVIOUS
  <2> DEFINE j == (k + 1) + 1
  <2>1. j \in 1..m /\ j # 1 /\ j - 1 = k + 1 /\ k + 1 \in 1..m
    OBVIOUS
  <2>2. f[k + 1] = Upto(all, lim, k + 1)
    BY <1>8, <2>1
  <2> HIDE DEF j
  <2>3. f[j] = f[j - 1] \o pages[j]
    BY <1>0, <1>5, <2>1 DEF Flattens
  <2>4. f[j] = Upto(all, lim, j)
    BY <1>3, <2>1, <2>2, <2>3
  <2> QED BY <2>4 DEF j
<1>9. \A k \in Nat : k \in Good
  <2> HIDE DEF Good
  <2> QED BY <1>7, <1>8, AllOfNat
<1>10. f[m] = Upto(all, lim, m)
  <2>1. m - 1 \in Nat /\ (m - 1) + 1 = m /\ m \in 1..m
    OBVIOUS
  <2>2. m - 1 \in Good
    BY <1>9, <2>1
  <2> QED BY <2>1, <2>2
<1> QED BY <1>2, <1>6, <1>10 DEF pages

\* A reader who asks page after page, with any limit the schema allows, sees
\* every row of any list once and in order, no page before the end is empty,
\* and the one after it is (list_flights and the other paged tools).
THEOREM PagesShowEachRowOnce ==
  ASSUME NULL \notin Nat, LimitDefault \in Nat, LimitMax \in Nat,
         NEW S, NEW all \in Seq(S), NEW limit \in Nat \cup {NULL}
  PROVE  Tool!PagesCoverTheList(all, limit)
<1> DEFINE n     == Len(all)
           lim   == IF limit = NULL THEN LimitDefault ELSE limit
           first == Tool!Page(all, limit, NULL)
           m     == (n + lim - 1) \div lim
           At(o) == SubSeq(all, o + 1, IF o + lim < n THEN o + lim ELSE n)
<1>1. n \in Nat /\ lim \in Nat
  OBVIOUS
<1>2. ASSUME first # NULL PROVE lim \in Nat \ {0} /\ first.limit = lim
  BY <1>1, <1>2 DEF Tool!Page
<1>3. ASSUME first # NULL, NEW o \in Nat PROVE Tool!Page(all, limit, o).rows = At(o)
  <2>1. o # NULL /\ lim \in 1..LimitMax /\ ~(o < 0)
    BY <1>1, <1>3 DEF Tool!Page
  <2> QED BY <2>1 DEF Tool!Page
<1>4. SUFFICES ASSUME first # NULL
              PROVE  /\ Tool!FlattenSeq([k \in 1..m |-> Tool!Page(all, limit, (k - 1) * lim).rows]) = all
                     /\ Tool!Page(all, limit, n).rows = <<>>
                     /\ \A k \in 1..m : Tool!Page(all, limit, (k - 1) * lim).rows # <<>>
  BY <1>2 DEF Tool!PagesCoverTheList
<1>5. lim \in Nat \ {0}
  BY <1>2, <1>4
<1>6. \A o \in Nat : Tool!Page(all, limit, o).rows = At(o)
  BY <1>3, <1>4
<1> HIDE DEF lim, first
<1>7. Tool!Page(all, limit, n).rows = <<>>
  <2>1. At(n) = <<>>
    BY <1>1, <1>5
  <2> HIDE DEF At
  <2> QED BY <1>1, <1>6, <2>1
<1>8. m \in Nat /\ m * lim <= n + lim - 1 /\ n + lim - 1 < m * lim + lim
  <2>1. n + lim - 1 \in Nat
    BY <1>1, <1>5
  <2> QED BY <1>5, <2>1, Quotient
<1> HIDE DEF m
<1>9. m * lim \in Nat /\ m * lim >= n
  BY <1>1, <1>5, <1>8
<1>10. \A k \in 1..m : (k - 1) * lim \in Nat /\ (k - 1) * lim < n
  <2> SUFFICES ASSUME NEW k \in 1..m PROVE (k - 1) * lim \in Nat /\ (k - 1) * lim < n
    OBVIOUS
  <2>1. m - k \in Nat /\ k - 1 \in Nat
    BY <1>8
  <2>2. (m - k) * lim \in Nat /\ (k - 1) * lim \in Nat
    BY <1>5, <2>1
  <2>3. m * lim = (k - 1) * lim + lim + (m - k) * lim
    BY <1>5, <1>8
  <2> QED BY <1>1, <1>5, <1>8, <2>2, <2>3
<1>11. \A k \in 1..m : Tool!Page(all, limit, (k - 1) * lim).rows = Cut(all, lim, k)
  BY <1>6, <1>10 DEF Cut
<1>12. \A k \in 1..m : Cut(all, lim, k) # <<>>
  <2> SUFFICES ASSUME NEW k \in 1..m PROVE Cut(all, lim, k) # <<>>
    OBVIOUS
  <2>1. k \in Nat \ {0} /\ (k - 1) * lim < Len(all)
    BY <1>8, <1>10
  <2> QED BY <1>5, <2>1, PagesJoin
<1>13. Tool!FlattenSeq([k \in 1..m |-> Cut(all, lim, k)]) = all
  <2>1. CASE m = 0
    <3>1. all = <<>>
      <4>1. m * lim = 0
        BY <1>5, <2>1
      <4> QED BY <1>1, <1>9, <4>1
    <3>2. [k \in 1..m |-> Cut(all, lim, k)] = <<>>
      BY <2>1
    <3>3. Tool!FlattenSeq(<<>>) = <<>>
      BY DEF Tool!FlattenSeq
    <3> QED BY <3>1, <3>2, <3>3
  <2>2. CASE m # 0
    <3>1. m \in Nat \ {0} /\ m \in 1..m
      BY <1>8, <2>2
    <3>2. (m - 1) * lim < Len(all) /\ m * lim >= Len(all)
      BY <1>9, <1>10, <3>1
    <3> QED BY <1>5, <3>1, <3>2, PagesFlatten
  <2> QED BY <2>1, <2>2
<1>14. [k \in 1..m |-> Tool!Page(all, limit, (k - 1) * lim).rows] = [k \in 1..m |-> Cut(all, lim, k)]
  BY <1>11
<1> QED BY <1>7, <1>11, <1>12, <1>13, <1>14 DEF m

\* A logbook as the write tools see it.
Books == [flights : UNION {[F -> [notes : STRING \cup {NULL}, trip : Nat \cup {NULL}]] : F \in SUBSET Nat},
          trips : UNION {[1 .. n -> STRING] : n \in Nat}, legs : SUBSET Nat]

\* A write tool that answers an error changed nothing and told nobody, one
\* that changed something told the pages, and no flight is left on a trip
\* that does not exist, for every logbook and every call (src/mcp/tools/write.ts).
THEOREM WritesAreToldAlways ==
  ASSUME NEW book \in Books,
         \A f \in DOMAIN book.flights : book.flights[f].trip \in DOMAIN book.trips \cup {NULL},
         NEW call, call.tool \in {"update_flight_notes", "create_trip", "assign_flight_to_trip", "import_simbrief_leg"},
         call.fails \in BOOLEAN
  PROVE  Tool!WritesAreTold(book, call)
<1> DEFINE w == Tool!Write(book, call)
           F == DOMAIN book.flights
<1>1. PICK G \in SUBSET Nat : book.flights \in [G -> [notes : STRING \cup {NULL}, trip : Nat \cup {NULL}]]
  BY DEF Books
<1>2. PICK n \in Nat : book.trips \in [1 .. n -> STRING]
  BY DEF Books
<1>3. CASE w = Tool!Refuse(book)
  <2> HIDE DEF w
  <2> QED BY <1>3 DEF Tool!Refuse, Tool!WritesAreTold, w
<1>4. ASSUME call.tool = "update_flight_notes", w # Tool!Refuse(book) PROVE Tool!WritesAreTold(book, call)
  <2>1. w = Tool!UpdateFlightNotes(book, call)
    BY <1>4 DEF Tool!Write
  <2>2. w = Tool!Done([book EXCEPT !.flights[call.flight].notes = call.text]) /\ call.flight \in F
    BY <1>4, <2>1 DEF Tool!UpdateFlightNotes
  <2> HIDE DEF w
  <2>3. /\ w.ok = TRUE /\ w.told = 1 /\ w.book.trips = book.trips
        /\ w.book.flights = [book.flights EXCEPT ![call.flight].notes = call.text]
    BY <2>2 DEF Tool!Done, Books
  <2>4. \A f \in F : /\ w.book.flights[f].trip = book.flights[f].trip
                     /\ f # call.flight => w.book.flights[f] = book.flights[f]
    BY <1>1, <2>2, <2>3
  <2>5. DOMAIN w.book.flights = F
    BY <1>1, <2>3
  <2> QED BY <1>4, <2>3, <2>4, <2>5 DEF Tool!WritesAreTold, w
<1>5. ASSUME call.tool = "create_trip", w # Tool!Refuse(book) PROVE Tool!WritesAreTold(book, call)
  <2> DEFINE id == Tool!Cardinality(DOMAIN book.trips) + 1
             trips == [t \in DOMAIN book.trips \cup {id} |-> IF t = id THEN call.text ELSE book.trips[t]]
  <2>0. w = Tool!CreateTrip(book, call)
    BY <1>5 DEF Tool!Write
  <2>5. ~(call.text = NULL \/ call.fails)
    BY <1>5, <2>0 DEF Tool!CreateTrip
  <2>1. w = Tool!Done([book EXCEPT !.trips = [t \in DOMAIN @ \cup {id} |-> IF t = id THEN call.text ELSE @[t]]])
    BY <2>0, <2>5, Zenon DEF Tool!CreateTrip
  <2>2. DOMAIN book.trips \subseteq DOMAIN trips
    OBVIOUS
  <2> HIDE DEF w
  <2>3. w.ok = TRUE /\ w.told = 1 /\ w.book.trips = trips /\ w.book.flights = book.flights
    BY <2>1 DEF Tool!Done, Books
  <2> HIDE DEF trips
  <2> QED BY <2>2, <2>3 DEF Tool!WritesAreTold, w
<1>6. ASSUME call.tool = "assign_flight_to_trip", w # Tool!Refuse(book) PROVE Tool!WritesAreTold(book, call)
  <2>1. w = Tool!AssignFlightToTrip(book, call)
    BY <1>6 DEF Tool!Write
  <2>2. /\ w = Tool!Done([book EXCEPT !.flights[call.flight].trip = call.trip])
        /\ call.flight \in F /\ call.trip \in DOMAIN book.trips
    BY <1>6, <2>1 DEF Tool!AssignFlightToTrip
  <2> HIDE DEF w
  <2>3. /\ w.ok = TRUE /\ w.told = 1 /\ w.book.trips = book.trips
        /\ w.book.flights = [book.flights EXCEPT ![call.flight].trip = call.trip]
    BY <2>2 DEF Tool!Done, Books
  <2>4. \A f \in F : /\ w.book.flights[f].notes = book.flights[f].notes
                     /\ w.book.flights[f].trip \in {book.flights[f].trip, call.trip}
                     /\ f # call.flight => w.book.flights[f] = book.flights[f]
    BY <1>1, <2>2, <2>3
  <2>5. DOMAIN w.book.flights = F
    BY <1>1, <2>3
  <2> QED BY <1>6, <2>2, <2>3, <2>4, <2>5 DEF Tool!WritesAreTold, w
<1>7. ASSUME call.tool = "import_simbrief_leg", w # Tool!Refuse(book) PROVE Tool!WritesAreTold(book, call)
  <2>0. w = Tool!ImportSimbriefLeg(book, call)
    BY <1>7 DEF Tool!Write
  <2>1. \/ w = Tool!Refuse(book) \/ w = Tool!Done(book)
        \/ w = Tool!Done([book EXCEPT !.legs = @ \cup {Tool!Cardinality(@) + 1}])
    BY <2>0, Zenon DEF Tool!ImportSimbriefLeg
  <2> HIDE DEF w
  <2>2. w.ok = TRUE /\ w.told = 1 /\ w.book.trips = book.trips /\ w.book.flights = book.flights
    BY <1>7, <2>1 DEF Tool!Done, Books
  <2> QED BY <2>2 DEF Tool!WritesAreTold, w
<1> QED BY <1>3, <1>4, <1>5, <1>6, <1>7

-----------------------------------------------------------------------------
(* The gates of the HTTP interface (src/auth, src/server.ts). *)

\* The shape of a route the ingest token may use.
Listed(path) ==
  /\ Len(path) \in 2 .. 5 /\ path[1] = "api"
  /\ path[2] \in {"status", "acars", "events", "ground-sessions", "settings", "planned-legs", "flights"}

\* Every route of the list has it.
LEMMA RoutesListed == \A t \in Gate!INGEST_SCOPED_ROUTES : Listed(t.path)
<1> DEFINE flight == <<"api", "flights", "*", "sayintentions">>
<1>1. \A last : Listed(Append(flight, last))
  BY DEF Listed
<1>2. \A o \in {"flights", "planned-legs"} :
        Listed(Gate!Thread(o)) /\ \A last : Listed(Append(Gate!Thread(o), last))
  BY DEF Listed, Gate!Thread
<1>3. /\ Listed(<<"api", "status">>) /\ Listed(<<"api", "acars", "canned-messages">>) /\ Listed(<<"api", "events">>)
      /\ Listed(<<"api", "ground-sessions", "current">>) /\ Listed(<<"api", "settings", "simbrief">>)
      /\ Listed(<<"api", "settings", "sayintentions">>) /\ Listed(<<"api", "planned-legs", "simbrief">>)
      /\ Listed(<<"api", "planned-legs", "*", "sayintentions", "clearance">>)
  BY DEF Listed
<1> SUFFICES ASSUME NEW t \in Gate!INGEST_SCOPED_ROUTES PROVE Listed(t.path)
  OBVIOUS
<1> DEFINE Get(path) == [method |-> "GET", path |-> path]
           Post(path) == [method |-> "POST", path |-> path]
           Delete(path) == [method |-> "DELETE", path |-> path]
           single == {Get(<<"api", "status">>), Get(<<"api", "acars", "canned-messages">>), Get(<<"api", "events">>),
                      Get(<<"api", "ground-sessions", "current">>), Get(<<"api", "settings", "simbrief">>),
                      Get(<<"api", "settings", "sayintentions">>), Post(<<"api", "planned-legs", "simbrief">>),
                      Post(Append(Gate!Thread("planned-legs"), "loadsheet")),
                      Post(Append(Gate!Thread("planned-legs"), "clearance")),
                      Post(<<"api", "planned-legs", "*", "sayintentions", "clearance">>),
                      Get(Append(flight, "link")), Post(Append(flight, "link")), Post(Append(flight, "import")),
                      Delete(Append(flight, "link"))}
           threads == UNION {{Get(Gate!Thread(o)), Post(Gate!Thread(o)), Post(Append(Gate!Thread(o), "wx"))} :
                               o \in {"flights", "planned-legs"}}
<1>4. Gate!INGEST_SCOPED_ROUTES = single \cup threads
  BY DEF Gate!INGEST_SCOPED_ROUTES
<1>5. \A path : Get(path).path = path /\ Post(path).path = path /\ Delete(path).path = path
  OBVIOUS
<1> HIDE DEF Get, Post, Delete, flight
<1>6. CASE t \in threads
  <2>1. PICK o \in {"flights", "planned-legs"} :
          t \in {Get(Gate!Thread(o)), Post(Gate!Thread(o)), Post(Append(Gate!Thread(o), "wx"))}
    BY <1>6
  <2> QED BY <1>2, <1>5, <2>1
<1>7. CASE t \in single
  BY <1>1, <1>2, <1>3, <1>5, <1>7
<1> QED BY <1>4, <1>6, <1>7

\* What it means to be under /api or under one of its branches.
LEMMA ApiPrefix ==
  ASSUME NEW S, NEW path \in Seq(S)
  PROVE  /\ Len(path) >= 1 /\ path[1] = "api" => Gate!Under(<<"api">>, path)
         /\ \A s : Gate!Under(<<"api", s>>, path) => Gate!Under(<<"api">>, path) /\ Len(path) >= 2 /\ path[2] = s
BY DEF Gate!Under, Gate!IsPrefix

\* A request: its session goes with a cookie, its token is "none", "right"
\* or any other.
Requests == [method : STRING, path : Seq(STRING), session : BOOLEAN, cookie : BOOLEAN,
             token : STRING, origin : STRING, mcp : STRING]

\* Which gates are configured.
Gates == [ingest : BOOLEAN, mcp : BOOLEAN]

\* The request is one the ingest token may make.
IsListed(r) == \E t \in Gate!INGEST_SCOPED_ROUTES : t.method = r.method /\ Gate!Covers(t.path, r.path)

\* A path whose router has a gate of its own: the ingest and sync routes.
Own(r) == r.path \in Gate!INGEST \/ [method |-> r.method, path |-> r.path] \in Gate!SYNC

\* A listed request is under /api and behind no gate of its own.
LEMMA ListedRoute ==
  ASSUME NEW r \in Requests, IsListed(r)
  PROVE  /\ Gate!Under(<<"api">>, r.path) /\ ~Own(r) /\ r.path # <<"mcp">>
         /\ ~Gate!Under(<<"api", "auth">>, r.path)
<1>1. PICK t \in Gate!INGEST_SCOPED_ROUTES : Gate!Covers(t.path, r.path)
  BY DEF IsListed
<1> DEFINE p == r.path
           q == t.path
<1>2. Len(q) \in 2 .. 5 /\ q[1] = "api"
      /\ q[2] \in {"status", "acars", "events", "ground-sessions", "settings", "planned-legs", "flights"}
  BY RoutesListed DEF Listed
<1>3. p \in Seq(STRING) /\ Len(p) = Len(q) /\ \A i \in DOMAIN p : q[i] \in {"*", p[i]}
  BY <1>1 DEF Gate!Covers, Requests
<1> HIDE DEF p, q
<1>4. Len(p) >= 2 /\ 1 \in DOMAIN p /\ 2 \in DOMAIN p
  BY <1>2, <1>3
<1>5. p[1] = "api" /\ p[2] = q[2]
  BY <1>2, <1>3, <1>4
<1>6. p[2] \notin {"ingest", "navdata", "auth"}
  BY <1>2, <1>5
<1>7. Gate!Under(<<"api">>, p) /\ ~Gate!Under(<<"api", "auth">>, p) /\ p # <<"mcp">>
  BY <1>3, <1>4, <1>5, <1>6, ApiPrefix
<1>8. p \notin Gate!INGEST
  BY <1>6 DEF Gate!INGEST
<1>9. [method |-> r.method, path |-> p] \notin Gate!SYNC
  BY <1>6 DEF Gate!SYNC
<1> QED BY <1>7, <1>8, <1>9 DEF p, Own

\* Every request of every method and path is answered by one gate: a page's
\* session or, on the listed routes only, the ingest token; a token never
\* opens what is not listed, and a foreign page never rides on a cookie.
THEOREM EveryRequestMeetsOneGate ==
  ASSUME NEW r \in Requests, NEW c \in Gates, r.session => r.cookie
  PROVE  Gate!AnswersByOneGate(r, c)
<1> DEFINE a == Gate!Answer(r, c)
           api == Gate!Under(<<"api">>, r.path)
           auth == Gate!Under(<<"api", "auth">>, r.path)
           ingest == Gate!Under(<<"api", "ingest">>, r.path)
           safe == r.method \in {"GET", "HEAD", "OPTIONS"}
           scope == Gate!Scope(r, c)
           cross == Gate!CrossOrigin(r, c)
<1>1. r.path \in Seq(STRING) /\ r.session \in BOOLEAN /\ r.cookie \in BOOLEAN /\ c.ingest \in BOOLEAN
  BY DEF Requests, Gates
<1>2. auth => api
  BY <1>1, ApiPrefix
<1>3. scope = IF ~c.ingest \/ ~api \/ r.session \/ ~IsListed(r) THEN "unmarked"
              ELSE IF r.token = "none" THEN "absent" ELSE IF r.token = "right" THEN "valid" ELSE "invalid"
  BY DEF Gate!Scope, Gate!IsIngestScopedRoute, IsListed
<1>4. cross <=> ~safe /\ api /\ ~ingest /\ ~(scope = "valid" /\ ~r.cookie) /\ r.origin = "other"
  BY DEF Gate!CrossOrigin
<1>5. \/ a.by \in {"ingest", "sync", "mcp"} /\ (Own(r) \/ r.path = <<"mcp">>)
      \/ a.by = "origin" /\ cross
      \/ a.by = "auth" /\ ~cross /\ auth
      \/ /\ ~cross /\ ~auth /\ api
         /\ a.by = IF r.session \/ scope = "valid" THEN "router" ELSE IF scope = "unmarked" THEN "login" ELSE "scope"
      \/ a.by = "page" /\ ~api
  BY DEF Gate!Answer, Own
<1>6. IsListed(r) => ~(a.by \in {"ingest", "sync", "mcp"}) /\ api /\ ~auth
  BY <1>5, ListedRoute
<1> HIDE DEF a, api, auth, ingest, safe, scope, cross
<1>7. a.by = "scope" => IsListed(r) /\ ~r.session /\ r.token # "right"
  BY <1>3, <1>5
<1>8. a.by = "router" /\ ~r.session => IsListed(r) /\ r.token = "right" /\ c.ingest
  BY <1>3, <1>5
<1>9. r.cookie /\ r.origin = "other" /\ ~safe => a.by \notin {"router", "auth"} \/ ingest
  BY <1>2, <1>4, <1>5
<1>10. IsListed(r) /\ c.ingest /\ r.token = "right" /\ ~r.cookie => a.by = "router"
  BY <1>1, <1>3, <1>4, <1>5, <1>6
<1>11. (r.session \/ ~IsListed(r)) /\ ~Own(r) => a = Gate!Answer([r EXCEPT !.token = "none"], c)
  <2> SUFFICES ASSUME r.session \/ ~IsListed(r), ~Own(r) PROVE a = Gate!Answer([r EXCEPT !.token = "none"], c)
    OBVIOUS
  <2> DEFINE u == [r EXCEPT !.token = "none"]
  <2>1. u.method = r.method /\ u.path = r.path /\ u.session = r.session /\ u.cookie = r.cookie /\ u.origin = r.origin
        /\ u.mcp = r.mcp
    BY DEF Requests
  <2> HIDE DEF u
  <2>2. scope = "unmarked" /\ Gate!Scope(u, c) = "unmarked"
    BY <2>1 DEF scope, Gate!Scope, Gate!IsIngestScopedRoute, IsListed
  <2>3. cross <=> Gate!CrossOrigin(u, c)
    BY <2>1, <2>2 DEF cross, scope, Gate!CrossOrigin
  <2> QED BY <2>1, <2>2, <2>3 DEF a, Gate!Answer, Gate!Matches, Own, scope, cross, u
<1> QED BY <1>7, <1>8, <1>9, <1>10, <1>11 DEF Gate!AnswersByOneGate, IsListed, Own, a, ingest, safe

\* What reaches the last middleware.
Faults == [kind : {"multer", "too large", "syntax", "other"}, code : STRING, field : STRING, path : Seq(STRING)]

\* No path with a body of its own is one of the sidecar's or the MCP server's.
LEMMA BodiesApart ==
  ASSUME NEW path \in Seq(STRING), Gate!InvalidBodyPath(path)
  PROVE  path \notin {<<"api", "navdata", "rows">>, <<"api", "navdata", "state">>, <<"mcp">>}
<1> DEFINE rows == <<"api", "navdata", "rows">>
           state == <<"api", "navdata", "state">>
<1>1. /\ rows \in Seq({"api", "navdata", "rows", "state"}) /\ Len(rows) = 3 /\ rows[2] = "navdata" /\ rows[3] = "rows"
      /\ state \in Seq({"api", "navdata", "rows", "state"})
      /\ Len(state) = 3 /\ state[2] = "navdata" /\ state[3] = "state"
  OBVIOUS
<1> HIDE DEF rows, state
<1>2. ASSUME NEW p \in {rows, state} PROVE ~Gate!InvalidBodyPath(p)
  <2>0. p \in Seq({"api", "navdata", "rows", "state"}) /\ Len(p) = 3 /\ p[2] = "navdata" /\ p[3] \in {"rows", "state"}
    BY <1>1
  <2>1. Gate!Last(p) # "acars-messages"
    BY <2>0 DEF Gate!Last
  <2>2. ~Gate!Under(<<"api", "settings">>, p)
    BY <2>0 DEF Gate!Under, Gate!IsPrefix
  <2>3. SubSeq(p, Len(p) - 1, Len(p)) # <<"acars-messages", "wx">>
    <3>1. SubSeq(p, 2, 3)[1] = p[2]
      BY <2>0
    <3>2. <<"acars-messages", "wx">>[1] = "acars-messages"
      OBVIOUS
    <3>3. Len(p) - 1 = 2 /\ Len(p) = 3
      BY <2>0
    <3> QED BY <2>0, <3>1, <3>2, <3>3
  <2>4. p # <<"api", "ground-sessions">> /\ p # <<"api", "ground-sessions", "current">>
    BY <2>0
  <2> QED BY <2>1, <2>2, <2>3, <2>4 DEF Gate!InvalidBodyPath
<1>3. ~Gate!InvalidBodyPath(<<"mcp">>)
  BY DEF Gate!InvalidBodyPath, Gate!Under, Gate!IsPrefix, Gate!Last
<1> QED BY <1>2, <1>3 DEF rows, state

\* A client's mistake is answered as one on every path, and the sidecar can
\* always tell a batch that is too large from one that is wrong.
THEOREM ErrorsAreToldAlways ==
  ASSUME NEW e \in Faults
  PROVE  Gate!ErrorsAreTold(e)
<1> DEFINE a == Gate!ErrorAnswer(e)
           snapshot == e.kind = "multer" /\ e.field = "navdataSnapshot"
           rows == e.path = <<"api", "navdata", "rows">>
           state == e.path = <<"api", "navdata", "state">>
           mcp == e.path = <<"mcp">>
           body == Gate!InvalidBodyPath(e.path)
<1>1. body => ~rows /\ ~state /\ ~mcp
  BY BodiesApart DEF Faults
<1>2. e.kind \in {"multer", "too large", "syntax", "other"}
  BY DEF Faults
<1>3. CASE e.kind = "multer"
  BY <1>3 DEF Gate!ErrorAnswer, Gate!ErrorsAreTold
<1>4. CASE e.kind = "too large"
  <2>1. rows => a = <<413, "NAVDATA_TOO_LARGE">>
    BY <1>4 DEF Gate!ErrorAnswer
  <2>2. ~rows => a = <<413, "default">>
    BY <1>4 DEF Gate!ErrorAnswer
  <2> HIDE DEF a
  <2>3. a[1] \in 400 .. 499 /\ (rows => a[2] = "NAVDATA_TOO_LARGE")
    BY <2>1, <2>2
  <2> QED BY <1>4, <2>3 DEF Gate!ErrorsAreTold, a
<1>5. CASE e.kind = "syntax"
  <2>0. ~(mcp /\ rows) /\ ~(mcp /\ state)
    OBVIOUS
  <2>1. a = IF rows \/ state THEN <<400, "NAVDATA_BAD_BATCH">> ELSE IF body THEN <<400, "INVALID_BODY">>
            ELSE IF mcp THEN <<400, "Parse error">> ELSE <<400, "default">>
    <3>1. CASE rows \/ state
      <4>1. ~body /\ ~mcp
        BY <1>1, <2>0, <3>1
      <4> HIDE DEF body
      <4> QED BY <1>5, <3>1, <4>1 DEF Gate!ErrorAnswer, body
    <3>2. CASE ~rows /\ ~state /\ body
      <4>1. ~mcp
        BY <1>1, <3>2
      <4> HIDE DEF body
      <4> QED BY <1>5, <3>2, <4>1 DEF Gate!ErrorAnswer, body
    <3>3. CASE ~rows /\ ~state /\ ~body
      <4> HIDE DEF body
      <4>1. CASE mcp
        BY <1>5, <3>3, <4>1 DEF Gate!ErrorAnswer, body
      <4>2. CASE ~mcp
        BY <1>5, <3>3, <4>2 DEF Gate!ErrorAnswer, body
      <4> QED BY <4>1, <4>2
    <3> QED BY <3>1, <3>2, <3>3
  <2> HIDE DEF a, body
  <2>2. a[1] = 400 /\ (rows => a[2] = "NAVDATA_BAD_BATCH")
    BY <2>1
  <2>3. body \/ mcp => a[2] # "default"
    BY <1>1, <2>0, <2>1
  <2> QED BY <1>5, <2>2, <2>3 DEF Gate!ErrorsAreTold, a, body
<1>6. CASE e.kind = "other"
  BY <1>6 DEF Gate!ErrorAnswer, Gate!ErrorsAreTold
<1> QED BY <1>2, <1>3, <1>4, <1>5, <1>6

-----------------------------------------------------------------------------
(* The services asked, and the import of a leg (src/simbriefClient.ts,      *)
(* src/weatherClient.ts, src/sayIntentionsClient.ts, src/simbriefImport.ts).*)

\* A verdict says whether it is one and which.
LEMMA VerdictsTell ==
  /\ \A code : Service!Fails(code).ok = FALSE /\ Service!Fails(code).code = code
  /\ \A value : Service!Works(value).ok = TRUE /\ Service!Works(value).value = value
  /\ \A error : Service!Thrown(error).ok = FALSE /\ Service!Thrown(error).code \in {"TIMEOUT", "NETWORK"}
BY DEF Service!Fails, Service!Works, Service!Thrown

\* The forms of a body.
Forms == {"unreadable", "empty", "text", "list", "object"}

\* SimBrief's verdict on anything that comes over the wire: the envelope is
\* read before the status (fetchSimbriefPlan).
LEMMA SimbriefVerdict ==
  ASSUME NEW wire, wire.body.form \in Forms
  PROVE  LET v == Service!FetchSimbriefPlan(wire)
             e == wire.body.envelope
         IN  IF wire.error # <<>> THEN ~v.ok /\ v.code \in {"TIMEOUT", "NETWORK"}
             ELSE IF wire.body.form = "unreadable" THEN ~v.ok /\ v.code = "NETWORK"
             ELSE IF wire.body.form # "object" THEN ~v.ok /\ v.code = "BAD_BODY"
             ELSE IF e \in Service!ErrorEnvelopes
                  THEN ~v.ok /\ v.code \in {"UNKNOWN_USER", "NO_PLAN", "BAD_STATUS"}
                       /\ (e = "error: no flight plan" => v.code = "NO_PLAN")
             ELSE IF wire.status = 200 /\ e = "success" THEN v.ok
             ELSE ~v.ok /\ v.code \in {"BAD_STATUS", "BAD_BODY"}
<1> DEFINE v == Service!FetchSimbriefPlan(wire)
           e == wire.body.envelope
<1>1. CASE wire.error # <<>>
  <2>1. v = Service!Thrown(wire.error)
    BY <1>1 DEF Service!FetchSimbriefPlan
  <2> QED BY <1>1, <2>1, VerdictsTell
<1>2. CASE wire.error = <<>> /\ wire.body.form = "unreadable"
  <2>1. v = Service!Fails("NETWORK")
    BY <1>2 DEF Service!FetchSimbriefPlan
  <2> QED BY <1>2, <2>1, VerdictsTell
<1>3. CASE wire.error = <<>> /\ wire.body.form \in {"empty", "text", "list"}
  <2>1. v = Service!Fails("BAD_BODY")
    BY <1>3 DEF Service!FetchSimbriefPlan
  <2> QED BY <1>3, <2>1, VerdictsTell
<1>4. CASE wire.error = <<>> /\ wire.body.form = "object"
  <2>1. v = IF e \in Service!ErrorEnvelopes THEN Service!Fails(Service!EnvelopeFault(e))
            ELSE IF wire.status # 200 THEN Service!Fails("BAD_STATUS")
            ELSE IF e = "success" THEN Service!Works(wire.body) ELSE Service!Fails("BAD_BODY")
    BY <1>4 DEF Service!FetchSimbriefPlan
  <2>2. e \in Service!ErrorEnvelopes =>
          /\ Service!EnvelopeFault(e) \in {"UNKNOWN_USER", "NO_PLAN", "BAD_STATUS"}
          /\ e = "error: no flight plan" => Service!EnvelopeFault(e) = "NO_PLAN"
    BY DEF Service!ErrorEnvelopes, Service!EnvelopeFault
  <2> HIDE DEF v, e
  <2>3. CASE e \in Service!ErrorEnvelopes
    <3>1. ~v.ok /\ v.code = Service!EnvelopeFault(e)
      BY <2>1, <2>3, VerdictsTell
    <3> QED BY <1>4, <2>2, <2>3, <3>1 DEF v, e
  <2>4. CASE e \notin Service!ErrorEnvelopes /\ wire.status = 200 /\ e = "success"
    <3>1. v.ok
      BY <2>1, <2>4, VerdictsTell
    <3> QED BY <1>4, <2>4, <3>1 DEF v, e
  <2>5. CASE e \notin Service!ErrorEnvelopes /\ ~(wire.status = 200 /\ e = "success")
    <3>1. ~v.ok /\ v.code \in {"BAD_STATUS", "BAD_BODY"}
      BY <2>1, <2>5, VerdictsTell
    <3> QED BY <1>4, <2>5, <3>1 DEF v, e
  <2> QED BY <2>3, <2>4, <2>5
<1> QED BY <1>1, <1>2, <1>3, <1>4 DEF Forms

\* The codes of a failure, by whether an answer arrived at all.
LEMMA SimbriefFaults ==
  ASSUME NEW wire, wire.body.form \in Forms
  PROVE  LET v == Service!FetchSimbriefPlan(wire)
             arrived == wire.error = <<>> /\ wire.body.form # "unreadable"
         IN  ~v.ok => \/ ~arrived /\ v.code \in {"TIMEOUT", "NETWORK"}
                      \/ arrived /\ v.code \in {"BAD_BODY", "UNKNOWN_USER", "NO_PLAN", "BAD_STATUS"}
<1> DEFINE v == Service!FetchSimbriefPlan(wire)
           f == wire.body.form
           e == wire.body.envelope
           thrown == wire.error # <<>>
<1>1. IF thrown THEN ~v.ok /\ v.code \in {"TIMEOUT", "NETWORK"}
      ELSE IF f = "unreadable" THEN ~v.ok /\ v.code = "NETWORK"
      ELSE IF f # "object" THEN ~v.ok /\ v.code = "BAD_BODY"
      ELSE IF e \in Service!ErrorEnvelopes
           THEN ~v.ok /\ v.code \in {"UNKNOWN_USER", "NO_PLAN", "BAD_STATUS"}
                       /\ (e = "error: no flight plan" => v.code = "NO_PLAN")
      ELSE IF wire.status = 200 /\ e = "success" THEN v.ok
      ELSE ~v.ok /\ v.code \in {"BAD_STATUS", "BAD_BODY"}
  BY SimbriefVerdict
<1> HIDE DEF v, e, f, thrown
<1>2. ~v.ok => \/ (thrown \/ f = "unreadable") /\ v.code \in {"TIMEOUT", "NETWORK"}
               \/ ~thrown /\ f # "unreadable" /\ v.code \in {"BAD_BODY", "UNKNOWN_USER", "NO_PLAN", "BAD_STATUS"}
  BY <1>1
<1> QED BY <1>2 DEF v, f, thrown

\* A plan is taken only from a successful envelope, no plan is told from no
\* answer, and a transport failure is never told as SimBrief's.
THEOREM SimbriefVerdictsAreTheEnvelope ==
  ASSUME NEW wire, wire.body.form \in Forms
  PROVE  Service!SimbriefVerdictIsTheEnvelope(wire)
<1>1. "success" \notin Service!ErrorEnvelopes /\ "error: no flight plan" \in Service!ErrorEnvelopes
  BY DEF Service!ErrorEnvelopes
<1> DEFINE v == Service!FetchSimbriefPlan(wire)
           arrived == wire.error = <<>> /\ wire.body.form # "unreadable"
<1>2. v.ok <=> arrived /\ wire.status = 200 /\ wire.body.form = "object" /\ wire.body.envelope = "success"
  BY <1>1, SimbriefVerdict
<1>3. arrived /\ wire.body.form = "object" /\ wire.body.envelope = "error: no flight plan" => v.code = "NO_PLAN"
  BY <1>1, SimbriefVerdict
<1>4. ~v.ok => (arrived <=> v.code \notin {"TIMEOUT", "NETWORK"})
  BY SimbriefFaults
<1> QED BY <1>2, <1>3, <1>4 DEF Service!SimbriefVerdictIsTheEnvelope

\* An import that fails stores nothing, one that is reported stored its leg,
\* no plan is stored twice unasked, whatever SimBrief sends and whichever
\* write throws (importSimbriefLooseLeg).
THEOREM ImportsAreAllOrNothing ==
  ASSUME NEW wire, wire.body.form \in Forms, NEW userId, NEW plan, plan.ok \in BOOLEAN,
         NEW existing \in BOOLEAN, NEW again \in BOOLEAN, NEW broken
  PROVE  Service!ImportIsAllOrNothing(userId, wire, plan, existing, again, broken)
<1> DEFINE v == Service!FetchSimbriefPlan(wire)
           o == Service!ImportSimbriefLooseLeg(userId, wire, plan, existing, again, broken)
<1>1. ~v.ok => v.code \in {"TIMEOUT", "NETWORK", "BAD_BODY", "UNKNOWN_USER", "NO_PLAN", "BAD_STATUS"}
  BY SimbriefFaults
<1>2. ~v.ok => Service!SIMBRIEF_FAILURE_STATUS[v.code] \in {400, 404, 502, 504}
  <2> HIDE DEF v
  <2> QED BY <1>1 DEF Service!SIMBRIEF_FAILURE_STATUS
<1>3. \/ o.kind = "error" /\ o.stored = {} /\ userId = NULL /\ o.status = 400
      \/ o.kind = "error" /\ o.stored = {} /\ userId # NULL /\ (~v.ok \/ ~plan.ok) /\ o.status \in {400, 404, 502, 504}
      \/ o.kind = "duplicate" /\ o.stored = {}
      \/ o.kind = "error" /\ o.stored = {} /\ o.code = "DB_ERROR" /\ broken = "leg"
      \/ o.kind = "imported" /\ "leg" \in o.stored /\ (existing => again)
  <2>1. CASE userId = NULL
    BY <2>1 DEF Service!ImportSimbriefLooseLeg, Service!Outcome
  <2>2. CASE userId # NULL /\ ~v.ok
    <3>1. o = Service!Outcome("error", Service!SIMBRIEF_FAILURE_STATUS[v.code], v.code, {})
      BY <2>2 DEF Service!ImportSimbriefLooseLeg
    <3> HIDE DEF v
    <3> QED BY <1>2, <2>2, <3>1 DEF Service!Outcome
  <2>3. CASE userId # NULL /\ v.ok /\ ~plan.ok
    <3>1. o = Service!Outcome("error", 502, "BAD_BODY", {})
      BY <2>3 DEF Service!ImportSimbriefLooseLeg
    <3> QED BY <2>3, <3>1 DEF Service!Outcome
  <2>4. CASE userId # NULL /\ v.ok /\ plan.ok
    <3> DEFINE s == {"leg"} \cup (IF broken = "release" THEN {} ELSE {"release"})
    <3>1. \/ existing /\ ~again /\ o = Service!Outcome("duplicate", 200, NULL, {})
          \/ broken = "leg" /\ o = Service!Outcome("error", 500, "DB_ERROR", {})
          \/ (existing => again) /\ o = Service!Outcome("imported", 201, NULL, s)
      BY <2>4 DEF Service!ImportSimbriefLooseLeg
    <3>2. "leg" \in s
      OBVIOUS
    <3> HIDE DEF s
    <3> QED BY <3>1, <3>2 DEF Service!Outcome
  <2> QED BY <2>1, <2>2, <2>3, <2>4
<1> HIDE DEF v, o
<1> QED BY <1>3 DEF Service!ImportIsAllOrNothing, v, o

\* A weather product has a verdict whatever comes over the wire.
LEMMA ProductVerdict ==
  ASSUME NEW wire, wire.body.form \in Forms
  PROVE  Service!FetchOneProduct(wire).ok \in BOOLEAN
<1> DEFINE v == Service!FetchOneProduct(wire)
           Told == v \in {Service!Thrown(wire.error), Service!Works(NULL), Service!Works(wire.body.first),
                         Service!Fails("RATE_LIMITED"), Service!Fails("BAD_STATUS"), Service!Fails("NETWORK"),
                         Service!Fails("BAD_BODY")}
<1>1. ASSUME wire.error # <<>> \/ wire.status # 200 PROVE Told
  BY <1>1, ZenonT(60) DEF Service!FetchOneProduct
<1>2. ASSUME wire.error = <<>>, wire.status = 200 PROVE Told
  <2>1. CASE wire.body.form \in {"unreadable", "empty"}
    BY <1>2, <2>1, ZenonT(60) DEF Service!FetchOneProduct
  <2>2. CASE wire.body.form \in {"text", "object", "list"}
    BY <1>2, <2>2, ZenonT(60) DEF Service!FetchOneProduct
  <2> QED BY <2>1, <2>2 DEF Forms
<1>3. Told
  BY <1>1, <1>2
<1> HIDE DEF v
<1> QED BY <1>3, VerdictsTell DEF v

\* A reply about the weather is about the METAR whatever becomes of the TAF
\* (fetchWeather).
THEOREM WeatherIsTheMetarsVerdict ==
  ASSUME NEW metar, metar.body.form \in Forms, NEW taf, taf.body.form \in Forms
  PROVE  Service!WeatherIsAboutTheMetar(metar, taf)
<1> DEFINE m == Service!FetchOneProduct(metar)
           t == Service!FetchOneProduct(taf)
           w == Service!FetchWeather(metar, taf)
<1>1. w = IF ~m.ok THEN m ELSE Service!Works([metar |-> m.value, taf |-> IF t.ok THEN t.value ELSE NULL])
  BY DEF Service!FetchWeather
<1>2. m.ok \in BOOLEAN
  BY ProductVerdict
<1> HIDE DEF m, t, w
<1> QED BY <1>1, <1>2 DEF Service!WeatherIsAboutTheMetar, m, t, w, Service!Works

\* A message counts as sent only if nothing of the answer says otherwise,
\* whatever the service sends (sayAs).
THEOREM SentMeansTakenAlways ==
  ASSUME NEW key, NEW fits \in BOOLEAN, NEW wire, wire.body.form \in Forms,
         wire.body.hint \in BOOLEAN, wire.status \in Nat
  PROVE  Service!SentMeansTaken(key, fits, wire)
<1> DEFINE v == Service!SayAs(key, fits, wire)
           asked == key # NULL /\ fits
           arrived == asked /\ wire.error = <<>> /\ wire.body.form # "unreadable"
           says == wire.body.form \in {"object", "list"} /\ wire.body.hint
<1>1. CASE ~asked
  <2>1. v = Service!Fails("NO_KEY") \/ v = Service!Fails("BAD_BODY")
    BY <1>1 DEF Service!SayAs
  <2> HIDE DEF v
  <2> QED BY <1>1, <2>1, VerdictsTell DEF Service!SentMeansTaken, v
<1>2. CASE asked /\ ~arrived
  <2>1. v = Service!Thrown(wire.error) \/ v = Service!Fails("NETWORK")
    BY <1>2 DEF Service!SayAs
  <2> HIDE DEF v
  <2> QED BY <1>2, <2>1, VerdictsTell DEF Service!SentMeansTaken, v
<1>3. CASE arrived
  <2>1. v = IF wire.status \in {401, 403} THEN Service!Fails("BAD_KEY")
         ELSE IF wire.status \in {404, 409} THEN Service!Fails("NO_ACTIVE_SESSION")
         ELSE IF wire.status \notin 200..299 THEN Service!Fails("BAD_STATUS")
         ELSE IF wire.body.form = "text" THEN Service!Fails("BAD_BODY")
         ELSE IF wire.body.form # "empty" /\ wire.body.hint THEN Service!Fails("NO_ACTIVE_SESSION")
         ELSE IF Service!HasFailureMarker(wire.body) THEN Service!Fails("BAD_STATUS") ELSE Service!Works(wire.body)
    BY <1>3 DEF Service!SayAs, Service!BadKey
  <2>2. v.ok => wire.status \in 200 .. 299 /\ ~says /\ ~Service!HasFailureMarker(wire.body)
    <3> HIDE DEF v
    <3> QED BY <2>1, VerdictsTell DEF Forms
  <2>3. wire.status \in {404, 409} => v = Service!Fails("NO_ACTIVE_SESSION")
    <3> HIDE DEF v
    <3> QED BY <2>1
  <2>4. wire.status \in 200 .. 299 /\ says => v = Service!Fails("NO_ACTIVE_SESSION")
    <3> HIDE DEF v
    <3> QED BY <2>1
  <2> HIDE DEF v
  <2> QED BY <1>3, <2>2, <2>3, <2>4, ZenonT(30) DEF Service!SentMeansTaken, v
<1> QED BY <1>1, <1>2, <1>3

-----------------------------------------------------------------------------
(* The configuration, the account's settings (src/config.ts, src/settings.ts). *)

\* NULL is no name of a demand that was not met.
NoFault == NULL \notin {"pair", "certificate", "key", "material", "plaintext", "ingest", "session secret"}

\* What an environment may hold.
Environments == [cert : {"", "missing", "bad", "good"}, key : {"", "missing", "bad", "good"}, loopback : BOOLEAN,
                 plaintext : BOOLEAN, token : STRING, openIngest : BOOLEAN, mcp : STRING, secret : STRING]

\* In every environment the server starts exactly when each demand is met,
\* and what is less safe was asked for and announced (loadConfig).
THEOREM StartsAreAsAsked ==
  ASSUME NoFault, NEW env \in Environments
  PROVE  Config!StartsAsAsked(env)
<1> DEFINE c == Config!LoadConfig(env)
           f == Config!TlsFault(env)
           tls == /\ env.cert = env.key /\ env.cert \in {"", "good"}
                  /\ (env.cert = "good" \/ env.loopback \/ env.plaintext)
           open == env.token = "" /\ ~env.openIngest
           short == env.secret = "short"
<1>1. f = NULL <=> tls
  BY DEF Config!TlsFault, Environments, NoFault
<1>2. c = LET fault == IF f # NULL THEN f ELSE IF open THEN "ingest" ELSE IF short THEN "session secret" ELSE NULL
          IN IF fault # NULL THEN [error |-> fault]
      ELSE [error |-> NULL, tls |-> Config!Tls(env), ingest |-> [token |-> env.token, open |-> env.token = ""],
            mcp |-> env.mcp, secret |-> IF env.secret = "" THEN NULL ELSE env.secret, warnings |-> Config!Warnings(env)]
  BY DEF Config!LoadConfig
<1>3. c.error = NULL <=> tls /\ ~open /\ ~short
  <2> HIDE DEF c, f, tls, open, short
  <2> QED BY <1>1, <1>2 DEF NoFault
<1>4. c.error = NULL => /\ c.tls = Config!Tls(env) /\ c.ingest.open = (env.token = "")
                        /\ c.warnings = Config!Warnings(env)
  <2> HIDE DEF c, f, tls, open, short
  <2> QED BY <1>1, <1>2, <1>3 DEF NoFault
<1>5. env.cert = "" /\ ~env.loopback => "plaintext" \in Config!Warnings(env)
  BY DEF Config!Warnings
<1>6. env.token = "" /\ env.openIngest => "open ingest" \in Config!Warnings(env)
  BY DEF Config!Warnings
<1>7. Config!Tls(env).enabled <=> env.cert # ""
  BY DEF Config!Tls
<1>8. tls => (env.key # "" => env.cert # "") /\ (env.cert = "" /\ ~env.loopback => env.plaintext)
  OBVIOUS
<1> HIDE DEF c, f
<1>9. (c.error = NULL) = (tls /\ ~open /\ ~short)
  BY <1>3, Zenon
<1>10. env.loopback \in BOOLEAN /\ env.plaintext \in BOOLEAN /\ env.openIngest \in BOOLEAN
  BY DEF Environments
<1>11. c.error = NULL => (c.tls.enabled <=> env.cert # "") /\ (c.ingest.open <=> env.token = "")
  BY <1>4, <1>7
<1> QED BY <1>3, <1>4, <1>5, <1>6, <1>8, <1>9, <1>10, <1>11 DEF Config!StartsAsAsked, c

\* The values of a setting.
Values == [text : BOOLEAN, length : Nat, plain : BOOLEAN, digits : BOOLEAN]

\* Any number of settings: the page that is answered 200 shows what the next
\* GET shows, a refusal changes nothing, and no other setting moves.
THEOREM SettingsAreWhatWasShown ==
  ASSUME NEW Names, NULL \notin Values, NEW stored \in [Names -> Values \cup {NULL}], NEW name \in Names,
         \E n \in Names : n # name, NEW object \in BOOLEAN, NEW raw \in Values \cup {NULL}
  PROVE  Config!SettingIsWhatWasShown(stored, name, object, raw)
<1> DEFINE value == Config!Accepted(name, raw)
           after == Config!PutSetting(stored, name, object, raw)
           other == CHOOSE n \in DOMAIN stored : n # name
<1>1. other \in Names /\ other # name
  OBVIOUS
<1>2. Config!Blank \in Values
  BY DEF Config!Blank, Values
<1>3. raw = NULL => value = Config!Blank
  BY DEF Config!Accepted
<1>4. after = IF ~object THEN <<stored, [status |-> 400, code |-> "INVALID_BODY"]>>
      ELSE IF value = NULL THEN <<stored, [status |-> 400, code |-> "INVALID"]>>
      ELSE <<Config!SetSetting(stored, name, value),
             [status |-> 200, shown |-> IF value = Config!Blank THEN NULL ELSE value]>>
  BY DEF Config!PutSetting
<1>5. Config!SetSetting(stored, name, value) = [stored EXCEPT ![name] = IF value = Config!Blank THEN NULL ELSE value]
  BY DEF Config!SetSetting
<1> HIDE DEF value, after, other
<1>6. CASE ~object
  BY <1>4, <1>6 DEF Config!SettingIsWhatWasShown, after
<1>7. CASE object /\ value = NULL
  BY <1>2, <1>3, <1>4, <1>7 DEF Config!SettingIsWhatWasShown, after
<1>8. CASE object /\ value # NULL
  BY <1>1, <1>3, <1>4, <1>5, <1>8 DEF Config!SettingIsWhatWasShown, after, other
<1> QED BY <1>6, <1>7, <1>8

\* Whoever was given a password signs in with it and with the name as it was
\* kept, and nobody else; a row with a part that is gone refuses everybody, for
\* any arguments, names, texts and passwords (setPassword and verifyPassword).
THEOREM AccountsSignIn ==
  ASSUME NULL \notin Int, NULL # "scrypt", NULL # "salt", \A t : <<t, "salt">> # NULL,
         \A u, h : [username |-> u, hash |-> h] # NULL,
         NEW argv, NEW password, NEW confirmed, NEW username, NEW text, NEW damaged
  PROVE  Config!AccountSignsIn(argv, password, confirmed, username, text, damaged)
<1> DEFINE user    == Config!ParseUsername(argv)
           hash    == Config!HashPassword(password.text)
           account == [username |-> user.name, hash |-> hash]
           spoilt  == [i \in 1..6 |-> IF i = damaged THEN NULL ELSE hash[i]]
           worse   == [account EXCEPT !.hash = [i \in 1..6 |-> IF i = damaged THEN NULL ELSE @[i]]]
<1>1. hash = <<"scrypt", 16384, 8, 1, "salt", <<password.text, "salt">>>>
  BY DEF Config!HashPassword, Config!Derived
<1>2. Config!VerifyPassword(text, hash) <=> text = password.text
  <2>1. ASSUME Config!VerifyPassword(text, hash) PROVE text = password.text
    <3>1. <<text, "salt">> = <<password.text, "salt">>
      BY <1>1, <2>1 DEF Config!VerifyPassword, Config!Derived
    <3> QED BY <3>1
  <2>2. ASSUME text = password.text PROVE Config!VerifyPassword(text, hash)
    <3> DEFINE key == <<password.text, "salt">>
    <3>1. /\ Len(hash) = 6 /\ hash[1] = "scrypt" /\ hash[2] = 16384 /\ hash[3] = 8 /\ hash[4] = 1
          /\ hash[5] = "salt" /\ hash[6] = key
      BY <1>1
    <3>2. key # NULL
      OBVIOUS
    <3>3. key = Config!Derived(text, hash[5])
      BY <2>2, <3>1 DEF Config!Derived
    <3> HIDE DEF hash, key
    <3>4. hash[2] # NULL /\ hash[3] # NULL /\ hash[4] # NULL
      BY <3>1
    <3>5. \A i \in 2..4 : hash[i] # NULL
      <4> SUFFICES ASSUME NEW i \in 2..4 PROVE hash[i] # NULL
        OBVIOUS
      <4>1. i = 2 \/ i = 3 \/ i = 4
        OBVIOUS
      <4> QED BY <3>4, <4>1
    <3>6. hash[5] # NULL /\ hash[6] # NULL
      BY <3>1, <3>2
    <3> QED BY <3>1, <3>3, <3>5, <3>6 DEF Config!VerifyPassword
  <2> QED BY <2>1, <2>2
<1>3. ASSUME damaged \in 1..6 PROVE ~Config!VerifyPassword(text, spoilt)
  <2>1. spoilt[damaged] = NULL
    BY <1>3
  <2>2. damaged \in {1, 2, 3, 4, 5, 6}
    BY <1>3
  <2> HIDE DEF spoilt
  <2> SUFFICES ASSUME Config!VerifyPassword(text, spoilt) PROVE FALSE
    OBVIOUS
  <2>3. spoilt[1] = "scrypt" /\ spoilt[5] # NULL /\ spoilt[6] # NULL
    BY DEF Config!VerifyPassword
  <2>4. spoilt[2] # NULL /\ spoilt[3] # NULL /\ spoilt[4] # NULL
    <3>1. \A i \in 2..4 : spoilt[i] # NULL
      BY DEF Config!VerifyPassword
    <3>2. 2 \in 2..4 /\ 3 \in 2..4 /\ 4 \in 2..4
      OBVIOUS
    <3> QED BY <3>1, <3>2
  <2> QED BY <2>1, <2>2, <2>3, <2>4
<1> HIDE DEF hash, user
<1>4. account # NULL /\ account.username = user.name /\ account.hash = hash
  OBVIOUS
<1>5. worse.hash = spoilt
  OBVIOUS
<1> HIDE DEF account, worse, spoilt
<1>6. Config!SignsIn(account, username, text) <=> Config!Trim(username) = user.name /\ text = password.text
  BY <1>2, <1>4 DEF Config!SignsIn
<1>7. damaged \in 1..6 => ~Config!SignsIn(worse, username, text)
  BY <1>3, <1>5 DEF Config!SignsIn
<1>8. Config!SignsIn(account, username, text) \in BOOLEAN
  BY DEF Config!SignsIn, Config!VerifyPassword
<1>9. Config!SignsIn(account, username, text) = (Config!Trim(username) = user.name /\ text = password.text)
  BY <1>6, <1>8
<1> QED BY <1>7, <1>9 DEF Config!AccountSignsIn, user, account, worse, hash

-----------------------------------------------------------------------------
(* The rows of the replica of the navdata (src/navdata/store.ts).  The rows *)
(* of a batch are not ordered but picked by type, so the fold that applies  *)
(* them is followed for any sequence of them.                               *)

Sources == {"facility", "list", "minimal"}

\* The columns of a replica's rows, with the types of the schema.
Stored(t, v) ==
  /\ DOMAIN v = Replica!ColumnsOf[t]
  /\ t = "absent" => v["first"] \in Int
  /\ t = "airport" => v["source"] \in Sources \cup {NULL}

WellFormed(db) == \A k \in DOMAIN db : k[1] \in DOMAIN Replica!ColumnsOf /\ Stored(k[1], db[k])

\* A row with the types of the schema; a place may be told by halves, or
\* without its source.
Typed(row) ==
  /\ Replica!Sent(row.r, "source") \in Sources \cup {NULL}
  /\ Replica!Sent(row.r, "first") \in Int \cup {NULL}

\* NULL is no value of a column.
Marks == NULL # "absent" /\ NULL \notin Int /\ NULL \notin Sources /\ NULL # "index"

\* What a stored row becomes.
KeepsRow(t, old, new) ==
  /\ \A c \in DOMAIN old : old[c] # NULL => new[c] # NULL
  /\ t = "absent" => new["first"] <= old["first"]
  /\ t = "airport" => Replica!Rank(new["source"]) >= Replica!Rank(old["source"])

\* A coordinate is moved only by a row that is as good a source, or has none.
Moves(old, new, row, c) ==
  Replica!Sent(row.r, c) = new[c] /\ Replica!MayMove(row, old["source"])

Moved(old, new, row) ==
  \A c \in {"lat", "lon"} :
    new[c] # old[c] /\ old[c] # NULL /\ old["source"] # NULL => Moves(old, new, row, c)

\* A source is ranked, and none is ranked like none.
LEMMA Ranks ==
  ASSUME Marks, NEW s \in Sources \cup {NULL}
  PROVE  Replica!Rank(s) \in 0..3 /\ (s = NULL <=> Replica!Rank(s) = 0)
BY DEF Replica!Rank, Replica!POSITION_RANK, Sources, Marks

\* What is left of a row when no place backs its source.
LEMMA BackedSource ==
  ASSUME NEW row, Typed(row), NEW r, r = Replica!WithoutUnbackedPositionSource(row.r)
  PROVE  /\ \A c : c # "source" => Replica!Sent(r, c) = Replica!Sent(row.r, c)
         /\ Replica!Sent(r, "source") \in {NULL, Replica!Sent(row.r, "source")}
         /\ \A c : Replica!Sent(r, c) # NULL => r[c] = Replica!Sent(r, c)
<1>1. CASE r = row.r
  BY <1>1 DEF Replica!Sent
<1>2. CASE r # row.r
  <2>1. r = [c \in DOMAIN row.r \ {"source"} |-> row.r[c]]
    BY <1>2 DEF Replica!WithoutUnbackedPositionSource
  <2>2. \A c : Replica!Sent(r, c) = IF c = "source" THEN NULL ELSE Replica!Sent(row.r, c)
    BY <2>1 DEF Replica!Sent
  <2>3. \A c : Replica!Sent(r, c) # NULL => r[c] = Replica!Sent(r, c)
    BY DEF Replica!Sent
  <2> QED BY <2>2, <2>3
<1> QED BY <1>1, <1>2

\* One column of a merge.
Merged(t, c, fillOnly, was, sent) ==
  CASE c \in Replica!KEY_COLUMNS[t] -> was
    [] t = "absent" /\ c = "first" -> IF sent = NULL THEN was ELSE IF was < sent THEN was ELSE sent
    [] fillOnly /\ c \in {"lat", "lon", "source"} -> IF was # NULL THEN was ELSE sent
    [] OTHER -> IF sent # NULL THEN sent ELSE was

\* A merge keeps what was known.
LEMMA MergeKeeps ==
  ASSUME Marks, NEW t \in {"airport", "runway", "absent"}, NEW old, Stored(t, old), NEW row, Typed(row),
         NEW new, new = Replica!Merge(t, old, Replica!WithoutUnbackedPositionSource(row.r))
  PROVE  Stored(t, new) /\ KeepsRow(t, old, new) /\ (t = "airport" => Moved(old, new, row))
<1> DEFINE r == Replica!WithoutUnbackedPositionSource(row.r)
           source == Replica!Sent(r, "source")
           fillOnly == t = "airport" /\ source # NULL /\ Replica!Rank(source) < Replica!Rank(old["source"])
           cols == Replica!ColumnsOf[t]
<1>1. /\ \A c : Replica!Sent(r, c) # NULL => r[c] = Replica!Sent(r, c)
      /\ \A c : c # "source" => Replica!Sent(r, c) = Replica!Sent(row.r, c)
      /\ source \in {NULL, Replica!Sent(row.r, "source")}
  BY BackedSource
<1>2. DOMAIN new = cols
  BY DEF Replica!Merge
<1>3. new = [c \in cols |->
         CASE c \in Replica!KEY_COLUMNS[t] -> old[c]
           [] t = "absent" /\ c = "first" -> IF Replica!Sent(r, c) = NULL THEN old[c]
                                             ELSE IF old[c] < Replica!Sent(r, c) THEN old[c] ELSE Replica!Sent(r, c)
           [] fillOnly /\ c \in {"lat", "lon", "source"} -> IF old[c] # NULL THEN old[c] ELSE Replica!Sent(r, c)
           [] OTHER -> IF Replica!Sent(r, c) # NULL THEN r[c] ELSE old[c]]
  BY DEF Replica!Merge, Replica!POSITION_COLUMNS
<1> HIDE DEF r, fillOnly
<1>4. ASSUME NEW c \in cols PROVE new[c] = Merged(t, c, fillOnly, old[c], Replica!Sent(r, c))
  BY <1>1, <1>3 DEF Merged
<1>5. Typed(row) /\ source \in Sources \cup {NULL} /\ (source # NULL => source = Replica!Sent(row.r, "source"))
  BY <1>1 DEF Typed
<1>6. CASE t = "airport"
  <2>1. cols = {"ident", "lat", "lon", "source", "name", "detail", "rev"} /\ Replica!KEY_COLUMNS[t] = {"ident"}
    BY <1>6 DEF Replica!ColumnsOf, Replica!KEY_COLUMNS
  <2>2. new["source"] = (IF fillOnly THEN IF old["source"] # NULL THEN old["source"] ELSE source
                        ELSE IF source # NULL THEN source ELSE old["source"])
        /\ \A c \in {"lat", "lon"} :
             new[c] = (IF fillOnly THEN IF old[c] # NULL THEN old[c] ELSE Replica!Sent(r, c)
                       ELSE IF Replica!Sent(r, c) # NULL THEN Replica!Sent(r, c) ELSE old[c])
    BY <1>4, <1>6, <2>1 DEF Merged
  <2>3. \A c \in cols : old[c] # NULL => new[c] # NULL
    BY <1>4, <1>6, <2>1 DEF Merged
  <2>4. old["source"] \in Sources \cup {NULL} /\ DOMAIN old = cols
    BY <1>6 DEF Stored
  <2>5. Replica!Rank(source) \in 0..3 /\ Replica!Rank(old["source"]) \in 0..3
        /\ (source = NULL <=> Replica!Rank(source) = 0) /\ (old["source"] = NULL <=> Replica!Rank(old["source"]) = 0)
    BY <1>5, <2>4, Ranks
  <2>6. fillOnly <=> source # NULL /\ Replica!Rank(source) < Replica!Rank(old["source"])
    BY <1>6 DEF fillOnly
  <2> HIDE DEF source
  <2>7. new["source"] \in Sources \cup {NULL} /\ Replica!Rank(new["source"]) >= Replica!Rank(old["source"])
    BY <1>5, <2>2, <2>4, <2>5, <2>6
  <2>8. Moved(old, new, row)
    <3> SUFFICES ASSUME NEW c \in {"lat", "lon"}, new[c] # old[c], old[c] # NULL, old["source"] # NULL
                 PROVE  Replica!Sent(row.r, c) = new[c] /\ Replica!MayMove(row, old["source"])
      BY DEF Moved, Moves
    <3>1. ~fillOnly /\ new[c] = Replica!Sent(r, c)
      BY <2>2
    <3>2. new[c] = Replica!Sent(row.r, c)
      BY <1>1, <3>1
    <3>3. CASE source = NULL
      BY <3>2, <3>3 DEF Replica!MayMove, source, r
    <3>4. CASE source # NULL
      <4>1. Replica!Rank(source) >= Replica!Rank(old["source"])
        BY <2>5, <2>6, <3>1, <3>4
      <4> QED BY <1>5, <3>2, <3>4, <4>1 DEF Replica!MayMove
    <3> QED BY <3>3, <3>4
  <2> QED BY <1>2, <1>6, <2>3, <2>4, <2>7, <2>8 DEF Stored, KeepsRow
<1>7. CASE t = "absent"
  <2>1. cols = {"ident", "region", "first", "rev"} /\ Replica!KEY_COLUMNS[t] = {"ident", "region"}
    BY <1>7 DEF Replica!ColumnsOf, Replica!KEY_COLUMNS
  <2>2. old["first"] \in Int /\ DOMAIN old = cols /\ Replica!Sent(r, "first") \in Int \cup {NULL}
    BY <1>1, <1>7 DEF Stored, Typed
  <2>3. \A c \in cols \ {"first"} : old[c] # NULL => new[c] # NULL
    BY <1>4, <1>7, <2>1 DEF Merged
  <2>4. new["first"] \in Int /\ new["first"] <= old["first"]
    <3>1. new["first"] = IF Replica!Sent(r, "first") = NULL THEN old["first"]
              ELSE IF old["first"] < Replica!Sent(r, "first") THEN old["first"] ELSE Replica!Sent(r, "first")
      BY <1>4, <1>7, <2>1 DEF Merged
    <3> QED BY <2>2, <3>1
  <2> QED BY <1>2, <1>7, <2>1, <2>2, <2>3, <2>4 DEF Stored, KeepsRow, Marks
<1>8. CASE t = "runway"
  <2>1. cols = {"rwy", "ident", "surface", "rev"} /\ Replica!KEY_COLUMNS[t] = {"rwy"} /\ DOMAIN old = cols
    BY <1>8 DEF Replica!ColumnsOf, Replica!KEY_COLUMNS, Stored
  <2>2. ~fillOnly
    BY <1>8 DEF fillOnly
  <2>3. \A c \in cols : old[c] # NULL => new[c] # NULL
    BY <1>4, <1>8, <2>1, <2>2 DEF Merged
  <2> QED BY <1>2, <1>8, <2>1, <2>3 DEF Stored, KeepsRow
<1> QED BY <1>6, <1>7, <1>8

\* A place is moved only by one of these rows.
MovedBy(k, old, new, R) ==
  \A c \in {"lat", "lon"} :
    new[c] # old[c] /\ old[c] # NULL /\ old["source"] # NULL =>
      \E row \in R : Replica!Key(row) = k /\ Moves(old, new, row, c)

\* What a replica becomes by these rows.
AddsRows(old, new, R) ==
  \A k \in DOMAIN old : /\ k \in DOMAIN new
                        /\ KeepsRow(k[1], old[k], new[k])
                        /\ k[1] = "airport" => MovedBy(k, old[k], new[k], R)

\* A replica that stays is added to, and additions add up.
LEMMA AddsNothing ==
  ASSUME Marks, NEW db, WellFormed(db), NEW R PROVE AddsRows(db, db, R)
<1> SUFFICES ASSUME NEW k \in DOMAIN db PROVE KeepsRow(k[1], db[k], db[k]) /\ (k[1] = "airport" => MovedBy(k, db[k], db[k], R))
  BY DEF AddsRows
<1>1. Stored(k[1], db[k])
  BY DEF WellFormed
<1>2. k[1] = "airport" => Replica!Rank(db[k]["source"]) \in 0..3
  BY <1>1, Ranks DEF Stored
<1>3. k[1] = "absent" => db[k]["first"] \in Int
  BY <1>1 DEF Stored
<1>4. k[1] = "airport" => Replica!Rank(db[k]["source"]) >= Replica!Rank(db[k]["source"])
  BY <1>2
<1>5. k[1] = "absent" => db[k]["first"] <= db[k]["first"]
  BY <1>3
<1> QED BY <1>4, <1>5 DEF KeepsRow, MovedBy

LEMMA AddsOn ==
  ASSUME Marks, NEW old, NEW mid, NEW new, NEW R, NEW S, WellFormed(old), WellFormed(mid), WellFormed(new),
         AddsRows(old, mid, R), AddsRows(mid, new, S), \A row \in S : Typed(row)
  PROVE  AddsRows(old, new, R \cup S)
<1> SUFFICES ASSUME NEW k \in DOMAIN old
             PROVE  /\ k \in DOMAIN new /\ KeepsRow(k[1], old[k], new[k])
                    /\ k[1] = "airport" => MovedBy(k, old[k], new[k], R \cup S)
  BY DEF AddsRows
<1> DEFINE a == old[k]
           b == mid[k]
           c == new[k]
           t == k[1]
<1>1. k \in DOMAIN mid /\ KeepsRow(t, a, b) /\ (t = "airport" => MovedBy(k, a, b, R))
  BY DEF AddsRows
<1>2. k \in DOMAIN new /\ KeepsRow(t, b, c) /\ (t = "airport" => MovedBy(k, b, c, S))
  BY <1>1 DEF AddsRows
<1>3. t \in DOMAIN Replica!ColumnsOf /\ Stored(t, a) /\ Stored(t, b) /\ Stored(t, c)
  BY <1>1, <1>2 DEF WellFormed
<1> HIDE DEF a, b, c, t
<1>4. \A x \in DOMAIN a : a[x] # NULL => c[x] # NULL
  BY <1>1, <1>2, <1>3 DEF KeepsRow, Stored
<1>5. t = "absent" => c["first"] <= a["first"]
  <2> SUFFICES ASSUME t = "absent" PROVE c["first"] <= a["first"]
    OBVIOUS
  <2>1. a["first"] \in Int /\ b["first"] \in Int /\ c["first"] \in Int
    BY <1>3 DEF Stored
  <2> QED BY <1>1, <1>2, <2>1 DEF KeepsRow
<1>6. ASSUME t = "airport"
      PROVE  Replica!Rank(c["source"]) >= Replica!Rank(a["source"]) /\ MovedBy(k, a, c, R \cup S)
  <2>1. /\ Replica!Rank(a["source"]) \in 0..3 /\ Replica!Rank(b["source"]) \in 0..3 /\ Replica!Rank(c["source"]) \in 0..3
    BY <1>3, <1>6, Ranks DEF Stored
  <2>2. Replica!Rank(b["source"]) >= Replica!Rank(a["source"]) /\ Replica!Rank(c["source"]) >= Replica!Rank(b["source"])
    BY <1>1, <1>2, <1>6 DEF KeepsRow
  <2>3. {"lat", "lon", "source"} \subseteq DOMAIN a
    BY <1>3, <1>6 DEF Stored, Replica!ColumnsOf
  <2>4. \A x \in {"lat", "lon", "source"} : a[x] # NULL => b[x] # NULL
    BY <1>1, <2>3 DEF KeepsRow
  <2>5. ASSUME NEW x \in {"lat", "lon"}, c[x] # a[x], a[x] # NULL, a["source"] # NULL
        PROVE  \E row \in R \cup S : Replica!Key(row) = k /\ Moves(a, c, row, x)
    <3>1. CASE c[x] = b[x]
      <4>1. PICK row \in R : Replica!Key(row) = k /\ Moves(a, b, row, x)
        BY <1>1, <1>6, <2>5, <3>1 DEF MovedBy
      <4> QED BY <3>1, <4>1 DEF Moves
    <3>2. CASE c[x] # b[x]
      <4>1. PICK row \in S : Replica!Key(row) = k /\ Moves(b, c, row, x)
        BY <1>2, <1>6, <2>4, <2>5, <3>2 DEF MovedBy
      <4>2. Replica!MayMove(row, a["source"])
        <5>1. Replica!Rank(Replica!Sent(row.r, "source")) \in 0..3
          BY <4>1, Ranks DEF Typed
        <5>2. Replica!MayMove(row, b["source"])
          BY <4>1 DEF Moves
        <5> QED BY <2>1, <2>2, <5>1, <5>2 DEF Replica!MayMove
      <4> QED BY <4>1, <4>2 DEF Moves
    <3> QED BY <3>1, <3>2
  <2>6. Replica!Rank(c["source"]) >= Replica!Rank(a["source"])
    BY <2>1, <2>2
  <2> QED BY <2>5, <2>6 DEF MovedBy
<1>7. k \in DOMAIN new
  BY <1>2
<1> QED BY <1>4, <1>5, <1>6, <1>7 DEF KeepsRow, a, c, t

LEMMA AddsMore ==
  ASSUME NEW old, NEW new, NEW R, NEW S, R \subseteq S, AddsRows(old, new, R)
  PROVE  AddsRows(old, new, S)
BY DEF AddsRows, MovedBy

\* An airport told absent keeps what was known of it.
LEMMA MarkAdds ==
  ASSUME Marks, NEW db, WellFormed(db), NEW ident, NEW rev, rev # NULL, NEW new, NEW R,
         new = Replica!MarkAirportAbsent(db, ident, rev)
  PROVE  WellFormed(new) /\ AddsRows(db, new, R)
<1> DEFINE key == <<"airport", [c \in {"ident"} |-> ident]>>
           told == [db[key] EXCEPT !["detail"] = "absent"]
           row == [told EXCEPT !["rev"] = rev]
<1>1. CASE new = db
  BY <1>1, AddsNothing
<1>2. CASE new # db
  <2>1. key \in DOMAIN db /\ new = [db EXCEPT ![key]["detail"] = "absent", ![key]["rev"] = rev]
    BY <1>2 DEF Replica!MarkAirportAbsent
  <2>2. Stored("airport", db[key]) /\ key[1] = "airport"
    BY <2>1 DEF WellFormed
  <2>3. new = [k \in DOMAIN db |-> IF k = key THEN row ELSE db[k]]
    <3> HIDE DEF key
    <3> QED BY <2>1
  <2>4. DOMAIN db[key] = Replica!ColumnsOf["airport"] /\ "detail" \in DOMAIN db[key] /\ "rev" \in DOMAIN db[key]
    BY <2>2 DEF Stored, Replica!ColumnsOf
  <2>5. DOMAIN row = DOMAIN db[key]
        /\ \A c \in DOMAIN db[key] : row[c] = IF c = "rev" THEN rev ELSE IF c = "detail" THEN "absent" ELSE db[key][c]
    BY <2>4
  <2>6. {"lat", "lon", "source"} \subseteq DOMAIN db[key]
    BY <2>4 DEF Replica!ColumnsOf
  <2> HIDE DEF row
  <2>7. \A c \in {"lat", "lon", "source"} : row[c] = db[key][c]
    BY <2>5, <2>6
  <2>8. Stored("airport", row)
    BY <2>2, <2>5, <2>7 DEF Stored
  <2>9. \A c \in DOMAIN db[key] : db[key][c] # NULL => row[c] # NULL
    BY <2>5 DEF Marks
  <2>10. Replica!Rank(row["source"]) >= Replica!Rank(db[key]["source"])
    <3>1. Replica!Rank(db[key]["source"]) \in 0..3
      BY <2>2, Ranks DEF Stored
    <3> QED BY <2>7, <3>1
  <2>11. AddsRows(db, db, R)
    BY AddsNothing
  <2> HIDE DEF key
  <2>12. DOMAIN new = DOMAIN db /\ new[key] = row /\ \A k \in DOMAIN db : k # key => new[k] = db[k]
    BY <2>1, <2>3
  <2>13. WellFormed(new)
    <3> SUFFICES ASSUME NEW k \in DOMAIN db PROVE k[1] \in DOMAIN Replica!ColumnsOf /\ Stored(k[1], new[k])
      BY <2>12 DEF WellFormed
    <3> QED BY <2>2, <2>8, <2>12 DEF WellFormed
  <2>14. AddsRows(db, new, R)
    <3> SUFFICES ASSUME NEW k \in DOMAIN db
                 PROVE  KeepsRow(k[1], db[k], new[k]) /\ (k[1] = "airport" => MovedBy(k, db[k], new[k], R))
      BY <2>12 DEF AddsRows
    <3>1. CASE k = key
      BY <2>2, <2>7, <2>9, <2>10, <2>12, <3>1 DEF KeepsRow, MovedBy
    <3>2. CASE k # key
      BY <2>11, <2>12, <3>2 DEF AddsRows
    <3> QED BY <3>1, <3>2
  <2> QED BY <2>13, <2>14
<1> QED BY <1>1, <1>2

\* A row that is taken adds to the replica.
LEMMA RowAdds ==
  ASSUME Marks, NEW db, WellFormed(db), NEW row, Typed(row), NEW out, out = Replica!ApplyNavRow(db, row), out.db # NULL
  PROVE  WellFormed(out.db) /\ AddsRows(db, out.db, {row})
<1> DEFINE r == Replica!WithoutUnbackedPositionSource(row.r)
           key == Replica!Key(row)
           t == row.t
           values == IF key \in DOMAIN db THEN Replica!Merge(t, db[key], r) ELSE Replica!Inserted(t, r)
           writes == key \notin DOMAIN db \/ Replica!Differs(t, values, db[key])
           after == IF writes THEN Replica!With(db, key, values) ELSE db
<1>1. Replica!Valid(row) /\ out = Replica!Written(db, row, key, values)
  BY DEF Replica!ApplyNavRow, Replica!Refused, Replica!MergedOrNew
<1>2. /\ ~(writes /\ Replica!Broken(db, t, values))
      /\ out.db = IF t = "absent" THEN Replica!MarkAirportAbsent(after, row.r["ident"], row.r["rev"]) ELSE after
  <2> HIDE DEF values, key
  <2> QED BY <1>1 DEF Replica!Written, Replica!Refused
<1>3. t \in {"airport", "runway", "absent"} /\ t \in DOMAIN Replica!ColumnsOf /\ row.r["rev"] # NULL
  BY <1>1 DEF Replica!Valid, Replica!ColumnsOf, Replica!Sent
<1>4. key[1] = t /\ key = Replica!Key(row)
  BY DEF Replica!Key
<1> HIDE DEF key
<1>5. CASE ~writes
  BY <1>2, <1>3, <1>5, AddsNothing, MarkAdds
<1>6. CASE writes
  <2>1. Stored(t, values) /\ (key \in DOMAIN db => KeepsRow(t, db[key], values) /\ (t = "airport" => Moved(db[key], values, row)))
    <3>1. CASE key \in DOMAIN db
      <4>1. Stored(t, db[key])
        BY <1>4, <3>1 DEF WellFormed
      <4> QED BY <1>3, <3>1, <4>1, MergeKeeps
    <3>2. CASE key \notin DOMAIN db
      <4>1. values = Replica!Inserted(t, r)
        BY <3>2
      <4>2. DOMAIN values = Replica!ColumnsOf[t] /\ \A c \in Replica!ColumnsOf[t] : values[c] = Replica!OrDefault(r, c)
        BY <4>1 DEF Replica!Inserted
      <4>3. \A c : c \notin {"region", "detail"} => Replica!OrDefault(r, c) = Replica!Sent(r, c)
        BY DEF Replica!OrDefault, Replica!Sent, Replica!Default
      <4>4. /\ Replica!Sent(r, "first") = Replica!Sent(row.r, "first")
            /\ Replica!Sent(r, "source") \in {NULL, Replica!Sent(row.r, "source")}
        BY BackedSource
      <4>5. t = "absent" => values["first"] # NULL
        BY <1>2, <1>6 DEF Replica!Broken, Replica!Required
      <4> HIDE DEF values, r
      <4>6. t = "absent" => values["first"] \in Int
        BY <4>2, <4>3, <4>4, <4>5 DEF Typed, Replica!ColumnsOf
      <4>7. t = "airport" => values["source"] \in Sources \cup {NULL}
        BY <4>2, <4>3, <4>4 DEF Typed, Replica!ColumnsOf
      <4> QED BY <3>2, <4>2, <4>6, <4>7 DEF Stored
    <3> QED BY <3>1, <3>2
  <2> HIDE DEF values
  <2>2. after = [k \in DOMAIN db \cup {key} |-> IF k = key THEN values ELSE db[k]]
    <3>1. after = Replica!With(db, key, values)
      BY <1>6
    <3> QED BY <3>1 DEF Replica!With
  <2> HIDE DEF after, writes
  <2>3. WellFormed(after)
    BY <1>3, <1>4, <2>1, <2>2 DEF WellFormed
  <2>4. AddsRows(db, db, {row})
    BY AddsNothing
  <2>5. AddsRows(db, after, {row})
    <3> SUFFICES ASSUME NEW k \in DOMAIN db
                 PROVE  KeepsRow(k[1], db[k], after[k]) /\ (k[1] = "airport" => MovedBy(k, db[k], after[k], {row}))
      BY <2>2 DEF AddsRows
    <3>1. CASE k = key
      BY <1>4, <2>1, <2>2, <3>1 DEF MovedBy, Moved
    <3>2. CASE k # key
      BY <2>2, <2>4, <3>2 DEF AddsRows
    <3> QED BY <3>1, <3>2
  <2>6. CASE t # "absent"
    BY <1>2, <2>3, <2>5, <2>6
  <2>7. CASE t = "absent"
    <3>1. WellFormed(out.db) /\ AddsRows(after, out.db, {row})
      BY <1>2, <1>3, <2>3, <2>7, MarkAdds
    <3>2. {row} \cup {row} = {row}
      OBVIOUS
    <3>3. AddsRows(db, out.db, {row} \cup {row})
      BY <2>3, <2>5, <3>1, AddsOn
    <3> QED BY <3>1, <3>2, <3>3
  <2> QED BY <2>6, <2>7
<1> QED BY <1>5, <1>6

\* One row more, as the fold of a batch takes it.
Applied(state, row) ==
  IF state.db = NULL THEN state ELSE Replica!Counted(state, Replica!ApplyNavRow(state.db, row))

\* The fold of a batch by steps.
States(f, n, base, seq) ==
  f = [s \in SUBSET (1..n) |-> IF s = {} THEN base ELSE Applied(f[s \ {Highest(s)}], seq[Highest(s)])]

LEMMA StatesExist ==
  ASSUME NEW n \in Nat, NEW base, NEW seq
  PROVE  \E f : States(f, n, base, seq)
<1> DEFINE Good == {m \in Nat : \E f : States(f, m, base, seq)}
<1>1. 0 \in Good
  <2> DEFINE f == [s \in SUBSET (1..0) |-> base]
  <2>1. \A s \in SUBSET (1..0) : s = {}
    <3>1. 1..0 = {}
      OBVIOUS
    <3> HIDE DEF f
    <3> QED BY <3>1
  <2>2. f = [s \in SUBSET (1..0) |-> IF s = {} THEN base ELSE Applied(f[s \ {Highest(s)}], seq[Highest(s)])]
    BY <2>1, Zenon
  <2>3. States(f, 0, base, seq)
    <3> HIDE DEF f
    <3> QED BY <2>2 DEF States
  <2> HIDE DEF f
  <2> QED BY <2>3
<1>2. ASSUME NEW m \in Nat, m \in Good PROVE m + 1 \in Good
  <2>1. PICK f : States(f, m, base, seq)
    BY <1>2
  <2>2. \A s \in SUBSET (1..m) : f[s] = IF s = {} THEN base ELSE Applied(f[s \ {Highest(s)}], seq[Highest(s)])
    BY <2>1 DEF States
  <2> DEFINE New(s) == IF m + 1 \in s THEN Applied(f[s \ {m + 1}], seq[m + 1]) ELSE f[s]
             g == [s \in SUBSET (1..(m + 1)) |-> New(s)]
  <2>3. \A s \in SUBSET (1..(m + 1)) : s \ {m + 1} \in SUBSET (1..m) /\ (m + 1 \notin s => s \in SUBSET (1..m))
    OBVIOUS
  <2>4. ASSUME NEW s \in SUBSET (1..(m + 1))
        PROVE  New(s) = IF s = {} THEN base ELSE Applied(g[s \ {Highest(s)}], seq[Highest(s)])
    <3>1. CASE s = {}
      <4>1. {} \in SUBSET (1..m)
        OBVIOUS
      <4>2. f[{}] = base
        BY <2>2, <4>1
      <4> QED BY <3>1, <4>2
    <3>2. CASE m + 1 \in s
      <4>1. Highest(s) = m + 1
        <5>1. m + 1 \in Nat /\ \A y \in s : m + 1 >= y
          OBVIOUS
        <5> QED BY <3>2, <5>1, HighestOfAll
      <4>2. s \ {m + 1} \in SUBSET (1..(m + 1)) /\ m + 1 \notin s \ {m + 1}
        OBVIOUS
      <4>3. g[s \ {m + 1}] = f[s \ {m + 1}]
        BY <4>2
      <4> HIDE DEF g
      <4> QED BY <3>2, <4>1, <4>3
    <3>3. CASE s # {} /\ m + 1 \notin s
      <4>1. s \in SUBSET (1..m)
        BY <2>3, <3>3
      <4>2. Highest(s) \in s
        BY <3>3, <4>1, HighestIs
      <4>3. f[s] = Applied(f[s \ {Highest(s)}], seq[Highest(s)])
        BY <2>2, <3>3, <4>1
      <4>4. s \ {Highest(s)} \in SUBSET (1..(m + 1)) /\ m + 1 \notin s \ {Highest(s)}
        BY <3>3
      <4>5. g[s \ {Highest(s)}] = f[s \ {Highest(s)}]
        BY <4>4
      <4> HIDE DEF g
      <4> QED BY <3>3, <4>3, <4>5
    <3> QED BY <3>1, <3>2, <3>3
  <2>5. g = [s \in SUBSET (1..(m + 1)) |-> IF s = {} THEN base ELSE Applied(g[s \ {Highest(s)}], seq[Highest(s)])]
    <3> HIDE DEF New
    <3> QED BY <2>4
  <2>6. States(g, m + 1, base, seq)
    <3> HIDE DEF g
    <3> QED BY <2>5 DEF States
  <2> HIDE DEF g
  <2> QED BY <2>6
<1> QED
  <2> HIDE DEF Good
  <2>1. n \in Good
    BY <1>1, <1>2, AllOfNat
  <2> QED BY <2>1 DEF Good

\* The rows of a beginning.
RowsTo(seq, k) == {seq[i] : i \in 1..k}

\* Rows that are taken add to the replica, in whichever order they come.
LEMMA StatesAdd ==
  ASSUME Marks, NEW db, WellFormed(db), NEW S, NEW seq \in Seq(S), \A row \in S : Typed(row),
         NEW base, base.db = db, NEW f, States(f, Len(seq), base, seq), f[1..Len(seq)].db # NULL
  PROVE  WellFormed(f[1..Len(seq)].db) /\ AddsRows(db, f[1..Len(seq)].db, S)
<1> DEFINE n == Len(seq)
<1>1. n \in Nat /\ DOMAIN seq = 1..n /\ \A k \in 1..n : seq[k] \in S
  OBVIOUS
<1>3. States(f, n, base, seq) /\ f[1..n].db # NULL
  OBVIOUS
<1>4. base.db = db
  OBVIOUS
<1> HIDE DEF n
<1>5. \A s \in SUBSET (1..n) : f[s] = IF s = {} THEN base ELSE Applied(f[s \ {Highest(s)}], seq[Highest(s)])
  BY <1>3 DEF States
<1> DEFINE Good == {k \in Nat : k <= n /\ f[1..k].db # NULL => WellFormed(f[1..k].db) /\ AddsRows(db, f[1..k].db, RowsTo(seq, k))}
<1>6. 0 \in Good
  <2>1. 1..0 = {} /\ {} \in SUBSET (1..n)
    OBVIOUS
  <2>2. f[1..0] = base
    BY <1>5, <2>1
  <2> QED BY <1>4, <2>2, AddsNothing
<1>7. ASSUME NEW k \in Nat, k \in Good PROVE k + 1 \in Good
  <2> SUFFICES ASSUME k + 1 <= n, f[1..(k + 1)].db # NULL
               PROVE  WellFormed(f[1..(k + 1)].db) /\ AddsRows(db, f[1..(k + 1)].db, RowsTo(seq, k + 1))
    <3>1. k + 1 \in Nat
      OBVIOUS
    <3> QED BY <3>1
  <2>1. k + 1 \in 1..n /\ (k + 1) - 1 = k /\ k <= n
    BY <1>1
  <2> DEFINE before == f[1..k]
             after == f[1..(k + 1)]
             row == seq[k + 1]
  <2>2. after = Applied(before, row)
    <3>1. 1..(k + 1) \in SUBSET (1..n) /\ 1..(k + 1) # {} /\ Highest(1..(k + 1)) = k + 1
          /\ (1..(k + 1)) \ {k + 1} = 1..k
      BY <1>1, <2>1, UpToPlace
    <3> HIDE DEF Good
    <3> QED BY <1>5, <3>1
  <2>3. before.db # NULL => WellFormed(before.db) /\ AddsRows(db, before.db, RowsTo(seq, k))
    BY <1>7, <2>1
  <2>4. Typed(row) /\ after.db # NULL
    BY <1>1, <2>1
  <2>5. RowsTo(seq, k + 1) = RowsTo(seq, k) \cup {row}
    <3>1. 1..(k + 1) = (1..k) \cup {k + 1}
      OBVIOUS
    <3> QED BY <3>1 DEF RowsTo
  <2> HIDE DEF Good, before, after, row
  <2>6. before.db # NULL /\ after.db = Replica!ApplyNavRow(before.db, row).db
    BY <2>2, <2>4 DEF Applied, Replica!Counted
  <2>7. WellFormed(after.db) /\ AddsRows(before.db, after.db, {row})
    BY <2>3, <2>4, <2>6, RowAdds
  <2>8. AddsRows(db, after.db, RowsTo(seq, k) \cup {row})
    BY <2>3, <2>4, <2>6, <2>7, AddsOn
  <2> QED BY <2>5, <2>7, <2>8 DEF after
<1>8. n \in Good
  <2> HIDE DEF Good
  <2> QED BY <1>1, <1>6, <1>7, AllOfNat
<1>9. WellFormed(f[1..n].db) /\ AddsRows(db, f[1..n].db, RowsTo(seq, n))
  <2>1. n <= n
    BY <1>1
  <2> QED BY <1>3, <1>8, <2>1
<1>10. RowsTo(seq, n) \subseteq S
  BY <1>1 DEF RowsTo
<1>11. AddsRows(db, f[1..n].db, S)
  BY <1>9, <1>10, AddsMore
<1> QED BY <1>9, <1>11 DEF n

\* The fold of a batch, with its steps.
Fold(db, seq) == (CHOOSE f : States(f, Len(seq), [db |-> db, applied |-> 0], seq))[1..Len(seq)]

LEMMA FoldIs ==
  ASSUME NEW db, NEW seq, NEW n \in Nat, Len(seq) = n, DOMAIN seq = 1..n
  PROVE  Replica!ApplyNavRows(db, seq, FALSE) = Fold(db, seq)
BY DEF Replica!ApplyNavRows, Replica!FoldLeft, Replica!MapThenFoldSet, Replica!Max, Fold, States, Highest, Applied

LEMMA RowsAdd ==
  ASSUME Marks, NEW db, WellFormed(db), NEW S, NEW seq \in Seq(S), \A row \in S : Typed(row), Fold(db, seq).db # NULL
  PROVE  WellFormed(Fold(db, seq).db) /\ AddsRows(db, Fold(db, seq).db, S)
<1> DEFINE base == [db |-> db, applied |-> 0]
           f == CHOOSE f : States(f, Len(seq), base, seq)
<1>1. base.db = db /\ Len(seq) \in Nat
  OBVIOUS
<1>2. Fold(db, seq) = f[1..Len(seq)]
  BY DEF Fold
<1> HIDE DEF base
<1>3. States(f, Len(seq), base, seq)
  BY <1>1, StatesExist
<1> HIDE DEF f
<1> QED BY <1>1, <1>2, <1>3, StatesAdd

\* The rows of some types, as the fold that picks them finds them.
Picks(f, seq, T) ==
  f = [s \in SUBSET DOMAIN seq |->
         IF s = {} THEN <<>>
         ELSE IF seq[Highest(s)].t \in T THEN Append(f[s \ {Highest(s)}], seq[Highest(s)])
         ELSE f[s \ {Highest(s)}]]

LEMMA PicksExist ==
  ASSUME NEW S, NEW seq \in Seq(S), NEW T
  PROVE  \E f : Picks(f, seq, T)
<1> DEFINE n == Len(seq)
           B == Seq(S)
           step == [k \in 1..n |-> [b \in B |-> IF seq[k].t \in T THEN Append(b, seq[k]) ELSE b]]
<1>1. n \in Nat /\ DOMAIN seq = 1..n /\ <<>> \in B
  OBVIOUS
<1>2. step \in [1..n -> [B -> B]]
  <2>1. \A k \in 1..n, b \in B : (IF seq[k].t \in T THEN Append(b, seq[k]) ELSE b) \in B
    OBVIOUS
  <2> HIDE DEF B, n
  <2> QED BY <2>1
<1> HIDE DEF n, B
<1>3. \A k \in 1..n, b \in B : step[k][b] = IF seq[k].t \in T THEN Append(b, seq[k]) ELSE b
  OBVIOUS
<1> HIDE DEF step
<1>4. PICK f \in [SUBSET (1..n) -> B] : Folded(f, n, <<>>, step)
  BY <1>1, <1>2, FoldExists
<1> DEFINE Next1(s) == IF seq[Highest(s)].t \in T THEN Append(f[s \ {Highest(s)}], seq[Highest(s)])
                       ELSE f[s \ {Highest(s)}]
<1>5. ASSUME NEW s \in SUBSET (1..n), s # {}
      PROVE  step[Highest(s)][f[s \ {Highest(s)}]] = Next1(s)
  <2>1. Highest(s) \in 1..n
    BY <1>1, <1>5, HighestIs
  <2>2. f[s \ {Highest(s)}] \in B
    BY <1>4
  <2> QED BY <1>3, <2>1, <2>2
<1> HIDE DEF Next1
<1>6. f = [s \in SUBSET (1..n) |-> IF s = {} THEN <<>> ELSE Next1(s)]
  BY <1>4, <1>5 DEF Folded
<1>7. Picks(f, seq, T)
  BY <1>1, <1>6 DEF Picks, Next1
<1> QED BY <1>7

LEMMA OfTypesIs ==
  ASSUME NEW seq, NEW T
  PROVE  Replica!OfTypes(seq, T) = (CHOOSE f : Picks(f, seq, T))[DOMAIN seq]
BY DEF Replica!OfTypes, Replica!FoldLeft, Replica!MapThenFoldSet, Replica!Max, Picks, Highest

\* What is picked are rows of the list.
LEMMA PicksOf ==
  ASSUME NEW S, NEW seq \in Seq(S), NEW T
  PROVE  Replica!OfTypes(seq, T) \in Seq(S)
<1> DEFINE n == Len(seq)
           f == CHOOSE f : Picks(f, seq, T)
<1>1. n \in Nat /\ DOMAIN seq = 1..n /\ \A k \in 1..n : seq[k] \in S
  OBVIOUS
<1>2. Replica!OfTypes(seq, T) = f[DOMAIN seq]
  BY OfTypesIs
<1>3. Picks(f, seq, T)
  BY PicksExist
<1> HIDE DEF n, f
<1>4. \A s \in SUBSET (1..n) : f[s] = IF s = {} THEN <<>>
         ELSE IF seq[Highest(s)].t \in T THEN Append(f[s \ {Highest(s)}], seq[Highest(s)])
         ELSE f[s \ {Highest(s)}]
  BY <1>1, <1>3 DEF Picks
<1> DEFINE Good == {k \in Nat : k <= n => f[1..k] \in Seq(S)}
<1>5. 0 \in Good
  <2>1. 1..0 = {} /\ {} \in SUBSET (1..n)
    OBVIOUS
  <2>2. f[1..0] = <<>>
    BY <1>4, <2>1
  <2>3. f[1..0] \in Seq(S)
    BY <2>2
  <2> QED BY <2>3
<1>6. ASSUME NEW k \in Nat, k \in Good PROVE k + 1 \in Good
  <2> SUFFICES ASSUME k + 1 <= n PROVE f[1..(k + 1)] \in Seq(S)
    <3>1. k + 1 \in Nat
      OBVIOUS
    <3> QED BY <3>1
  <2>1. k + 1 \in 1..n /\ k <= n
    BY <1>1
  <2>2. f[1..k] \in Seq(S)
    BY <1>6, <2>1
  <2>3. f[1..(k + 1)] = IF seq[k + 1].t \in T THEN Append(f[1..k], seq[k + 1]) ELSE f[1..k]
    <3>1. 1..(k + 1) \in SUBSET (1..n) /\ 1..(k + 1) # {} /\ Highest(1..(k + 1)) = k + 1
          /\ (1..(k + 1)) \ {k + 1} = 1..k
      <4>1. (k + 1) - 1 = k
        OBVIOUS
      <4> QED BY <1>1, <2>1, <4>1, UpToPlace
    <3> HIDE DEF Good
    <3> QED BY <1>4, <3>1
  <2>4. seq[k + 1] \in S
    BY <1>1, <2>1
  <2> QED BY <2>2, <2>3, <2>4
<1>7. n \in Good
  <2> HIDE DEF Good
  <2> QED BY <1>1, <1>5, <1>6, AllOfNat
<1> QED BY <1>1, <1>2, <1>7

\* What a message of the sidecar brings only adds: a batch that is refused
\* leaves the replica, and one that is taken loses no value that was known,
\* makes no absence younger and moves a coordinate only for a row of the same
\* airport that is as good a source or is not labelled with one, for any
\* replica and any rows (applyIncrementalBatch, mergeValues).
THEOREM BatchesAdd ==
  ASSUME Marks, NEW replica, replica # NULL => {"rev", "db"} \subseteq DOMAIN replica /\ WellFormed(replica.db),
         NEW batch, NEW Rows, batch.rows \in Seq(Rows), \A i \in DOMAIN batch.rows : Typed(batch.rows[i])
  PROVE  LET once == Replica!ApplyIncrementalBatch(replica, batch)
         IN  IF once.code # "ok" THEN once.replica = replica
             ELSE WellFormed(once.replica.db) /\ Replica!Adds(replica.db, once.replica.db, batch.rows)
<1> DEFINE rows == batch.rows
           S == {rows[i] : i \in DOMAIN rows}
           ordered == Replica!Ordered(rows)
           out == Replica!ApplyNavRows(replica.db, rows, TRUE)
           once == Replica!ApplyIncrementalBatch(replica, batch)
<1>1. rows \in Seq(S) /\ \A row \in S : Typed(row)
  <2>1. rows = [i \in 1..Len(rows) |-> rows[i]] /\ Len(rows) \in Nat /\ DOMAIN rows = 1..Len(rows)
    OBVIOUS
  <2>2. \A i \in 1..Len(rows) : rows[i] \in S
    BY <2>1
  <2> QED BY <2>1, <2>2
<1> HIDE DEF S
<1>2. ordered \in Seq(S)
  <2>1. \A T : Replica!OfTypes(rows, T) \in Seq(S)
    BY <1>1, PicksOf
  <2>2. \A a, b \in Seq(S) : a \o b \in Seq(S)
    OBVIOUS
  <2> HIDE DEF ordered, rows
  <2> QED BY <2>1, <2>2 DEF ordered, Replica!Ordered
<1>3. out = Fold(replica.db, ordered)
  <2>1. Len(ordered) \in Nat /\ DOMAIN ordered = 1..Len(ordered)
    BY <1>2
  <2>2. out = Replica!ApplyNavRows(replica.db, ordered, FALSE)
    BY DEF Replica!ApplyNavRows
  <2> HIDE DEF ordered, out
  <2> QED BY <2>1, <2>2, FoldIs
<1> HIDE DEF ordered
<1>4. once.code # "ok" => once.replica = replica
  <2> HIDE DEF out
  <2> QED BY DEF Replica!ApplyIncrementalBatch, Replica!Taken, Replica!Refusal, out
<1>5. once.code = "ok" =>
        replica # NULL /\ out.db # NULL /\ once.replica = [replica EXCEPT !.rev = batch.toRev, !.db = out.db]
  <2> HIDE DEF out
  <2> QED BY DEF Replica!ApplyIncrementalBatch, Replica!Taken, Replica!Refusal, out
<1> HIDE DEF out, once
<1>6. ASSUME once.code = "ok"
      PROVE  WellFormed(once.replica.db) /\ Replica!Adds(replica.db, once.replica.db, rows)
  <2>1. replica # NULL /\ out.db # NULL /\ once.replica = [replica EXCEPT !.rev = batch.toRev, !.db = out.db]
    BY <1>5, <1>6
  <2>2. WellFormed(replica.db) /\ "db" \in DOMAIN replica
    BY <2>1
  <2>3. once.replica.db = out.db
    BY <2>1, <2>2
  <2>4. WellFormed(out.db) /\ AddsRows(replica.db, out.db, S)
    BY <1>1, <1>2, <1>3, <2>1, <2>2, RowsAdd
  <2> HIDE DEF rows
  <2>5. Replica!Adds(replica.db, out.db, rows)
    <3> SUFFICES ASSUME NEW k \in DOMAIN replica.db
                 PROVE  /\ k \in DOMAIN out.db
                        /\ KeepsRow(k[1], replica.db[k], out.db[k])
                        /\ k[1] = "airport" =>
                             \A c \in {"lat", "lon"} :
                               out.db[k][c] # replica.db[k][c] /\ replica.db[k][c] # NULL /\ replica.db[k]["source"] # NULL =>
                                 \E i \in DOMAIN rows : Replica!Key(rows[i]) = k /\ Moves(replica.db[k], out.db[k], rows[i], c)
      BY DEF KeepsRow, Replica!Adds, Moves
    <3> QED BY <2>4 DEF AddsRows, MovedBy, S
  <2> QED BY <2>3, <2>4, <2>5
<1> QED BY <1>4, <1>6 DEF once

=============================================================================
