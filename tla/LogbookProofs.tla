--------------------------- MODULE LogbookProofs ---------------------------
(***************************************************************************)
(* Proofs about Logbook for any number of flights, legs and trips: what    *)
(* each statement of LogbookRows does to coherent, well-typed tables, the  *)
(* inductive invariant made of those lemmas, and the refinement of         *)
(* TripMembership.                                                         *)
(*                                                                         *)
(* LogbookInv - typed tables, coherent with each other, at most one active *)
(* trip - is inductive: every operation is made of the statements of       *)
(* LogbookRows.  The invariants, the action property and the refinement    *)
(* follow from it.                                                         *)
(***************************************************************************)
EXTENDS Logbook, TLAPS

-----------------------------------------------------------------------------
(* The statements.  Each lemma is about one statement and holds wherever    *)
(* the statement is used, alone (Logbook) or inside a handler               *)
(* (FlightManager).                                                         *)

\* Rows are built from columns of the right type.
LEMMA RowTypes ==
  /\ \A r \in {"unused", "open", "ended", "deleted"} : EmptyFlight(r) \in FlightRow
  /\ \A r \in {"unused", "stored", "deleted"} : EmptyLeg(r) \in LegRow /\ EmptyTrip(r) \in TripRow
  /\ \A r \in FlightRow, t \in TripRef : WithoutLink(r, t) \in FlightRow
  /\ \A r \in FlightRow, l \in LegIds, t \in TripRef, s \in {"auto", "manual"} :
       WithLink(r, l, t, s) \in FlightRow
  /\ \A r \in LegRow : Reopened(r) \in LegRow
BY DEF EmptyFlight, EmptyLeg, EmptyTrip, WithLink, WithoutLink, Reopened,
       FlightRow, LegRow, TripRow, TripRef, LegRef, LinkSource, LegStatus

\* A link names a leg id, never NULL.
LEMMA LinkedLeg ==
  ASSUME NEW fl \in [FlightIds -> FlightRow], NEW f \in FlightIds, Linked(fl, f)
  PROVE  fl[f].leg \in LegIds
BY DEF Linked, FlightRow, LegRef

\* The statements of the database layer keep the tables well typed.
LEMMA StatementTypes ==
  ASSUME NEW fl \in [FlightIds -> FlightRow], NEW lg \in [LegIds -> LegRow],
         NEW f \in FlightIds
  PROVE  /\ FlightsAfterUnlink(fl, f) \in [FlightIds -> FlightRow]
         /\ LegsAfterUnlink(fl, lg, f) \in [LegIds -> LegRow]
         /\ FlightsAfterClear(fl, f) \in [FlightIds -> FlightRow]
         /\ FlightsAfterDelete(fl, f) \in [FlightIds -> FlightRow]
         /\ FlightsAfterRemove(fl, f) \in [FlightIds -> FlightRow]
<1>1. fl[f].prev \in TripRef /\ fl[f].trip \in TripRef /\ fl[f] \in FlightRow
  BY DEF FlightRow
<1>2. Linked(fl, f) => fl[f].leg \in LegIds
  BY LinkedLeg
<1>3. FlightsAfterUnlink(fl, f) \in [FlightIds -> FlightRow]
  BY <1>1, RowTypes DEF FlightsAfterUnlink
<1>4. LegsAfterUnlink(fl, lg, f) \in [LegIds -> LegRow]
  BY <1>2, RowTypes DEF LegsAfterUnlink
<1>5. FlightsAfterClear(fl, f) \in [FlightIds -> FlightRow]
  BY <1>1, RowTypes DEF FlightsAfterClear
<1>6. FlightsAfterDelete(fl, f) \in [FlightIds -> FlightRow]
  BY RowTypes DEF FlightsAfterDelete
<1>7. FlightsAfterRemove(fl, f) \in [FlightIds -> FlightRow]
  <2> DEFINE base == FlightsAfterClear(fl, f)
  <2>1. [base[f] EXCEPT !.trip = NULL] \in FlightRow
    BY <1>5 DEF FlightRow, TripRef
  <2>2. QED BY <1>5, <2>1 DEF FlightsAfterRemove
<1>8. QED BY <1>3, <1>4, <1>5, <1>6, <1>7

----------------------------------------------------------------------------
\* Letting go of a leg: the flight keeps no column of the link, whatever trip
\* it is left in, and the leg is reopened.
LEMMA ReleaseCoherent ==
  ASSUME NEW fl \in [FlightIds -> FlightRow], NEW lg \in [LegIds -> LegRow],
         NEW f \in FlightIds, NEW t \in TripRef,
         Coherent(fl, lg), Linked(fl, f)
  PROVE  Coherent([fl EXCEPT ![f] = WithoutLink(fl[f], t)],
                  [lg EXCEPT ![fl[f].leg] = Reopened(lg[fl[f].leg])])
<1> DEFINE k   == fl[f].leg
           fl2 == [fl EXCEPT ![f] = WithoutLink(fl[f], t)]
           lg2 == [lg EXCEPT ![k] = Reopened(lg[k])]
<1>1. k \in LegIds
  BY LinkedLeg
<1>2. /\ fl2[f].leg = NULL /\ fl2[f].source = NULL /\ fl2[f].prev = NULL
      /\ fl2[f].trip = t /\ fl2[f].row = fl[f].row
      /\ \A g \in FlightIds : g # f => fl2[g] = fl[g]
  BY DEF WithoutLink, FlightRow
<1>3. /\ lg2[k].row = lg[k].row /\ lg2[k].trip = lg[k].trip
      /\ lg2[k].status = "planned" /\ lg2[k].deviation = FALSE
      /\ \A l \in LegIds : l # k => lg2[l] = lg[l]
  BY <1>1 DEF Reopened, LegRow
<1>4. HeldOnce(fl) /\ SitsInLegTrip(fl, lg) /\ NoLeftover(fl) /\ ClosedByLanded(fl, lg)
  BY DEF Coherent
<1>5. \A g \in FlightIds : Linked(fl2, g) => g # f /\ Linked(fl, g) /\ fl2[g].leg # k
  BY <1>2, <1>4 DEF Linked, HeldOnce
<1> HIDE DEF fl2, lg2, k
<1>6. HeldOnce(fl2)
  BY <1>2, <1>4, <1>5 DEF HeldOnce, Linked
<1>7. SitsInLegTrip(fl2, lg2)
  <2> SUFFICES ASSUME NEW g \in FlightIds, Linked(fl2, g)
               PROVE  /\ FlightStored(fl2, g)
                      /\ lg2[fl2[g].leg].row = "stored"
                      /\ fl2[g].trip = lg2[fl2[g].leg].trip
    BY DEF SitsInLegTrip
  <2>1. fl2[g] = fl[g] /\ Linked(fl, g) /\ fl[g].leg # k
    BY <1>2, <1>5
  <2>2. fl[g].leg \in LegIds
    BY <2>1, LinkedLeg
  <2>3. QED BY <1>3, <1>4, <2>1, <2>2 DEF SitsInLegTrip, FlightStored
<1>8. NoLeftover(fl2)
  <2>1. FlightStored(fl, f)
    BY <1>4 DEF SitsInLegTrip
  <2>2. QED BY <1>2, <1>4, <2>1 DEF NoLeftover, Linked, FlightStored
<1>9. ClosedByLanded(fl2, lg2)
  <2> SUFFICES ASSUME NEW l \in LegIds
               PROVE  /\ lg2[l].status \in ClosedStatus =>
                           \E g \in FlightIds : fl2[g].leg = l /\ fl2[g].row = "ended"
                      /\ lg2[l].deviation => lg2[l].status \in ClosedStatus
    BY DEF ClosedByLanded
  <2>1. CASE l = k
    BY <1>3, <2>1 DEF ClosedStatus
  <2>2. CASE l # k
    BY <1>2, <1>3, <1>4, <2>2 DEF ClosedByLanded, k
  <2>3. QED BY <2>1, <2>2
<1>10. QED BY <1>6, <1>7, <1>8, <1>9 DEF Coherent, fl2, lg2, k

\* unlinkFlightFromPlannedLeg() and clearPlannedLegLink().
LEMMA UnlinkCoherent ==
  ASSUME NEW fl \in [FlightIds -> FlightRow], NEW lg \in [LegIds -> LegRow],
         NEW f \in FlightIds, Coherent(fl, lg)
  PROVE  /\ Coherent(FlightsAfterUnlink(fl, f), LegsAfterUnlink(fl, lg, f))
         /\ Coherent(FlightsAfterClear(fl, f), LegsAfterUnlink(fl, lg, f))
         /\ ~Linked(FlightsAfterUnlink(fl, f), f)
         /\ ~Linked(FlightsAfterClear(fl, f), f)
<1>1. fl[f].prev \in TripRef /\ fl[f].trip \in TripRef
  BY DEF FlightRow
<1>2. CASE ~Linked(fl, f)
  BY <1>2 DEF FlightsAfterUnlink, FlightsAfterClear, LegsAfterUnlink
<1>3. CASE Linked(fl, f)
  <2>1. \A t \in TripRef : ~Linked([fl EXCEPT ![f] = WithoutLink(fl[f], t)], f)
    BY DEF Linked, WithoutLink, FlightRow
  <2>2. QED BY <1>1, <1>3, <2>1, ReleaseCoherent
            DEF FlightsAfterUnlink, FlightsAfterClear, LegsAfterUnlink
<1>4. QED BY <1>2, <1>3

\* A flight that holds no leg can be put in any trip.
LEMMA SetTripCoherent ==
  ASSUME NEW fl \in [FlightIds -> FlightRow], NEW lg \in [LegIds -> LegRow],
         NEW f \in FlightIds, NEW t \in TripRef,
         Coherent(fl, lg), ~Linked(fl, f), FlightStored(fl, f)
  PROVE  Coherent([fl EXCEPT ![f] = [fl[f] EXCEPT !.trip = t]], lg)
<1> DEFINE fl2 == [fl EXCEPT ![f] = [fl[f] EXCEPT !.trip = t]]
<1>1. /\ fl2[f].leg = fl[f].leg /\ fl2[f].source = fl[f].source
      /\ fl2[f].prev = fl[f].prev /\ fl2[f].row = fl[f].row
      /\ \A g \in FlightIds : g # f => fl2[g] = fl[g]
  BY DEF FlightRow
<1> HIDE DEF fl2
<1>2. HeldOnce(fl2)
  BY <1>1 DEF Coherent, HeldOnce, Linked
<1>3. SitsInLegTrip(fl2, lg)
  BY <1>1 DEF Coherent, SitsInLegTrip, Linked, FlightStored
<1>4. NoLeftover(fl2)
  BY <1>1 DEF Coherent, NoLeftover, Linked, FlightStored
<1>5. ClosedByLanded(fl2, lg)
  BY <1>1 DEF Coherent, ClosedByLanded
<1>6. QED BY <1>2, <1>3, <1>4, <1>5 DEF Coherent, fl2

\* Taking a leg nobody holds, by a flight that holds none.
LEMMA AttachCoherent ==
  ASSUME NEW fl \in [FlightIds -> FlightRow], NEW lg \in [LegIds -> LegRow],
         NEW f \in FlightIds, NEW l \in LegIds, NEW s \in {"auto", "manual"},
         Coherent(fl, lg), ~Linked(fl, f), FlightStored(fl, f),
         lg[l].row = "stored", Holders(fl, l) = {}
  PROVE  Coherent([fl EXCEPT ![f] = WithLink(fl[f], l, lg[l].trip, s)], lg)
<1> DEFINE fl2 == [fl EXCEPT ![f] = WithLink(fl[f], l, lg[l].trip, s)]
<1>1. /\ fl2[f].leg = l /\ fl2[f].trip = lg[l].trip /\ fl2[f].row = fl[f].row
      /\ \A g \in FlightIds : g # f => fl2[g] = fl[g]
  BY DEF WithLink, FlightRow
<1>2. \A g \in FlightIds : fl[g].leg # l
  BY DEF Holders
<1>3. l # NULL
  BY NullIsNoValue
<1> HIDE DEF fl2
<1>4. HeldOnce(fl2)
  BY <1>1, <1>2 DEF Coherent, HeldOnce, Linked
<1>5. SitsInLegTrip(fl2, lg)
  BY <1>1 DEF Coherent, SitsInLegTrip, Linked, FlightStored
<1>6. NoLeftover(fl2)
  BY <1>1, <1>3 DEF Coherent, NoLeftover, Linked, FlightStored
<1>7. ClosedByLanded(fl2, lg)
  <2>1. lg[l].status \notin ClosedStatus
    BY <1>2 DEF Coherent, ClosedByLanded
  <2> SUFFICES ASSUME NEW k \in LegIds, lg[k].status \in ClosedStatus
               PROVE  \E g \in FlightIds : fl2[g].leg = k /\ fl2[g].row = "ended"
    BY DEF Coherent, ClosedByLanded
  <2>2. PICK g \in FlightIds : fl[g].leg = k /\ fl[g].row = "ended"
    BY DEF Coherent, ClosedByLanded
  <2>3. g # f
    BY <2>2, NullIsNoValue DEF Linked
  <2>4. QED BY <1>1, <2>2, <2>3
<1>8. QED BY <1>4, <1>5, <1>6, <1>7 DEF Coherent, fl2

\* linkFlightToPlannedLeg(), a re-target included.
LEMMA LinkCoherent ==
  ASSUME NEW fl \in [FlightIds -> FlightRow], NEW lg \in [LegIds -> LegRow],
         NEW f \in FlightIds, NEW l \in LegIds, NEW s \in {"auto", "manual"},
         Coherent(fl, lg), MayLink(fl, lg, f, l)
  PROVE  Coherent(FlightsAfterLink(fl, lg, f, l, s), LegsAfterLink(fl, lg, f))
<1> DEFINE base  == FlightsAfterUnlink(fl, f)
           legs2 == LegsAfterUnlink(fl, lg, f)
<1>1. base \in [FlightIds -> FlightRow] /\ legs2 \in [LegIds -> LegRow]
  BY StatementTypes
<1>2. Coherent(base, legs2) /\ ~Linked(base, f)
  BY UnlinkCoherent
<1>3. legs2[l].row = "stored" /\ legs2[l].trip = lg[l].trip
  BY DEF MayLink, LegsAfterUnlink, Reopened, LegRow
<1>4. FlightStored(base, f)
  BY DEF MayLink, FlightsAfterUnlink, WithoutLink, FlightStored, FlightRow
<1>5. Holders(base, l) = {}
  BY NullIsNoValue DEF MayLink, Holders, FlightsAfterUnlink, WithoutLink, FlightRow
<1> HIDE DEF base, legs2
<1>6. Coherent([base EXCEPT ![f] = WithLink(base[f], l, legs2[l].trip, s)], legs2)
  BY <1>1, <1>2, <1>3, <1>4, <1>5, AttachCoherent
<1>7. QED BY <1>3, <1>6 DEF FlightsAfterLink, LegsAfterLink, base, legs2

\* assignFlightToTrip().
LEMMA AssignCoherent ==
  ASSUME NEW fl \in [FlightIds -> FlightRow], NEW lg \in [LegIds -> LegRow],
         NEW f \in FlightIds, NEW t \in TripIds, Coherent(fl, lg), FlightStored(fl, f)
  PROVE  Coherent(FlightsAfterAssign(fl, lg, f, t), LegsAfterAssign(fl, lg, f, t))
<1> DEFINE contradicted == Linked(fl, f) /\ lg[fl[f].leg].trip # t
<1>1. CASE contradicted
  <2> DEFINE base == FlightsAfterClear(fl, f)
  <2>1. FlightStored(base, f)
    BY DEF FlightsAfterClear, WithoutLink, FlightStored, FlightRow
  <2>2. base \in [FlightIds -> FlightRow] /\ LegsAfterUnlink(fl, lg, f) \in [LegIds -> LegRow]
    BY StatementTypes
  <2>3. Coherent(base, LegsAfterUnlink(fl, lg, f)) /\ ~Linked(base, f)
    BY UnlinkCoherent
  <2> HIDE DEF base
  <2>4. Coherent([base EXCEPT ![f] = [base[f] EXCEPT !.trip = t]], LegsAfterUnlink(fl, lg, f))
    BY <2>1, <2>2, <2>3, SetTripCoherent DEF TripRef
  <2>5. QED BY <1>1, <2>4 DEF FlightsAfterAssign, LegsAfterAssign, base
<1>2. CASE ~contradicted /\ Linked(fl, f)
  <2>1. fl[f].trip = t /\ fl[f] \in FlightRow
    BY <1>2 DEF Coherent, SitsInLegTrip
  <2>2. [fl EXCEPT ![f] = [fl[f] EXCEPT !.trip = t]] = fl
    BY <2>1 DEF FlightRow
  <2>3. QED BY <1>2, <2>2 DEF FlightsAfterAssign, LegsAfterAssign
<1>3. CASE ~Linked(fl, f)
  BY <1>3, SetTripCoherent DEF FlightsAfterAssign, LegsAfterAssign, TripRef
<1>4. QED BY <1>1, <1>2, <1>3

\* removeFlightFromTrip().
LEMMA RemoveCoherent ==
  ASSUME NEW fl \in [FlightIds -> FlightRow], NEW lg \in [LegIds -> LegRow],
         NEW f \in FlightIds, Coherent(fl, lg), FlightStored(fl, f)
  PROVE  Coherent(FlightsAfterRemove(fl, f), LegsAfterUnlink(fl, lg, f))
<1> DEFINE base == FlightsAfterClear(fl, f)
<1>1. FlightStored(base, f)
  BY DEF FlightsAfterClear, WithoutLink, FlightStored, FlightRow
<1>2. base \in [FlightIds -> FlightRow] /\ LegsAfterUnlink(fl, lg, f) \in [LegIds -> LegRow]
  BY StatementTypes
<1>3. Coherent(base, LegsAfterUnlink(fl, lg, f)) /\ ~Linked(base, f)
  BY UnlinkCoherent
<1> HIDE DEF base
<1>4. QED BY <1>1, <1>2, <1>3, SetTripCoherent DEF FlightsAfterRemove, base, TripRef

\* insertFlight(), and the row of a flight that holds no leg going away.
LEMMA BlankCoherent ==
  ASSUME NEW fl \in [FlightIds -> FlightRow], NEW lg \in [LegIds -> LegRow],
         NEW f \in FlightIds, NEW r \in {"unused", "open", "ended", "deleted"},
         Coherent(fl, lg), ~Linked(fl, f)
  PROVE  Coherent([fl EXCEPT ![f] = EmptyFlight(r)], lg)
<1> DEFINE fl2 == [fl EXCEPT ![f] = EmptyFlight(r)]
<1>1. /\ fl2[f].leg = NULL /\ fl2[f].source = NULL /\ fl2[f].prev = NULL /\ fl2[f].trip = NULL
      /\ \A g \in FlightIds : g # f => fl2[g] = fl[g]
  BY DEF EmptyFlight
<1> HIDE DEF fl2
<1>2. HeldOnce(fl2)
  BY <1>1 DEF Coherent, HeldOnce, Linked
<1>3. SitsInLegTrip(fl2, lg)
  BY <1>1 DEF Coherent, SitsInLegTrip, Linked, FlightStored
<1>4. NoLeftover(fl2)
  BY <1>1 DEF Coherent, NoLeftover, Linked, FlightStored
<1>5. ClosedByLanded(fl2, lg)
  <2> SUFFICES ASSUME NEW k \in LegIds, lg[k].status \in ClosedStatus
               PROVE  \E g \in FlightIds : fl2[g].leg = k /\ fl2[g].row = "ended"
    BY DEF Coherent, ClosedByLanded
  <2>1. PICK g \in FlightIds : fl[g].leg = k /\ fl[g].row = "ended"
    BY DEF Coherent, ClosedByLanded
  <2>2. g # f
    BY <2>1, NullIsNoValue DEF Linked
  <2>3. QED BY <1>1, <2>1, <2>2
<1>6. QED BY <1>2, <1>3, <1>4, <1>5 DEF Coherent, fl2

\* deleteFlight() and the sources of combineFlights().
LEMMA DeleteCoherent ==
  ASSUME NEW fl \in [FlightIds -> FlightRow], NEW lg \in [LegIds -> LegRow],
         NEW f \in FlightIds, Coherent(fl, lg)
  PROVE  Coherent(FlightsAfterDelete(fl, f), LegsAfterUnlink(fl, lg, f))
<1> DEFINE base == FlightsAfterClear(fl, f)
<1>1. base \in [FlightIds -> FlightRow] /\ LegsAfterUnlink(fl, lg, f) \in [LegIds -> LegRow]
  BY StatementTypes
<1>2. Coherent(base, LegsAfterUnlink(fl, lg, f)) /\ ~Linked(base, f)
  BY UnlinkCoherent
<1>3. [base EXCEPT ![f] = EmptyFlight("deleted")] = FlightsAfterDelete(fl, f)
  BY <1>1 DEF FlightsAfterClear, FlightsAfterDelete
<1> HIDE DEF base
<1>4. QED BY <1>1, <1>2, <1>3, BlankCoherent

\* closeFlight() on its own.
LEMMA EndedCoherent ==
  ASSUME NEW fl \in [FlightIds -> FlightRow], NEW lg \in [LegIds -> LegRow],
         NEW f \in FlightIds, Coherent(fl, lg), fl[f].row = "open"
  PROVE  Coherent([fl EXCEPT ![f] = [fl[f] EXCEPT !.row = "ended"]], lg)
<1> DEFINE fl2 == [fl EXCEPT ![f] = [fl[f] EXCEPT !.row = "ended"]]
<1>1. /\ fl2[f].leg = fl[f].leg /\ fl2[f].source = fl[f].source
      /\ fl2[f].prev = fl[f].prev /\ fl2[f].trip = fl[f].trip /\ fl2[f].row = "ended"
      /\ \A g \in FlightIds : g # f => fl2[g] = fl[g]
  BY DEF FlightRow
<1> HIDE DEF fl2
<1>2. HeldOnce(fl2)
  BY <1>1 DEF Coherent, HeldOnce, Linked
<1>3. SitsInLegTrip(fl2, lg)
  BY <1>1 DEF Coherent, SitsInLegTrip, Linked, FlightStored
<1>4. NoLeftover(fl2)
  BY <1>1 DEF Coherent, NoLeftover, Linked, FlightStored
<1>5. ClosedByLanded(fl2, lg)
  BY <1>1 DEF Coherent, ClosedByLanded
<1>6. QED BY <1>2, <1>3, <1>4, <1>5 DEF Coherent, fl2

\* A status written to the leg of a flight that has ended, by the landing
\* (recordPlannedLegArrival()) or by hand (setPlannedLegHandOutcome()).
LEMMA StatusCoherent ==
  ASSUME NEW fl \in [FlightIds -> FlightRow], NEW lg \in [LegIds -> LegRow],
         NEW f \in FlightIds, NEW st \in LegStatus, NEW dev \in BOOLEAN,
         Coherent(fl, lg), Linked(fl, f), fl[f].row = "ended",
         dev => st \in ClosedStatus
  PROVE  Coherent(fl, [lg EXCEPT ![fl[f].leg] =
                         [lg[fl[f].leg] EXCEPT !.status = st, !.deviation = dev]])
<1> DEFINE k   == fl[f].leg
           lg2 == [lg EXCEPT ![k] = [lg[k] EXCEPT !.status = st, !.deviation = dev]]
<1>1. k \in LegIds
  BY LinkedLeg
<1>2. /\ lg2[k].row = lg[k].row /\ lg2[k].trip = lg[k].trip
      /\ lg2[k].status = st /\ lg2[k].deviation = dev
      /\ \A l \in LegIds : l # k => lg2[l] = lg[l]
  BY <1>1 DEF LegRow
<1> HIDE DEF lg2
<1>3. SitsInLegTrip(fl, lg2)
  <2>1. \A g \in FlightIds : Linked(fl, g) => fl[g].leg \in LegIds
    BY LinkedLeg
  <2>2. QED BY <1>2, <2>1 DEF Coherent, SitsInLegTrip
<1>4. ClosedByLanded(fl, lg2)
  BY <1>2 DEF Coherent, ClosedByLanded
<1>5. QED BY <1>3, <1>4 DEF Coherent, lg2

\* endFlight(): closeFlight() and recordPlannedLegArrival() together.
LEMMA ArrivalCoherent ==
  ASSUME NEW fl \in [FlightIds -> FlightRow], NEW lg \in [LegIds -> LegRow],
         NEW f \in FlightIds, NEW outcome \in ClosedStatus,
         Coherent(fl, lg), fl[f].row = "open"
  PROVE  Coherent([fl EXCEPT ![f] = [fl[f] EXCEPT !.row = "ended"]],
                  LegsAfterArrival(fl, lg, f, outcome))
<1> DEFINE fl2 == [fl EXCEPT ![f] = [fl[f] EXCEPT !.row = "ended"]]
<1>1. Coherent(fl2, lg)
  BY EndedCoherent
<1>2. fl2[f].leg = fl[f].leg /\ fl2[f].row = "ended" /\ fl2 \in [FlightIds -> FlightRow]
  BY DEF FlightRow
<1> HIDE DEF fl2
<1>3. CASE Linked(fl, f)
  <2>1. Linked(fl2, f) /\ outcome \in LegStatus
    BY <1>2, <1>3 DEF Linked, ClosedStatus, LegStatus
  <2>2. Coherent(fl2, [lg EXCEPT ![fl2[f].leg] =
                         [lg[fl2[f].leg] EXCEPT !.status = outcome, !.deviation = TRUE]])
    BY <1>1, <1>2, <2>1, StatusCoherent
  <2>3. QED BY <1>2, <1>3, <2>2 DEF LegsAfterArrival, fl2
<1>4. QED BY <1>1, <1>3 DEF LegsAfterArrival, fl2

----------------------------------------------------------------------------
\* deletePlannedLeg().
LEMMA LegDeleteCoherent ==
  ASSUME NEW fl \in [FlightIds -> FlightRow], NEW lg \in [LegIds -> LegRow],
         NEW l \in LegIds, Coherent(fl, lg)
  PROVE  Coherent(FlightsAfterLegDelete(fl, l), [lg EXCEPT ![l] = EmptyLeg("deleted")])
<1> DEFINE fl2 == FlightsAfterLegDelete(fl, l)
           lg2 == [lg EXCEPT ![l] = EmptyLeg("deleted")]
<1>0. l # NULL
  BY NullIsNoValue
<1>1. \A g \in FlightIds : fl[g].leg # l => fl2[g] = fl[g]
  BY DEF FlightsAfterLegDelete
<1>2. \A g \in FlightIds : fl[g].leg = l =>
        fl2[g].leg = NULL /\ fl2[g].source = NULL /\ fl2[g].prev = NULL /\ fl2[g].row = fl[g].row
  BY DEF FlightsAfterLegDelete, WithoutLink, FlightRow
<1>3. /\ lg2[l].status = "planned" /\ lg2[l].deviation = FALSE
      /\ \A k \in LegIds : k # l => lg2[k] = lg[k]
  BY DEF EmptyLeg
<1> HIDE DEF fl2, lg2
<1>4. \A g \in FlightIds : Linked(fl2, g) => fl2[g] = fl[g] /\ fl[g].leg # l
  BY <1>1, <1>2 DEF Linked
<1>5. HeldOnce(fl2)
  BY <1>0, <1>1, <1>2, <1>4 DEF Coherent, HeldOnce, Linked
<1>6. SitsInLegTrip(fl2, lg2)
  <2>1. \A g \in FlightIds : Linked(fl, g) => fl[g].leg \in LegIds
    BY LinkedLeg
  <2>2. QED BY <1>3, <1>4, <2>1 DEF Coherent, SitsInLegTrip, Linked, FlightStored
<1>7. NoLeftover(fl2)
  <2>1. \A g \in FlightIds : fl[g].leg = l => FlightStored(fl2, g)
    BY <1>0, <1>2 DEF Coherent, SitsInLegTrip, Linked, FlightStored
  <2>2. QED BY <1>1, <1>2, <2>1 DEF Coherent, NoLeftover, Linked, FlightStored
<1>8. ClosedByLanded(fl2, lg2)
  <2> SUFFICES ASSUME NEW k \in LegIds
               PROVE  /\ lg2[k].status \in ClosedStatus =>
                           \E g \in FlightIds : fl2[g].leg = k /\ fl2[g].row = "ended"
                      /\ lg2[k].deviation => lg2[k].status \in ClosedStatus
    BY DEF ClosedByLanded
  <2>1. CASE k = l
    BY <1>3, <2>1 DEF ClosedStatus
  <2>2. CASE k # l
    BY <1>1, <1>3, <2>2 DEF Coherent, ClosedByLanded
  <2>3. QED BY <2>1, <2>2
<1>9. QED BY <1>5, <1>6, <1>7, <1>8 DEF Coherent, fl2, lg2

\* deleteTrip(): the legs go by cascade and every flight one of them held is
\* restored first.
LEMMA TripDeleteCoherent ==
  ASSUME NEW fl \in [FlightIds -> FlightRow], NEW lg \in [LegIds -> LegRow],
         NEW t \in TripIds, Coherent(fl, lg)
  PROVE  Coherent(FlightsAfterTripDelete(fl, lg, t), LegsAfterTripDelete(lg, t))
<1> DEFINE fl2 == FlightsAfterTripDelete(fl, lg, t)
           lg2 == LegsAfterTripDelete(lg, t)
           hit(g) == Linked(fl, g) /\ lg[fl[g].leg].trip = t
<1>1. \A g \in FlightIds : ~hit(g) => fl2[g] = fl[g]
  BY DEF FlightsAfterTripDelete
<1>2. \A g \in FlightIds : hit(g) =>
        fl2[g].leg = NULL /\ fl2[g].source = NULL /\ fl2[g].prev = NULL /\ fl2[g].row = fl[g].row
  BY DEF FlightsAfterTripDelete, WithoutLink, FlightRow
<1>3. \A g \in FlightIds : Linked(fl, g) => fl[g].leg \in LegIds /\ lg[fl[g].leg].row = "stored"
  BY LinkedLeg DEF Coherent, SitsInLegTrip
<1>4. \A k \in LegIds :
        \/ lg2[k].status = "planned" /\ lg2[k].deviation = FALSE
        \/ lg2[k] = lg[k]
  BY DEF LegsAfterTripDelete, EmptyLeg
<1>5. \A k \in LegIds : lg[k].row = "stored" /\ lg[k].trip # t => lg2[k] = lg[k]
  BY DEF LegsAfterTripDelete
<1>5a. \A k \in LegIds : lg[k].row = "stored" /\ lg[k].trip = t =>
         lg2[k].status = "planned" /\ lg2[k].deviation = FALSE
  BY DEF LegsAfterTripDelete, EmptyLeg
<1>6. \A g \in FlightIds : Linked(fl2, g) => ~hit(g) /\ Linked(fl, g) /\ fl2[g] = fl[g]
  BY <1>1, <1>2 DEF Linked
<1> HIDE DEF fl2, lg2
<1>7. HeldOnce(fl2)
  BY <1>1, <1>2, <1>6 DEF Coherent, HeldOnce, Linked
<1>8. SitsInLegTrip(fl2, lg2)
  <2> SUFFICES ASSUME NEW g \in FlightIds, Linked(fl2, g)
               PROVE  /\ FlightStored(fl2, g)
                      /\ lg2[fl2[g].leg].row = "stored"
                      /\ fl2[g].trip = lg2[fl2[g].leg].trip
    BY DEF SitsInLegTrip
  <2>1. fl2[g] = fl[g] /\ lg2[fl[g].leg] = lg[fl[g].leg] /\ Linked(fl, g)
    BY <1>3, <1>5, <1>6
  <2>2. QED BY <2>1 DEF Coherent, SitsInLegTrip, FlightStored
<1>9. NoLeftover(fl2)
  <2>1. \A g \in FlightIds : hit(g) => FlightStored(fl2, g)
    BY <1>2 DEF Coherent, SitsInLegTrip, Linked, FlightStored
  <2> HIDE DEF hit
  <2>2. QED BY <1>1, <1>2, <2>1 DEF Coherent, NoLeftover, Linked, FlightStored
<1>10. ClosedByLanded(fl2, lg2)
  <2> SUFFICES ASSUME NEW k \in LegIds
               PROVE  /\ lg2[k].status \in ClosedStatus =>
                           \E g \in FlightIds : fl2[g].leg = k /\ fl2[g].row = "ended"
                      /\ lg2[k].deviation => lg2[k].status \in ClosedStatus
    BY DEF ClosedByLanded
  <2>1. lg2[k].deviation => lg2[k].status \in ClosedStatus
    BY <1>4 DEF Coherent, ClosedByLanded
  <2>2. ASSUME lg2[k].status \in ClosedStatus
        PROVE  \E g \in FlightIds : fl2[g].leg = k /\ fl2[g].row = "ended"
    <3>1. lg2[k] = lg[k]
      BY <1>4, <2>2 DEF ClosedStatus
    <3>2. PICK g \in FlightIds : fl[g].leg = k /\ fl[g].row = "ended"
      BY <2>2, <3>1 DEF Coherent, ClosedByLanded
    <3>3. Linked(fl, g)
      BY <3>2, NullIsNoValue DEF Linked
    <3>4. ~hit(g)
      BY <1>3, <1>5a, <2>2, <3>2, <3>3 DEF ClosedStatus
    <3>5. QED BY <1>1, <3>2, <3>4
  <2>3. QED BY <2>1, <2>2
<1>11. QED BY <1>7, <1>8, <1>9, <1>10 DEF Coherent, fl2, lg2

-----------------------------------------------------------------------------
(* The operations and the invariant. *)

\* Every operation keeps the shape of the rows.
LEMMA NextTypes == TypeOK /\ [Next]_vars => TypeOK'
<1> SUFFICES ASSUME TypeOK, [Next]_vars PROVE TypeOK'
  OBVIOUS
<1> USE DEF TypeOK
<1>1. ASSUME NEW f \in FlightIds, StartFlight(f) PROVE TypeOK'
  <2> DEFINE inserted == [flight EXCEPT ![f] = EmptyFlight("open")]
  <2>1. inserted \in [FlightIds -> FlightRow]
    BY RowTypes
  <2>2. ASSUME NEW l \in LegIds
        PROVE FlightsAfterLink(inserted, leg, f, l, "auto") \in [FlightIds -> FlightRow]
    <3>1. FlightsAfterUnlink(inserted, f) \in [FlightIds -> FlightRow]
      BY <2>1, StatementTypes
    <3>2. leg[l].trip \in TripRef
      BY DEF LegRow
    <3>3. QED BY <3>1, <3>2, RowTypes DEF FlightsAfterLink
  <2>3. QED BY <1>1, <2>1, <2>2 DEF StartFlight
<1>2. ASSUME NEW f \in FlightIds, NEW outcome \in ClosedStatus, EndFlight(f, outcome)
      PROVE TypeOK'
  <2>1. flight' \in [FlightIds -> FlightRow]
    BY <1>2 DEF EndFlight, FlightRow
  <2>2. Linked(flight, f) => flight[f].leg \in LegIds
    BY DEF Linked, FlightRow, LegRef
  <2>3. leg' \in [LegIds -> LegRow]
    BY <1>2, <2>2 DEF EndFlight, LegsAfterArrival, LegRow, LegStatus, ClosedStatus
  <2>4. QED BY <1>2, <2>1, <2>3 DEF EndFlight
<1>3. ASSUME NEW f \in FlightIds, EndFlightUnrecorded(f) PROVE TypeOK'
  BY <1>3 DEF EndFlightUnrecorded, FlightRow
<1>4. ASSUME NEW f \in FlightIds, NEW l \in LegIds, LinkByHand(f, l) PROVE TypeOK'
  <2>1. FlightsAfterUnlink(flight, f) \in [FlightIds -> FlightRow]
    BY StatementTypes
  <2>2. leg[l].trip \in TripRef
    BY DEF LegRow
  <2>3. flight' \in [FlightIds -> FlightRow]
    BY <1>4, <2>1, <2>2, RowTypes DEF LinkByHand, FlightsAfterLink
  <2>4. QED BY <1>4, <2>3, StatementTypes DEF LinkByHand, LegsAfterLink
<1>5. ASSUME NEW f \in FlightIds, UnlinkByHand(f) PROVE TypeOK'
  BY <1>5, StatementTypes DEF UnlinkByHand
<1>6. ASSUME NEW f \in FlightIds, NEW requested \in {"planned", "flown"},
             NEW measured \in BOOLEAN, HandClose(f, requested, measured)
      PROVE TypeOK'
  <2>1. flight[f].leg \in LegIds
    BY <1>6 DEF HandClose, HandCloseAllowed, Linked, FlightRow, LegRef
  <2>2. leg' \in [LegIds -> LegRow]
    <3> DEFINE l == flight[f].leg
               closed == [leg[l] EXCEPT !.status = requested, !.deviation = requested = "flown" /\ measured]
    <3>1. closed \in LegRow
      BY <2>1 DEF LegRow, LegStatus
    <3>2. leg' = [leg EXCEPT ![l] = closed]
      BY <1>6 DEF HandClose
    <3> HIDE DEF closed
    <3> QED BY <2>1, <3>1, <3>2
  <2>3. QED BY <1>6, <2>2 DEF HandClose
<1>7. ASSUME NEW f \in FlightIds, DeleteFlight(f) PROVE TypeOK'
  BY <1>7, StatementTypes DEF DeleteFlight
<1>7a. ASSUME NEW f \in FlightIds, DeleteFlightCut(f) PROVE TypeOK'
  BY <1>7a, StatementTypes DEF DeleteFlightCut
<1>8. ASSUME NEW a \in FlightIds, NEW b \in FlightIds, NEW n \in FlightIds,
             CombineFlights(a, b, n)
      PROVE TypeOK'
  <2>1. LegsAfterUnlink(flight, leg, a) \in [LegIds -> LegRow]
    BY StatementTypes
  <2>2. leg' \in [LegIds -> LegRow]
    BY <1>8, <2>1, StatementTypes DEF CombineFlights
  <2>3. FlightsAfterDelete(flight, a) \in [FlightIds -> FlightRow]
    BY StatementTypes
  <2>4. FlightsAfterDelete(FlightsAfterDelete(flight, a), b) \in [FlightIds -> FlightRow]
    BY <2>3, StatementTypes
  <2>5. flight' \in [FlightIds -> FlightRow]
    BY <1>8, <2>4, RowTypes DEF CombineFlights
  <2>6. QED BY <1>8, <2>2, <2>5 DEF CombineFlights
<1>9. ASSUME NEW f \in FlightIds, NEW t \in TripIds, AssignFlight(f, t) PROVE TypeOK'
  <2> DEFINE base == IF Linked(flight, f) /\ leg[flight[f].leg].trip # t
                     THEN FlightsAfterClear(flight, f) ELSE flight
  <2>1. base \in [FlightIds -> FlightRow]
    BY StatementTypes
  <2>2. [base[f] EXCEPT !.trip = t] \in FlightRow
    BY <2>1 DEF FlightRow, TripRef
  <2>3. flight' \in [FlightIds -> FlightRow]
    BY <1>9, <2>1, <2>2 DEF AssignFlight, FlightsAfterAssign
  <2>4. leg' \in [LegIds -> LegRow]
    BY <1>9, StatementTypes DEF AssignFlight, LegsAfterAssign
  <2>5. QED BY <1>9, <2>3, <2>4 DEF AssignFlight
<1>10. ASSUME NEW f \in FlightIds, RemoveFlight(f) PROVE TypeOK'
  BY <1>10, StatementTypes DEF RemoveFlight
<1>11. ASSUME NEW l \in LegIds, NEW t \in TripRef, CreateLeg(l, t) PROVE TypeOK'
  <2>1. [EmptyLeg("stored") EXCEPT !.trip = t] \in LegRow
    BY DEF EmptyLeg, LegRow, TripRef, LegStatus
  <2>2. QED BY <1>11, <2>1 DEF CreateLeg
<1>12. ASSUME NEW l \in LegIds, DeleteLeg(l) PROVE TypeOK'
  <2>1. flight' \in [FlightIds -> FlightRow]
    <3>1. \A f \in FlightIds : flight[f] \in FlightRow /\ flight[f].prev \in TripRef
      BY DEF FlightRow
    <3>2. QED BY <1>12, <3>1, RowTypes DEF DeleteLeg, FlightsAfterLegDelete
  <2>2. QED BY <1>12, <2>1, RowTypes DEF DeleteLeg
<1>13. ASSUME NEW l \in LegIds, NEW s \in {"planned", "skipped"}, SetStatus(l, s)
       PROVE TypeOK'
  BY <1>13 DEF SetStatus, LegRow, LegStatus
<1>14. ASSUME NEW t \in TripIds, CreateTrip(t) PROVE TypeOK'
  BY <1>14, RowTypes DEF CreateTrip
<1>15. ASSUME NEW t \in TripIds, DeleteTrip(t) PROVE TypeOK'
  <2>1. flight' \in [FlightIds -> FlightRow]
    <3>1. \A f \in FlightIds : flight[f] \in FlightRow /\ flight[f].prev \in TripRef
      BY DEF FlightRow
    <3>2. QED BY <1>15, <3>1, RowTypes DEF DeleteTrip, FlightsAfterTripDelete
  <2>2. leg' \in [LegIds -> LegRow]
    BY <1>15, RowTypes DEF DeleteTrip, LegsAfterTripDelete
  <2>3. QED BY <1>15, <2>1, <2>2, RowTypes DEF DeleteTrip
<1>16. ASSUME NEW t \in TripRef, SetActiveTrip(t) PROVE TypeOK'
  BY <1>16 DEF SetActiveTrip, TripRow
<1>17. CASE UNCHANGED vars
  BY <1>17 DEF vars
<1>18. QED
  BY <1>1, <1>2, <1>3, <1>4, <1>5, <1>6, <1>7, <1>7a, <1>8, <1>9, <1>10, <1>11, <1>12,
     <1>13, <1>14, <1>15, <1>16, <1>17 DEF Next
----------------------------------------------------------------------------
LogbookInv == TypeOK /\ Coherent(flight, leg) /\ OneActiveTrip

\* It holds of empty tables.
LEMMA InitInv == Init => LogbookInv
<1> SUFFICES ASSUME Init PROVE LogbookInv
  OBVIOUS
<1>1. TypeOK
  BY RowTypes DEF Init, TypeOK
<1>2. \A f \in FlightIds : /\ ~Linked(flight, f)
                           /\ flight[f].source = NULL /\ flight[f].prev = NULL
                           /\ flight[f].trip = NULL
  BY DEF Init, EmptyFlight, Linked
<1>3. \A l \in LegIds : leg[l].status = "planned" /\ leg[l].deviation = FALSE
  BY DEF Init, EmptyLeg
<1>4. Coherent(flight, leg)
  <2>1. HeldOnce(flight) /\ SitsInLegTrip(flight, leg)
    BY <1>2 DEF HeldOnce, SitsInLegTrip
  <2>2. NoLeftover(flight)
    BY <1>2 DEF NoLeftover
  <2>3. ClosedByLanded(flight, leg)
    BY <1>3 DEF ClosedByLanded, ClosedStatus
  <2>4. QED BY <2>1, <2>2, <2>3 DEF Coherent
<1>5. OneActiveTrip
  BY DEF Init, OneActiveTrip, EmptyTrip
<1>6. QED BY <1>1, <1>4, <1>5 DEF LogbookInv

\* Every operation leaves the two tables coherent.
LEMMA NextCoherent ==
  TypeOK /\ Coherent(flight, leg) /\ [Next]_vars => Coherent(flight', leg')
<1> SUFFICES ASSUME TypeOK, Coherent(flight, leg), [Next]_vars
             PROVE  Coherent(flight', leg')
  OBVIOUS
<1>0. flight \in [FlightIds -> FlightRow] /\ leg \in [LegIds -> LegRow]
  BY DEF TypeOK
<1>1. ASSUME NEW f \in FlightIds, StartFlight(f) PROVE Coherent(flight', leg')
  <2> DEFINE inserted == [flight EXCEPT ![f] = EmptyFlight("open")]
  <2>1. ~Linked(flight, f)
    BY <1>1 DEF StartFlight, Coherent, SitsInLegTrip, FlightStored
  <2>2. Coherent(inserted, leg) /\ inserted \in [FlightIds -> FlightRow]
    BY <1>0, <2>1, BlankCoherent, RowTypes
  <2>3. ASSUME NEW l \in LegIds, Matchable(l)
        PROVE  Coherent(FlightsAfterLink(inserted, leg, f, l, "auto"), leg)
    <3>1. FlightStored(inserted, f) /\ inserted[f].leg = NULL
      BY <1>0 DEF FlightStored, EmptyFlight
    <3>2. Holders(inserted, l) = {}
      BY <1>0, <2>3, NullIsNoValue DEF Matchable, Holders, EmptyFlight
    <3>3. MayLink(inserted, leg, f, l)
      BY <2>3, <3>1, <3>2, NullIsNoValue DEF MayLink, Matchable
    <3>4. LegsAfterLink(inserted, leg, f) = leg
      BY <3>1 DEF LegsAfterLink, LegsAfterUnlink, Linked
    <3> HIDE DEF inserted
    <3>5. QED BY <1>0, <2>2, <3>3, <3>4, LinkCoherent
  <2>4. QED BY <1>1, <2>2, <2>3 DEF StartFlight
<1>2. ASSUME NEW f \in FlightIds, NEW outcome \in ClosedStatus, EndFlight(f, outcome)
      PROVE  Coherent(flight', leg')
  BY <1>0, <1>2, ArrivalCoherent DEF EndFlight
<1>3. ASSUME NEW f \in FlightIds, EndFlightUnrecorded(f) PROVE Coherent(flight', leg')
  BY <1>0, <1>3, EndedCoherent DEF EndFlightUnrecorded
<1>4. ASSUME NEW f \in FlightIds, NEW l \in LegIds, LinkByHand(f, l)
      PROVE  Coherent(flight', leg')
  BY <1>0, <1>4, LinkCoherent DEF LinkByHand
<1>5. ASSUME NEW f \in FlightIds, UnlinkByHand(f) PROVE Coherent(flight', leg')
  BY <1>0, <1>5, UnlinkCoherent DEF UnlinkByHand
<1>6. ASSUME NEW f \in FlightIds, NEW requested \in {"planned", "flown"},
             NEW measured \in BOOLEAN, HandClose(f, requested, measured)
      PROVE  Coherent(flight', leg')
  <2>1. Linked(flight, f) /\ flight[f].row = "ended"
    BY <1>6 DEF HandClose, HandCloseAllowed
  <2>2. requested \in LegStatus /\ (requested = "flown" /\ measured) \in BOOLEAN
    BY DEF LegStatus
  <2>3. (requested = "flown" /\ measured) => requested \in ClosedStatus
    BY DEF ClosedStatus
  <2>4. QED BY <1>0, <1>6, <2>1, <2>2, <2>3, StatusCoherent DEF HandClose
<1>7. ASSUME NEW f \in FlightIds, DeleteFlight(f) PROVE Coherent(flight', leg')
  BY <1>0, <1>7, DeleteCoherent DEF DeleteFlight
<1>7a. ASSUME NEW f \in FlightIds, DeleteFlightCut(f) PROVE Coherent(flight', leg')
  BY <1>0, <1>7a, UnlinkCoherent DEF DeleteFlightCut
<1>8. ASSUME NEW a \in FlightIds, NEW b \in FlightIds, NEW n \in FlightIds,
             CombineFlights(a, b, n)
      PROVE  Coherent(flight', leg')
  <2> DEFINE fl1 == FlightsAfterDelete(flight, a)
             lg1 == LegsAfterUnlink(flight, leg, a)
             fl2 == FlightsAfterDelete(fl1, b)
             lg2 == LegsAfterUnlink(fl1, lg1, b)
  <2>1. Coherent(fl1, lg1) /\ fl1 \in [FlightIds -> FlightRow] /\ lg1 \in [LegIds -> LegRow]
    BY <1>0, DeleteCoherent, StatementTypes
  <2> HIDE DEF fl1, lg1
  <2>2. Coherent(fl2, lg2) /\ fl2 \in [FlightIds -> FlightRow] /\ lg2 \in [LegIds -> LegRow]
    BY <2>1, DeleteCoherent, StatementTypes
  <2>3. LegsAfterUnlink(flight, lg1, b) = lg2
    <3>1. fl1[b] = flight[b]
      BY <1>0, <1>8 DEF CombineFlights, FlightsAfterDelete, fl1
    <3>2. QED BY <3>1 DEF LegsAfterUnlink, Linked
  <2>4. ~Linked(fl2, n)
    <3>1. n # a /\ n # b
      BY <1>8 DEF CombineFlights, FlightStored
    <3>2. fl2[n] = flight[n]
      BY <1>0, <3>1 DEF FlightsAfterDelete, fl1
    <3>3. ~Linked(flight, n)
      BY <1>8 DEF CombineFlights, Coherent, SitsInLegTrip, FlightStored
    <3>4. QED BY <3>2, <3>3 DEF Linked
  <2> HIDE DEF fl2, lg2
  <2>5. Coherent([fl2 EXCEPT ![n] = EmptyFlight("ended")], lg2)
    BY <2>2, <2>4, BlankCoherent
  <2>6. flight' = [fl2 EXCEPT ![n] = EmptyFlight("ended")] /\ leg' = lg2
    BY <1>8, <2>3 DEF CombineFlights, fl1, lg1, fl2
  <2>7. QED BY <2>5, <2>6
<1>9. ASSUME NEW f \in FlightIds, NEW t \in TripIds, AssignFlight(f, t)
      PROVE  Coherent(flight', leg')
  BY <1>0, <1>9, AssignCoherent DEF AssignFlight
<1>10. ASSUME NEW f \in FlightIds, RemoveFlight(f) PROVE Coherent(flight', leg')
  BY <1>0, <1>10, RemoveCoherent DEF RemoveFlight
<1>11. ASSUME NEW l \in LegIds, NEW t \in TripRef, CreateLeg(l, t)
       PROVE  Coherent(flight', leg')
  <2>1. /\ leg'[l].status = "planned" /\ leg'[l].deviation = FALSE
        /\ \A k \in LegIds : k # l => leg'[k] = leg[k]
    BY <1>0, <1>11 DEF CreateLeg, EmptyLeg
  <2>2. \A f \in FlightIds : Linked(flight, f) => flight[f].leg \in LegIds /\ flight[f].leg # l
    BY <1>0, <1>11, LinkedLeg DEF CreateLeg, Coherent, SitsInLegTrip
  <2>3. SitsInLegTrip(flight, leg')
    BY <2>1, <2>2 DEF Coherent, SitsInLegTrip
  <2>4. ClosedByLanded(flight, leg')
    BY <2>1 DEF Coherent, ClosedByLanded, ClosedStatus
  <2>5. QED BY <1>11, <2>3, <2>4 DEF CreateLeg, Coherent
<1>12. ASSUME NEW l \in LegIds, DeleteLeg(l) PROVE Coherent(flight', leg')
  BY <1>0, <1>12, LegDeleteCoherent DEF DeleteLeg
<1>13. ASSUME NEW l \in LegIds, NEW s \in {"planned", "skipped"}, SetStatus(l, s)
       PROVE  Coherent(flight', leg')
  <2>1. /\ leg'[l].status = s /\ leg'[l].deviation = FALSE
        /\ \A k \in LegIds : leg'[k].row = leg[k].row /\ leg'[k].trip = leg[k].trip
        /\ \A k \in LegIds : k # l => leg'[k] = leg[k]
    BY <1>0, <1>13 DEF SetStatus, LegRow
  <2>2. SitsInLegTrip(flight, leg')
    BY <1>0, <2>1, LinkedLeg DEF Coherent, SitsInLegTrip
  <2>3. ClosedByLanded(flight, leg')
    BY <2>1 DEF Coherent, ClosedByLanded, ClosedStatus
  <2>4. QED BY <1>13, <2>2, <2>3 DEF SetStatus, Coherent
<1>14. ASSUME NEW t \in TripIds, CreateTrip(t) PROVE Coherent(flight', leg')
  BY <1>14 DEF CreateTrip
<1>15. ASSUME NEW t \in TripIds, DeleteTrip(t) PROVE Coherent(flight', leg')
  BY <1>0, <1>15, TripDeleteCoherent DEF DeleteTrip
<1>16. ASSUME NEW t \in TripRef, SetActiveTrip(t) PROVE Coherent(flight', leg')
  BY <1>16 DEF SetActiveTrip
<1>17. CASE UNCHANGED vars
  BY <1>17 DEF vars
<1>18. QED
  BY <1>1, <1>2, <1>3, <1>4, <1>5, <1>6, <1>7, <1>7a, <1>8, <1>9, <1>10, <1>11, <1>12,
     <1>13, <1>14, <1>15, <1>16, <1>17 DEF Next

\* setActiveTrip() clears before it sets, and a trip that is deleted is not
\* active any more.
LEMMA NextActive == TypeOK /\ OneActiveTrip /\ [Next]_vars => OneActiveTrip'
<1> SUFFICES ASSUME TypeOK, OneActiveTrip, [Next]_vars PROVE OneActiveTrip'
  OBVIOUS
<1>1. ASSUME NEW t \in TripIds, CreateTrip(t) PROVE OneActiveTrip'
  BY <1>1 DEF CreateTrip, OneActiveTrip, EmptyTrip, TypeOK
<1>2. ASSUME NEW t \in TripIds, DeleteTrip(t) PROVE OneActiveTrip'
  BY <1>2 DEF DeleteTrip, OneActiveTrip, EmptyTrip, TypeOK
<1>3. ASSUME NEW t \in TripRef, SetActiveTrip(t) PROVE OneActiveTrip'
  <2>1. \A u \in TripIds : (trip'[u].active <=> u = t) /\ trip'[u].row = trip[u].row
    BY <1>3 DEF SetActiveTrip, TypeOK, TripRow
  <2>2. \A u, v \in TripIds : trip'[u].active /\ trip'[v].active => u = v
    BY <2>1
  <2>3. \A u \in TripIds : trip'[u].active => trip'[u].row = "stored"
    BY <1>3, <2>1, NullIsNoValue DEF SetActiveTrip
  <2>4. QED BY <2>2, <2>3 DEF OneActiveTrip
<1>4. trip' = trip => OneActiveTrip'
  BY DEF OneActiveTrip
<1>5. QED
  BY <1>1, <1>2, <1>3, <1>4
     DEF Next, vars, StartFlight, EndFlight, EndFlightUnrecorded, LinkByHand, UnlinkByHand,
         HandClose, DeleteFlight, DeleteFlightCut, CombineFlights, AssignFlight, RemoveFlight,
         CreateLeg, DeleteLeg, SetStatus

\* The inductive invariant.
THEOREM LogbookInvariant == Spec => []LogbookInv
<1>1. LogbookInv /\ [Next]_vars => LogbookInv'
  <2>1. ASSUME LogbookInv, [Next]_vars PROVE LogbookInv'
    BY <2>1, NextTypes, NextCoherent, NextActive DEF LogbookInv
  <2>2. QED BY <2>1
<1>2. QED BY InitInv, <1>1, PTL DEF Spec

----------------------------------------------------------------------------
\* The rows of every table keep the shape of their table (src/src/db/schema.ts).
THEOREM LogbookTypeOK == Spec => []TypeOK
<1>1. LogbookInv => TypeOK
  BY DEF LogbookInv
<1>2. QED BY <1>1, LogbookInvariant, PTL

\* However links are made, re-targeted, deleted and overruled by hand, a leg is
\* held by one flight at most (idx_flights_planned_leg never fires).
THEOREM LegsAreHeldOnce == Spec => []LegHeldOnce
<1>1. LogbookInv => LegHeldOnce
  BY DEF LogbookInv, Coherent, LegHeldOnce
<1>2. QED BY <1>1, LogbookInvariant, PTL

\* A linked flight is stored, names a stored leg and sits in that leg's trip.
THEOREM LinkedFlightsSitInTheirTrip == Spec => []LinkedFlightSitsInLegTrip
<1>1. LogbookInv => LinkedFlightSitsInLegTrip
  BY DEF LogbookInv, Coherent, LinkedFlightSitsInLegTrip
<1>2. QED BY <1>1, LogbookInvariant, PTL

\* A flight without a link keeps nothing of one.
THEOREM NothingLeftOfALink == Spec => []NoLeftoverLink
<1>1. LogbookInv => NoLeftoverLink
  BY DEF LogbookInv, Coherent, NoLeftoverLink
<1>2. QED BY <1>1, LogbookInvariant, PTL

\* A leg shown as flown or diverted has a landed flight that flew it.
THEOREM ClosedLegsHaveLandedFlights == Spec => []ClosedLegHasLandedFlight
<1>1. LogbookInv => ClosedLegHasLandedFlight
  BY DEF LogbookInv, Coherent, ClosedLegHasLandedFlight
<1>2. QED BY <1>1, LogbookInvariant, PTL

\* idx_trips_active never fires either.
THEOREM TripsActiveOnce == Spec => []OneActiveTrip
<1>1. LogbookInv => OneActiveTrip
  BY DEF LogbookInv
<1>2. QED BY <1>1, LogbookInvariant, PTL

----------------------------------------------------------------------------
\* Only the flight that lets go of its leg reopens it.
LEMMA UnlinkReopensOwnLeg ==
  ASSUME NEW fl \in [FlightIds -> FlightRow], NEW lg \in [LegIds -> LegRow],
         NEW f \in FlightIds, NEW l \in LegIds,
         LegsAfterUnlink(fl, lg, f)[l].status # lg[l].status
  PROVE  Linked(fl, f) /\ fl[f].leg = l
BY LinkedLeg DEF LegsAfterUnlink

\* A closed leg reopens only when its flight lets go of it, or by the hand
\* close of a landed flight that was linked by hand.
THEOREM ClosedLegsReopenByTheirFlight == Spec => ClosedLegReopens
<1> DEFINE reopened(l) == leg[l].status \in ClosedStatus /\ leg'[l].status \notin ClosedStatus
           letGo(l)    == \A f \in Holders(flight, l) : flight'[f].leg # l
           byHand(l)   == /\ leg[l].status = "flown"
                          /\ \A f \in Holders(flight, l) :
                               flight[f].source = "manual" /\ flight[f].row = "ended"
           Allowed     == \A l \in LegIds : reopened(l) => letGo(l) \/ byHand(l)
<1>1. ASSUME LogbookInv, Next PROVE Allowed
  <2> SUFFICES ASSUME NEW l \in LegIds, reopened(l) PROVE letGo(l) \/ byHand(l)
    OBVIOUS
  <2>0. /\ flight \in [FlightIds -> FlightRow] /\ leg \in [LegIds -> LegRow]
        /\ l # NULL
        /\ \A f, g \in FlightIds : flight[f].leg = l /\ flight[g].leg = l => f = g
    BY <1>1, NullIsNoValue DEF LogbookInv, TypeOK, Coherent, HeldOnce, Linked
  <2>1. ASSUME leg' = leg PROVE FALSE
    BY <2>1
  <2>2. ASSUME NEW f \in FlightIds, leg' = LegsAfterUnlink(flight, leg, f),
               flight[f].leg = l => flight'[f].leg # l
        PROVE  letGo(l)
    BY <2>0, <2>2, UnlinkReopensOwnLeg DEF Holders
  <2>3. ASSUME NEW f \in FlightIds, NEW outcome \in ClosedStatus, EndFlight(f, outcome)
        PROVE  FALSE
    <3>1. leg'[l].status \in {leg[l].status, outcome}
      BY <2>0, <2>3, LinkedLeg DEF EndFlight, LegsAfterArrival, LegRow
    <3>2. QED BY <3>1
  <2>4. ASSUME NEW f \in FlightIds, NEW k \in LegIds, LinkByHand(f, k) PROVE letGo(l)
    <3>1. flight'[f].leg = k /\ flight[f].leg # k
      <4>1. FlightsAfterUnlink(flight, f) \in [FlightIds -> FlightRow]
        BY <2>0, StatementTypes
      <4>2. QED BY <2>4, <4>1 DEF LinkByHand, MayLink, FlightsAfterLink, WithLink, FlightRow
    <3>2. QED BY <2>2, <2>4, <3>1 DEF LinkByHand, LegsAfterLink
  <2>5. ASSUME NEW f \in FlightIds, UnlinkByHand(f) PROVE letGo(l)
    <3>1. flight'[f].leg = NULL
      BY <2>0, <2>5 DEF UnlinkByHand, FlightsAfterUnlink, WithoutLink, FlightRow
    <3>2. QED BY <2>0, <2>2, <2>5, <3>1 DEF UnlinkByHand
  <2>6. ASSUME NEW f \in FlightIds, NEW requested \in {"planned", "flown"},
               NEW measured \in BOOLEAN, HandClose(f, requested, measured)
        PROVE  byHand(l)
    <3>1. flight[f].leg = l /\ requested = "planned"
      BY <2>0, <2>6, LinkedLeg DEF HandClose, HandCloseAllowed, LegRow, ClosedStatus
    <3>2. QED BY <2>0, <2>6, <3>1 DEF HandClose, HandCloseAllowed, Holders
  <2>7. ASSUME NEW f \in FlightIds, DeleteFlight(f) PROVE letGo(l)
    <3>1. flight'[f].leg = NULL
      BY <2>0, <2>7 DEF DeleteFlight, FlightsAfterDelete, EmptyFlight
    <3>2. QED BY <2>0, <2>2, <2>7, <3>1 DEF DeleteFlight
  <2>7a. ASSUME NEW f \in FlightIds, DeleteFlightCut(f) PROVE letGo(l)
    <3>1. flight'[f].leg = NULL
      BY <2>0, <2>7a DEF DeleteFlightCut, FlightsAfterClear, WithoutLink, FlightRow
    <3>2. QED BY <2>0, <2>2, <2>7a, <3>1 DEF DeleteFlightCut
  <2>8. ASSUME NEW a \in FlightIds, NEW b \in FlightIds, NEW n \in FlightIds,
               CombineFlights(a, b, n)
        PROVE  letGo(l)
    <3>1. flight'[a].leg = NULL /\ flight'[b].leg = NULL
      BY <2>0, <2>8 DEF CombineFlights, FlightsAfterDelete, EmptyFlight
    <3>2. flight[a].leg = l \/ flight[b].leg = l
      <4> DEFINE lg1 == LegsAfterUnlink(flight, leg, a)
      <4>1. lg1 \in [LegIds -> LegRow]
        BY <2>0, StatementTypes
      <4>2. lg1[l].status # leg[l].status => flight[a].leg = l
        BY <2>0, UnlinkReopensOwnLeg
      <4>3. leg' = LegsAfterUnlink(flight, lg1, b)
        BY <2>8 DEF CombineFlights
      <4> HIDE DEF lg1
      <4>4. leg'[l].status # lg1[l].status => flight[b].leg = l
        BY <2>0, <4>1, <4>3, UnlinkReopensOwnLeg
      <4>5. QED BY <4>2, <4>4
    <3>3. QED BY <2>0, <3>1, <3>2 DEF Holders
  <2>9. ASSUME NEW f \in FlightIds, NEW t \in TripIds, AssignFlight(f, t) PROVE letGo(l)
    <3>1. Linked(flight, f) /\ leg[flight[f].leg].trip # t
      BY <2>9 DEF AssignFlight, LegsAfterAssign
    <3>2. flight'[f].leg = NULL
      BY <2>0, <2>9, <3>1
         DEF AssignFlight, FlightsAfterAssign, FlightsAfterClear, WithoutLink, FlightRow
    <3>3. QED BY <2>0, <2>2, <2>9, <3>1, <3>2 DEF AssignFlight, LegsAfterAssign
  <2>10. ASSUME NEW f \in FlightIds, RemoveFlight(f) PROVE letGo(l)
    <3>1. ~Linked(flight, f) => leg' = leg
      BY <2>10 DEF RemoveFlight, LegsAfterUnlink
    <3>2. Linked(flight, f) => flight'[f].leg = NULL
      BY <2>0, <2>10 DEF RemoveFlight, FlightsAfterRemove, FlightsAfterClear, WithoutLink, FlightRow
    <3>3. QED BY <2>0, <2>1, <2>2, <2>10, <3>1, <3>2 DEF RemoveFlight
  <2>11. ASSUME NEW k \in LegIds, NEW t \in TripRef, CreateLeg(k, t) PROVE FALSE
    <3>1. leg[k].row = "unused" /\ l = k
      BY <2>0, <2>11 DEF CreateLeg
    <3>2. QED BY <1>1, <2>0, <3>1
              DEF LogbookInv, Coherent, ClosedByLanded, SitsInLegTrip, Linked
  <2>12. ASSUME NEW k \in LegIds, DeleteLeg(k) PROVE letGo(l)
    <3>1. l = k
      BY <2>0, <2>12 DEF DeleteLeg
    <3>2. QED BY <2>0, <2>12, <3>1
              DEF DeleteLeg, FlightsAfterLegDelete, Holders, WithoutLink, FlightRow
  <2>13. ASSUME NEW k \in LegIds, NEW s \in {"planned", "skipped"}, SetStatus(k, s)
         PROVE  letGo(l)
    <3>1. l = k
      BY <2>0, <2>13 DEF SetStatus
    <3>2. QED BY <2>13, <3>1 DEF SetStatus
  <2>14. ASSUME NEW t \in TripIds, DeleteTrip(t) PROVE letGo(l)
    <3>1. leg[l].trip = t
      BY <2>0, <2>14 DEF DeleteTrip, LegsAfterTripDelete
    <3>2. QED BY <2>0, <2>14, <3>1
              DEF DeleteTrip, FlightsAfterTripDelete, Holders, Linked, WithoutLink, FlightRow
  <2>15. QED
    BY <1>1, <2>1, <2>3, <2>4, <2>5, <2>6, <2>7, <2>7a, <2>8, <2>9, <2>10, <2>11, <2>12, <2>13, <2>14
       DEF Next, StartFlight, EndFlightUnrecorded, CreateTrip, SetActiveTrip
<1>2. LogbookInv /\ [Next]_vars => [\A l \in LegIds : ReopensByItsFlight(l)]_vars
  BY <1>1 DEF vars, ReopensByItsFlight
<1>3. QED BY <1>2, LogbookInvariant, PTL DEF Spec, ClosedLegReopens

-----------------------------------------------------------------------------
(* The refinement: every operation is a step of the abstract membership or  *)
(* leaves it alone.                                                         *)

\* trip_id shows the leg's trip while linked and the flight's home otherwise.
LEMMA ShownColumn ==
  ASSUME NEW fl \in [FlightIds -> FlightRow], NEW lg \in [LegIds -> LegRow],
         Coherent(fl, lg), NEW f \in FlightIds
  PROVE  /\ fl[f].leg = NULL  => ~Linked(fl, f)
         /\ fl[f].leg # NULL  => fl[f].leg \in LegIds /\ fl[f].trip = lg[fl[f].leg].trip
BY LinkedLeg DEF Linked, Coherent, SitsInLegTrip

\* Empty tables are an empty membership.
LEMMA InitMaps == Init => Membership!Init
<1> SUFFICES ASSUME Init PROVE Membership!Init
  OBVIOUS
<1>1. /\ Home = [f \in FlightIds |-> NULL] /\ Held = [f \in FlightIds |-> NULL]
      /\ LegTrip = [l \in LegIds |-> NULL] /\ Shown = [f \in FlightIds |-> NULL]
  BY DEF Init, Home, Held, LegTrip, Shown, Linked, EmptyFlight, EmptyLeg
<1>2. QED BY <1>1 DEF Membership!Init

\* In every reachable state, before and after a step, trip_id is what the
\* abstraction computes.
LEMMA ShownAfter ==
  ASSUME TypeOK', Coherent(flight', leg')
  PROVE  Shown' = Membership!ShownFor(Home', Held', LegTrip')
<1>1. flight' \in [FlightIds -> FlightRow] /\ leg' \in [LegIds -> LegRow]
  BY DEF TypeOK
<1>2. ASSUME NEW f \in FlightIds
      PROVE  flight'[f].trip =
               IF flight'[f].leg = NULL THEN Home'[f] ELSE LegTrip'[flight'[f].leg]
  <2>1. CASE flight'[f].leg = NULL
    BY <2>1 DEF Home, Linked
  <2>2. CASE flight'[f].leg # NULL
    BY <1>1, <2>2, ShownColumn DEF LegTrip
  <2>3. QED BY <2>1, <2>2
<1>3. QED BY <1>2 DEF Shown, Held, Membership!ShownFor

\* A step that leaves the four columns of every row alone is a stutter.
LEMMA StutterMaps ==
  ASSUME \A f \in FlightIds : /\ flight'[f].leg = flight[f].leg
                              /\ flight'[f].trip = flight[f].trip
                              /\ flight'[f].prev = flight[f].prev,
         \A l \in LegIds : leg'[l].trip = leg[l].trip
  PROVE  UNCHANGED Membership!vars
BY DEF Membership!vars, Home, Held, LegTrip, Shown, Linked

\* Reopening a leg leaves it in its trip.
LEMMA UnlinkKeepsLegTrip ==
  ASSUME NEW fl \in [FlightIds -> FlightRow], NEW lg \in [LegIds -> LegRow],
         NEW f \in FlightIds, NEW t, NEW l \in LegIds
  PROVE  /\ LegsAfterUnlink(fl, lg, f)[l].trip = lg[l].trip
         /\ LegsAfterAssign(fl, lg, f, t)[l].trip = lg[l].trip
<1>1. \A r \in LegRow : Reopened(r).trip = r.trip
  BY DEF Reopened, LegRow
<1>2. LegsAfterUnlink(fl, lg, f)[l].trip = lg[l].trip
  BY <1>1 DEF LegsAfterUnlink
<1>3. QED BY <1>2 DEF LegsAfterAssign

\* The other steps: what changes in one flight's home and held leg.
HomeOf(r) == IF r.leg # NULL THEN r.prev ELSE r.trip

\* A step of the logbook is a step of the membership, or leaves it alone, and
\* the one its operation promises.
LEMMA NextMaps ==
  ASSUME LogbookInv, LogbookInv', Next
  PROVE  (Membership!Next \/ UNCHANGED Membership!vars) /\ AsPromised
<1>0. /\ flight \in [FlightIds -> FlightRow] /\ leg \in [LegIds -> LegRow]
      /\ Coherent(flight, leg)
  BY DEF LogbookInv, TypeOK
<1>1. Shown' = Membership!ShownFor(Home', Held', LegTrip')
  <2>1. TypeOK' /\ Coherent(flight', leg')
    BY DEF LogbookInv
  <2>2. QED BY <2>1, ShownAfter
<1>2. /\ Home = [f \in FlightIds |-> HomeOf(flight[f])]
      /\ Held = [f \in FlightIds |-> flight[f].leg]
      /\ LegTrip = [l \in LegIds |-> leg[l].trip]
      /\ Home' = [f \in FlightIds |-> HomeOf(flight'[f])]
      /\ Held' = [f \in FlightIds |-> flight'[f].leg]
      /\ LegTrip' = [l \in LegIds |-> leg'[l].trip]
  BY DEF Home, Held, LegTrip, HomeOf, Linked
\* the legs keep their trips unless one is planned or deleted
<1>3. ASSUME NEW f \in FlightIds
      PROVE  /\ leg' = LegsAfterUnlink(flight, leg, f) => LegTrip' = LegTrip
             /\ \A t \in TripIds : leg' = LegsAfterAssign(flight, leg, f, t) => LegTrip' = LegTrip
  <2>1. ASSUME leg' = LegsAfterUnlink(flight, leg, f) PROVE LegTrip' = LegTrip
    <3>1. \A l \in LegIds : leg'[l].trip = leg[l].trip
      BY <1>0, <2>1, UnlinkKeepsLegTrip
    <3>2. QED BY <1>2, <3>1
  <2>2. ASSUME NEW t \in TripIds, leg' = LegsAfterAssign(flight, leg, f, t)
        PROVE  LegTrip' = LegTrip
    <3>1. \A l \in LegIds : leg'[l].trip = leg[l].trip
      BY <1>0, <2>2, UnlinkKeepsLegTrip
    <3>2. QED BY <1>2, <3>1
  <2>3. QED BY <2>1, <2>2
<1>4. ASSUME NEW f \in FlightIds, StartFlight(f)
      PROVE  (\E l \in LegIds : Membership!Take(f, l)) \/ UNCHANGED Membership!vars
  <2> DEFINE inserted == [flight EXCEPT ![f] = EmptyFlight("open")]
  <2>0. flight[f].leg = NULL /\ flight[f].trip = NULL /\ flight[f].prev = NULL
    BY <1>0, <1>4 DEF StartFlight, Coherent, SitsInLegTrip, NoLeftover, FlightStored, Linked
  <2>1. CASE flight' = inserted
    <3>1. /\ flight'[f].leg = NULL /\ flight'[f].trip = NULL /\ flight'[f].prev = NULL
          /\ \A g \in FlightIds : g # f => flight'[g] = flight[g]
      BY <1>0, <2>1 DEF EmptyFlight
    <3>2. QED BY <1>4, <2>0, <3>1, StutterMaps DEF StartFlight
  <2>2. ASSUME NEW l \in LegIds, Matchable(l),
               flight' = FlightsAfterLink(inserted, leg, f, l, "auto")
        PROVE  Membership!Take(f, l)
    <3>1. /\ flight'[f].leg = l /\ flight'[f].prev = NULL
          /\ \A g \in FlightIds : g # f => flight'[g] = flight[g]
      BY <1>0, <2>2
         DEF FlightsAfterLink, FlightsAfterUnlink, Linked, EmptyFlight, WithLink
    <3>2. Membership!Free(l)
      BY <1>2, <2>2 DEF Membership!Free, Matchable, Holders
    <3>3. Home' = Home
      BY <1>2, <2>0, <3>1, NullIsNoValue DEF HomeOf
    <3>4. Held' = [Held EXCEPT ![f] = l]
      BY <1>2, <3>1
    <3>5. LegTrip' = LegTrip
      BY <1>2, <1>4 DEF StartFlight
    <3>6. QED BY <3>2, <3>3, <3>4, <3>5 DEF Membership!Take
  <2>3. QED BY <1>4, <2>1, <2>2 DEF StartFlight
<1>5. ASSUME NEW f \in FlightIds, NEW outcome \in ClosedStatus, EndFlight(f, outcome)
      PROVE  UNCHANGED Membership!vars
  <2>1. \A g \in FlightIds : /\ flight'[g].leg = flight[g].leg
                             /\ flight'[g].trip = flight[g].trip
                             /\ flight'[g].prev = flight[g].prev
    BY <1>0, <1>5 DEF EndFlight, FlightRow
  <2>2. \A l \in LegIds : leg'[l].trip = leg[l].trip
    BY <1>0, <1>5, LinkedLeg DEF EndFlight, LegsAfterArrival, LegRow
  <2>3. QED BY <2>1, <2>2, StutterMaps
<1>6. ASSUME NEW f \in FlightIds, EndFlightUnrecorded(f) PROVE UNCHANGED Membership!vars
  <2>1. \A g \in FlightIds : /\ flight'[g].leg = flight[g].leg
                             /\ flight'[g].trip = flight[g].trip
                             /\ flight'[g].prev = flight[g].prev
    BY <1>0, <1>6 DEF EndFlightUnrecorded, FlightRow
  <2>2. QED BY <1>6, <2>1, StutterMaps DEF EndFlightUnrecorded
<1>7. ASSUME NEW f \in FlightIds, NEW l \in LegIds, LinkByHand(f, l)
      PROVE  Membership!Take(f, l)
  <2>1. /\ flight'[f].leg = l
        /\ flight'[f].prev = HomeOf(flight[f])
        /\ \A g \in FlightIds : g # f => flight'[g] = flight[g]
    <3> DEFINE base == FlightsAfterUnlink(flight, f)
    <3>1. base \in [FlightIds -> FlightRow]
      BY <1>0, StatementTypes
    <3>2. /\ base[f].trip = HomeOf(flight[f])
          /\ \A g \in FlightIds : g # f => base[g] = flight[g]
      BY <1>0 DEF FlightsAfterUnlink, Linked, WithoutLink, HomeOf, FlightRow
    <3> HIDE DEF base
    <3>3. flight' = [base EXCEPT ![f] = WithLink(base[f], l, leg[l].trip, "manual")]
      BY <1>7 DEF LinkByHand, FlightsAfterLink, base
    <3>4. QED BY <3>1, <3>2, <3>3 DEF WithLink, FlightRow
  <2>2. Home' = Home
    BY <1>2, <2>1, NullIsNoValue DEF HomeOf
  <2>3. Held' = [Held EXCEPT ![f] = l]
    BY <1>2, <2>1
  <2>4. LegTrip' = LegTrip
    BY <1>3, <1>7 DEF LinkByHand, LegsAfterLink
  <2>5. Membership!Free(l)
    BY <1>2, <1>7 DEF LinkByHand, MayLink, Holders, Membership!Free
  <2>6. QED BY <2>2, <2>3, <2>4, <2>5 DEF Membership!Take
<1>8. ASSUME NEW f \in FlightIds, UnlinkByHand(f) PROVE Membership!Release(f)
  <2>1. /\ flight[f].leg # NULL /\ flight'[f].leg = NULL /\ flight'[f].trip = flight[f].prev
        /\ \A g \in FlightIds : g # f => flight'[g] = flight[g]
    BY <1>0, <1>8 DEF UnlinkByHand, FlightsAfterUnlink, Linked, WithoutLink, FlightRow
  <2>2. Home' = Home
    BY <1>2, <2>1 DEF HomeOf
  <2>3. Held' = [Held EXCEPT ![f] = NULL] /\ Held[f] # NULL
    BY <1>2, <2>1
  <2>4. LegTrip' = LegTrip
    BY <1>3, <1>8 DEF UnlinkByHand
  <2>5. QED BY <2>2, <2>3, <2>4 DEF Membership!Release
<1>9. ASSUME NEW f \in FlightIds, NEW requested \in {"planned", "flown"},
             NEW measured \in BOOLEAN, HandClose(f, requested, measured)
      PROVE  UNCHANGED Membership!vars
  <2>1. \A l \in LegIds : leg'[l].trip = leg[l].trip
    BY <1>0, <1>9 DEF HandClose, LegRow
  <2>2. QED BY <1>9, <2>1, StutterMaps DEF HandClose
<1>10. ASSUME NEW f \in FlightIds, DeleteFlight(f) PROVE Membership!Forget({f})
  <2>1. /\ HomeOf(flight'[f]) = NULL /\ flight'[f].leg = NULL
        /\ \A g \in FlightIds : g # f => flight'[g] = flight[g]
    BY <1>0, <1>10 DEF DeleteFlight, FlightsAfterDelete, EmptyFlight, HomeOf
  <2>2. /\ Home' = [g \in FlightIds |-> IF g \in {f} THEN NULL ELSE Home[g]]
        /\ Held' = [g \in FlightIds |-> IF g \in {f} THEN NULL ELSE Held[g]]
    BY <1>2, <2>1
  <2>3. LegTrip' = LegTrip
    BY <1>3, <1>10 DEF DeleteFlight
  <2>4. QED BY <2>2, <2>3 DEF Membership!Forget
<1>10a. ASSUME NEW f \in FlightIds, DeleteFlightCut(f) PROVE Membership!Strand(f)
  <2>1. /\ flight[f].leg # NULL /\ flight'[f].leg = NULL /\ flight'[f].trip = flight[f].trip
        /\ \A g \in FlightIds : g # f => flight'[g] = flight[g]
    BY <1>0, <1>10a DEF DeleteFlightCut, FlightsAfterClear, Linked, WithoutLink, FlightRow
  <2>2. /\ Home' = [Home EXCEPT ![f] = Shown[f]] /\ Held' = [Held EXCEPT ![f] = NULL]
        /\ Held[f] # NULL
    BY <1>2, <2>1 DEF HomeOf, Shown
  <2>3. LegTrip' = LegTrip
    BY <1>3, <1>10a DEF DeleteFlightCut
  <2>4. QED BY <2>2, <2>3 DEF Membership!Strand
<1>11. ASSUME NEW a \in FlightIds, NEW b \in FlightIds, NEW n \in FlightIds,
              CombineFlights(a, b, n)
       PROVE  Membership!Forget({a, b})
  <2>1. n # a /\ n # b /\ HomeOf(flight[n]) = NULL /\ flight[n].leg = NULL
    BY <1>0, <1>11
       DEF CombineFlights, Coherent, SitsInLegTrip, NoLeftover, FlightStored, Linked, HomeOf
  <2>2. /\ \A g \in {a, b, n} : HomeOf(flight'[g]) = NULL /\ flight'[g].leg = NULL
        /\ \A g \in FlightIds : g \notin {a, b, n} => flight'[g] = flight[g]
    BY <1>0, <1>11 DEF CombineFlights, FlightsAfterDelete, EmptyFlight, HomeOf
  <2>3. /\ Home' = [g \in FlightIds |-> IF g \in {a, b} THEN NULL ELSE Home[g]]
        /\ Held' = [g \in FlightIds |-> IF g \in {a, b} THEN NULL ELSE Held[g]]
    BY <1>2, <2>1, <2>2
  <2>4. LegTrip' = LegTrip
    <3> DEFINE lg1 == LegsAfterUnlink(flight, leg, a)
    <3>1. lg1 \in [LegIds -> LegRow] /\ \A l \in LegIds : lg1[l].trip = leg[l].trip
      BY <1>0, UnlinkKeepsLegTrip, StatementTypes
    <3>2. leg' = LegsAfterUnlink(flight, lg1, b)
      BY <1>11 DEF CombineFlights
    <3> HIDE DEF lg1
    <3>3. \A l \in LegIds : leg'[l].trip = lg1[l].trip
      BY <1>0, <3>1, <3>2, UnlinkKeepsLegTrip
    <3>4. QED BY <1>2, <3>1, <3>3
  <2>5. QED BY <2>3, <2>4 DEF Membership!Forget
<1>12. ASSUME NEW f \in FlightIds, NEW t \in TripIds, AssignFlight(f, t)
       PROVE  Membership!Move(f, t) \/ UNCHANGED Membership!vars
  <2>1. CASE Linked(flight, f) /\ leg[flight[f].leg].trip = t
    <3>1. flight[f].trip = t /\ flight[f] \in FlightRow
      BY <1>0, <2>1 DEF Coherent, SitsInLegTrip
    <3>2. flight' = flight /\ leg' = leg
      BY <1>0, <1>12, <2>1, <3>1
         DEF AssignFlight, FlightsAfterAssign, LegsAfterAssign, FlightRow
    <3>3. QED BY <3>2, StutterMaps
  <2>2. CASE ~(Linked(flight, f) /\ leg[flight[f].leg].trip = t)
    <3>1. /\ flight'[f].leg = NULL /\ flight'[f].trip = t
          /\ \A g \in FlightIds : g # f => flight'[g] = flight[g]
      <4> DEFINE base == IF Linked(flight, f) /\ leg[flight[f].leg].trip # t
                         THEN FlightsAfterClear(flight, f) ELSE flight
      <4>1. base \in [FlightIds -> FlightRow]
        BY <1>0, StatementTypes
      <4>2. base[f].leg = NULL /\ \A g \in FlightIds : g # f => base[g] = flight[g]
        BY <1>0, <2>2 DEF FlightsAfterClear, Linked, WithoutLink, FlightRow
      <4> HIDE DEF base
      <4>3. flight' = [base EXCEPT ![f] = [base[f] EXCEPT !.trip = t]]
        BY <1>12 DEF AssignFlight, FlightsAfterAssign, base
      <4>4. QED BY <4>1, <4>2, <4>3 DEF FlightRow
    <3>2. /\ Home' = [Home EXCEPT ![f] = t] /\ Held' = [Held EXCEPT ![f] = NULL]
      BY <1>2, <3>1 DEF HomeOf
    <3>3. LegTrip' = LegTrip
      BY <1>3, <1>12 DEF AssignFlight
    <3>4. Held[f] # NULL => LegTrip[Held[f]] # t
      BY <1>0, <1>2, <2>2, LinkedLeg DEF Linked, Coherent
    <3>5. QED BY <3>2, <3>3, <3>4 DEF Membership!Move
  <2>3. QED BY <2>1, <2>2
<1>13. ASSUME NEW f \in FlightIds, RemoveFlight(f) PROVE Membership!Move(f, NULL)
  <2>1. /\ flight'[f].leg = NULL /\ flight'[f].trip = NULL
        /\ \A g \in FlightIds : g # f => flight'[g] = flight[g]
    <3> DEFINE base == FlightsAfterClear(flight, f)
    <3>1. base \in [FlightIds -> FlightRow]
      BY <1>0, StatementTypes
    <3>2. base[f].leg = NULL /\ \A g \in FlightIds : g # f => base[g] = flight[g]
      BY <1>0 DEF FlightsAfterClear, Linked, WithoutLink, FlightRow
    <3> HIDE DEF base
    <3>3. flight' = [base EXCEPT ![f] = [base[f] EXCEPT !.trip = NULL]]
      BY <1>13 DEF RemoveFlight, FlightsAfterRemove, base
    <3>4. QED BY <3>1, <3>2, <3>3 DEF FlightRow
  <2>2. Home' = [Home EXCEPT ![f] = NULL] /\ Held' = [Held EXCEPT ![f] = NULL]
    BY <1>2, <2>1 DEF HomeOf
  <2>3. LegTrip' = LegTrip
    BY <1>3, <1>13 DEF RemoveFlight
  <2>4. QED BY <2>2, <2>3 DEF Membership!Move
<1>14. ASSUME NEW l \in LegIds, NEW t \in TripRef, CreateLeg(l, t) PROVE Membership!Next
  <2>1. LegTrip' = [LegTrip EXCEPT ![l] = t]
    BY <1>0, <1>2, <1>14 DEF CreateLeg, EmptyLeg
  <2>2. Home' = Home /\ Held' = Held
    BY <1>2, <1>14 DEF CreateLeg
  <2>3. Membership!Free(l)
    BY <1>0, <1>2, <1>14, NullIsNoValue
       DEF CreateLeg, Membership!Free, Coherent, SitsInLegTrip, Linked
  <2>4. QED BY <1>1, <2>1, <2>2, <2>3 DEF Membership!Next, Membership!Plan, TripRef
<1>15. ASSUME NEW l \in LegIds, DeleteLeg(l) PROVE Membership!Drop({l})
  <2>1. Held' = [f \in FlightIds |-> IF Held[f] \in {l} THEN NULL ELSE Held[f]]
    BY <1>0, <1>2, <1>15 DEF DeleteLeg, FlightsAfterLegDelete, WithoutLink, FlightRow
  <2>2. Home' = Home
    BY <1>0, <1>2, <1>15, NullIsNoValue
       DEF DeleteLeg, FlightsAfterLegDelete, WithoutLink, FlightRow, HomeOf
  <2>3. LegTrip' = [k \in LegIds |-> IF k \in {l} THEN NULL ELSE LegTrip[k]]
    BY <1>0, <1>2, <1>15 DEF DeleteLeg, EmptyLeg
  <2>4. QED BY <2>1, <2>2, <2>3 DEF Membership!Drop
<1>16. ASSUME NEW l \in LegIds, NEW s \in {"planned", "skipped"}, SetStatus(l, s)
       PROVE  UNCHANGED Membership!vars
  <2>1. \A k \in LegIds : leg'[k].trip = leg[k].trip
    BY <1>0, <1>16 DEF SetStatus, LegRow
  <2>2. QED BY <1>16, <2>1, StutterMaps DEF SetStatus
<1>17. ASSUME NEW t \in TripIds, DeleteTrip(t)
       PROVE  Membership!Drop({l \in LegIds : leg[l].row = "stored" /\ leg[l].trip = t})
  <2> DEFINE gone == {l \in LegIds : leg[l].row = "stored" /\ leg[l].trip = t}
  <2>1. \A f \in FlightIds : Linked(flight, f) =>
          flight[f].leg \in LegIds /\ (leg[flight[f].leg].trip = t <=> flight[f].leg \in gone)
    BY <1>0, LinkedLeg DEF Coherent, SitsInLegTrip
  <2>2. \A f \in FlightIds : ~Linked(flight, f) => flight[f].leg \notin gone
    BY NullIsNoValue DEF Linked
  <2>3. \A f \in FlightIds :
          /\ flight[f].leg \notin gone => flight'[f] = flight[f]
          /\ flight[f].leg \in gone => flight'[f].leg = NULL /\ flight'[f].trip = flight[f].prev
    BY <1>0, <1>17, <2>1, <2>2
       DEF DeleteTrip, FlightsAfterTripDelete, WithoutLink, FlightRow
  <2>4. Held' = [f \in FlightIds |-> IF Held[f] \in gone THEN NULL ELSE Held[f]]
    BY <1>2, <2>3
  <2>5. Home' = Home
    BY <1>2, <2>2, <2>3 DEF HomeOf, Linked
  <2>6. LegTrip' = [k \in LegIds |-> IF k \in gone THEN NULL ELSE LegTrip[k]]
    BY <1>0, <1>2, <1>17 DEF DeleteTrip, LegsAfterTripDelete, EmptyLeg
  <2>7. Membership!Drop(gone)
    BY <2>4, <2>5, <2>6 DEF Membership!Drop
  <2>8. QED BY <2>7
<1>18. AsPromised
  BY <1>4, <1>7, <1>8, <1>10, <1>10a, <1>11, <1>12, <1>13, <1>15, <1>17 DEF AsPromised, Written
<1>19. Membership!Next \/ UNCHANGED Membership!vars
  <2> SUFFICES ASSUME ~UNCHANGED Membership!vars PROVE Membership!Next
    OBVIOUS
  <2>1. ASSUME NEW f \in FlightIds, NEW t \in TripIds \cup {NULL},
               \/ \E l \in LegIds : Membership!Take(f, l)
               \/ Membership!Release(f)
               \/ Membership!Move(f, t)
               \/ Membership!Strand(f)
        PROVE  Membership!Next
    BY <1>1, <2>1 DEF Membership!Next
  <2>2. ASSUME NEW F \in SUBSET FlightIds, Membership!Forget(F) PROVE Membership!Next
    BY <1>1, <2>2 DEF Membership!Next
  <2>3. ASSUME NEW L \in SUBSET LegIds, Membership!Drop(L) PROVE Membership!Next
    BY <1>1, <2>3 DEF Membership!Next
  <2>4. ASSUME NEW f \in FlightIds,
               \/ StartFlight(f)
               \/ \E l \in LegIds : LinkByHand(f, l)
               \/ UnlinkByHand(f)
               \/ DeleteFlightCut(f)
               \/ \E t \in TripIds : AssignFlight(f, t)
               \/ RemoveFlight(f)
        PROVE  Membership!Next
    BY <1>4, <1>7, <1>8, <1>10a, <1>12, <1>13, <2>1, <2>4
  <2>5. ASSUME NEW f \in FlightIds,
               DeleteFlight(f) \/ \E b, n \in FlightIds : CombineFlights(f, b, n)
        PROVE  Membership!Next
    BY <1>10, <1>11, <2>2, <2>5
  <2>6. ASSUME (\E l \in LegIds : DeleteLeg(l)) \/ (\E t \in TripIds : DeleteTrip(t))
        PROVE  Membership!Next
    <3>1. \A t \in TripIds : {l \in LegIds : leg[l].row = "stored" /\ leg[l].trip = t} \in SUBSET LegIds
      OBVIOUS
    <3>2. QED BY <1>15, <1>17, <2>3, <2>6, <3>1
  <2>7. QED
    BY <1>5, <1>6, <1>9, <1>14, <1>16, <2>4, <2>5, <2>6, StutterMaps
       DEF Next, CreateTrip, SetActiveTrip
<1>20. QED BY <1>18, <1>19

\* Every operation keeps the promise TripMembership makes for it: an unlink, a
\* re-target and a deletion of legs send the flight home, only the hand move and
\* the cut of deleteFlight() give it another home.
THEOREM LogbookImplementsMembership == Spec => ImplementsMembership
<1>1. LogbookInv /\ LogbookInv' /\ [Next]_vars =>
        [Membership!Next]_(Membership!vars) /\ [AsPromised]_vars
  <2>1. UNCHANGED vars => UNCHANGED Membership!vars
    BY StutterMaps DEF vars
  <2>2. QED BY <2>1, NextMaps
<1>2. QED BY InitMaps, <1>1, LogbookInvariant, PTL DEF Spec, ImplementsMembership, Membership!Spec
=============================================================================
