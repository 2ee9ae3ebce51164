---------------------------- MODULE BookingPromise ----------------------------
(***************************************************************************)
(* Proofs that the system keeps the promise of SlotSale, and that a        *)
(* scheduled time stays off sale until the calendar has it.                *)
(*                                                                         *)
(* The refinement maps each order's payment status to its money and its    *)
(* booking to its seat.  StepMoves already lists what a step can do to the *)
(* two, so each of those moves is shown to be a step of SlotSale or none.  *)
(***************************************************************************)
EXTENDS BookingSafety

(***************************************************************************)
(* The refinement.                                                         *)
(***************************************************************************)

\* What the mapping makes of one order.
LEMMA Mapped ==
    ASSUME TypeOK, NEW o \in Orders
    PROVE  /\ SaleMoney[o] = "unpaid" <=> order[o] \in {"none", "pending", "failed"}
           /\ SaleMoney[o] = "paid" <=> Kept(o)
           /\ SaleMoney[o] = "returned" <=> order[o] = "refunded"
           /\ SaleSeat[o] \in Slots <=> Timed(o)
           /\ Timed(o) => SaleSeat[o] = booking[o].slot
           /\ SaleSeat[o] = "over" <=> booking[o].status = "cancelled"
           /\ SaleSeat[o] = "waiting" <=> booking[o].status \in {"none", "awaiting_schedule"}
           /\ SaleSeat[o] \in Slots \cup {"waiting", "over"}
BY SeatAssumption
DEF TypeOK, TablesOK, OrderRowsOK, OrderStatus, BookingRow, BookingStatus,
    SaleMoney, SaleSeat, Kept, Timed

\* An order whose row and booking are left alone keeps its money and its seat.
LEMMA MappedAlike ==
    ASSUME NEW o \in Orders, order'[o] = order[o], booking'[o] = booking[o]
    PROVE  SaleMoney'[o] = SaleMoney[o] /\ SaleSeat'[o] = SaleSeat[o]
BY DEF SaleMoney, SaleSeat, Kept, Timed

\* The seats of the others leave a time free exactly when no booking overlaps it.
LEMMA FreeWhenNoClash ==
    ASSUME TypeOK, NEW o \in Orders, NEW s \in Slots, ~BookingClash(o, s)
    PROVE  Sale!Free(o, s)
BY Mapped DEF Sale!Free, BookingClash, Clash

\* A change of one order, seen through the mapping, changes that order alone.
LEMMA MappedUpdate ==
    ASSUME NEW o \in Orders,
           \A p \in Orders \ {o} : order'[p] = order[p] /\ booking'[p] = booking[p]
    PROVE  /\ SaleMoney' = [SaleMoney EXCEPT ![o] = SaleMoney'[o]]
           /\ SaleSeat' = [SaleSeat EXCEPT ![o] = SaleSeat'[o]]
<1>1. \A p \in Orders \ {o} : SaleMoney'[p] = SaleMoney[p] /\ SaleSeat'[p] = SaleSeat[p]
  BY MappedAlike
<1>2. /\ DOMAIN SaleMoney = Orders /\ DOMAIN SaleMoney' = Orders
      /\ DOMAIN SaleSeat = Orders /\ DOMAIN SaleSeat' = Orders
  BY DEF SaleMoney, SaleSeat
<1>3. /\ SaleMoney = [p \in Orders |-> SaleMoney[p]] /\ SaleMoney' = [p \in Orders |-> SaleMoney'[p]]
      /\ SaleSeat = [p \in Orders |-> SaleSeat[p]] /\ SaleSeat' = [p \in Orders |-> SaleSeat'[p]]
  BY DEF SaleMoney, SaleSeat
<1> QED BY <1>1, <1>2, <1>3

\* The times that have begun are the same while no phase changes.
LEMMA PastAlike ==
    ASSUME UNCHANGED phase
    PROVE  SalePast' = SalePast
BY DEF SalePast

\* Selling is Sell.
LEMMA SellsRefines ==
    ASSUME TypeOK, TypeOK', UnsettledWaits, NEW o \in Orders, Sells(o)
    PROVE  Sale!Sell(o)
<1> USE DEF TypeOK, TablesOK, OrderRowsOK
<1>1. SaleMoney[o] = "unpaid" /\ SaleSeat[o] = "waiting"
  BY Mapped DEF Sells, UnsettledWaits
<1>2. /\ order'[o] = "paid" /\ \A p \in Orders \ {o} : order'[p] = order[p]
      /\ SaleMoney'[o] = "paid"
  BY DEF Sells, SaleMoney, Kept
<1>3. CASE UNCHANGED booking
  <2>1. SaleMoney' = [SaleMoney EXCEPT ![o] = "paid"]
    BY <1>2, <1>3, MappedUpdate
  <2>2. SaleSeat' = SaleSeat
    BY <1>3 DEF SaleSeat, Timed
  <2> QED BY <1>1, <2>1, <2>2, PastAlike DEF Sale!Sell, Sells
<1>4. CASE GivesTime(o)
  <2>1. PICK s \in Slots : /\ ~BookingClash(o, s)
                           /\ booking'[o].slot = s /\ booking'[o].status = "scheduled"
                           /\ \A p \in Orders \ {o} : booking'[p] = booking[p]
    BY <1>4 DEF GivesTime, Schedule
  <2>2. SaleSeat'[o] = s
    BY <2>1 DEF SaleSeat, Timed
  <2>3. /\ SaleMoney' = [SaleMoney EXCEPT ![o] = "paid"]
        /\ SaleSeat' = [SaleSeat EXCEPT ![o] = s]
    BY <1>2, <2>1, <2>2, MappedUpdate
  <2> QED BY <1>1, <2>1, <2>3, FreeWhenNoClash, PastAlike DEF Sale!Sell, Sells
<1> QED BY <1>3, <1>4 DEF Sells

\* Giving a waiting booking a time is GiveSeat, losing it is LoseSeat.
LEMMA SeatsRefines ==
    ASSUME TypeOK, TypeOK', NEW o \in Orders, Seats(o) \/ Returns(o)
    PROVE  Sale!GiveSeat(o) \/ Sale!LoseSeat(o)
<1> USE DEF TypeOK, TablesOK, OrderRowsOK
<1>1. SaleMoney' = SaleMoney /\ SalePast' = SalePast
  BY PastAlike DEF Seats, Returns, SaleMoney, Kept
<1>2. CASE Seats(o)
  <2>1. SaleMoney[o] = "paid" /\ SaleSeat[o] = "waiting"
    BY <1>2, Mapped DEF Seats
  <2>2. PICK s \in Slots : /\ ~BookingClash(o, s)
                           /\ booking'[o].slot = s /\ booking'[o].status = "scheduled"
                           /\ \A p \in Orders \ {o} :
                                order'[p] = order[p] /\ booking'[p] = booking[p]
    BY <1>2 DEF Seats, GivesTime, Schedule
  <2>3. SaleSeat'[o] = s
    BY <2>2 DEF SaleSeat, Timed
  <2>4. SaleSeat' = [SaleSeat EXCEPT ![o] = s]
    BY <2>2, <2>3, MappedUpdate
  <2> QED BY <1>1, <2>1, <2>2, <2>4, FreeWhenNoClash DEF Sale!GiveSeat
<1>3. CASE Returns(o)
  <2>1. SaleSeat[o] \in Slots
    BY <1>3, Mapped DEF Returns, Timed
  <2>2. /\ booking'[o].status = "awaiting_schedule"
        /\ \A p \in Orders \ {o} : order'[p] = order[p] /\ booking'[p] = booking[p]
    BY <1>3 DEF Returns
  <2>3. SaleSeat'[o] = "waiting"
    BY <2>2 DEF SaleSeat, Timed
  <2>4. SaleSeat' = [SaleSeat EXCEPT ![o] = "waiting"]
    BY <2>2, <2>3, MappedUpdate
  <2> QED BY <1>1, <2>1, <2>4 DEF Sale!LoseSeat
<1> QED BY <1>2, <1>3

\* Calling off is CallOff, with the money Return; so is a refund of the rest.
LEMMA CallsOffRefines ==
    ASSUME TypeOK, TypeOK', NEW o \in Orders, CallsOff(o) \/ Refunds(o)
    PROVE  Sale!CallOff(o) \/ Sale!Return(o)
<1> USE DEF TypeOK, TablesOK, OrderRowsOK
<1>1. /\ SaleMoney[o] = "paid" /\ SalePast' = SalePast
      /\ \A p \in Orders \ {o} : order'[p] = order[p] /\ booking'[p] = booking[p]
  BY Mapped, PastAlike DEF CallsOff, Refunds
<1>2. \A s \in Slots : s \in SalePast <=> phase[s] = "started"
  BY DEF SalePast
<1>3. SalePast \subseteq Slots
  BY DEF SalePast
<1>4. CASE CallsOff(o)
  <2>1. SaleSeat[o] \in (Slots \ SalePast) \cup {"waiting"}
    <3>1. SaleSeat[o] \in Slots \cup {"waiting"}
      BY <1>4, Mapped DEF CallsOff, Timed
    <3>2. CASE SaleSeat[o] \in Slots
      <4>1. SaleSeat[o] = booking[o].slot /\ booking[o].slot \in Slots
        BY <3>2, Mapped
      <4>2. phase[booking[o].slot] # "started"
        BY <1>4, <4>1, NullAssumption DEF CallsOff, ToCome
      <4> QED BY <1>2, <3>2, <4>1, <4>2
    <3> QED BY <3>1, <3>2
  <2>2. booking'[o].status = "cancelled"
    BY <1>4 DEF CallsOff, BookingRow
  <2>3. SaleSeat'[o] = "over"
    BY <2>2 DEF SaleSeat, Timed
  <2>4. SaleSeat' = [SaleSeat EXCEPT ![o] = "over"]
    BY <1>1, <2>3, MappedUpdate
  <2>5. CASE UNCHANGED order
    <3>1. SaleMoney' = SaleMoney
      BY <2>5 DEF SaleMoney, Kept
    <3> QED BY <1>1, <2>1, <2>4, <3>1 DEF Sale!CallOff
  <2>6. CASE order' = [order EXCEPT ![o] = "refunded"]
    <3>1. SaleMoney'[o] = "returned"
      BY <2>6 DEF SaleMoney, Kept
    <3>2. SaleMoney' = [SaleMoney EXCEPT ![o] = "returned"]
      BY <1>1, <3>1, MappedUpdate
    <3>3. SaleSeat[o] \notin SalePast
      BY <1>3, <2>1, SeatAssumption
    <3> QED BY <1>1, <2>4, <3>2, <3>3 DEF Sale!Return
  <2> QED BY <1>4, <2>5, <2>6 DEF CallsOff
<1>5. CASE Refunds(o)
  <2>1. order'[o] = "refunded" /\ UNCHANGED booking
    BY <1>5 DEF Refunds
  <2>2. SaleMoney'[o] = "returned"
    BY <2>1 DEF SaleMoney, Kept
  <2>3. SaleMoney' = [SaleMoney EXCEPT ![o] = "returned"]
    BY <1>1, <2>2, MappedUpdate
  <2>4. SaleSeat' = SaleSeat
    BY <2>1 DEF SaleSeat, Timed
  <2>5. CASE ToCome(o)
    <3>1. SaleSeat[o] = "over"
      BY <1>5, <2>5, Mapped DEF Refunds
    <3>2. SaleSeat = [SaleSeat EXCEPT ![o] = "over"]
      BY <3>1 DEF SaleSeat
    <3>3. SaleSeat[o] \notin SalePast
      BY <1>3, <3>1, SeatAssumption
    <3> QED BY <1>1, <2>3, <2>4, <3>2, <3>3 DEF Sale!Return
  <2>6. CASE ~ToCome(o)
    <3>1. /\ booking[o].slot # None /\ phase[booking[o].slot] = "started"
          /\ booking[o].status \in {"scheduled", "confirmed", "cancelled"}
      BY <1>5, <2>6 DEF ToCome, Refunds, Kept, BookingRow, BookingStatus
    <3>2. CASE Timed(o)
      <4>1. SaleSeat[o] \in SalePast
        BY <1>2, <3>1, <3>2, Mapped
      <4> QED BY <1>1, <2>3, <2>4, <4>1 DEF Sale!Return
    <3>3. CASE booking[o].status = "cancelled"
      <4>1. SaleSeat[o] = "over"
        BY <3>3, Mapped
      <4>2. SaleSeat = [SaleSeat EXCEPT ![o] = "over"]
        BY <4>1 DEF SaleSeat
      <4>3. SaleSeat[o] \notin SalePast
        BY <1>3, <4>1, SeatAssumption
      <4> QED BY <1>1, <2>3, <2>4, <4>2, <4>3 DEF Sale!Return
    <3> QED BY <3>1, <3>2, <3>3 DEF Timed
  <2> QED BY <2>5, <2>6
<1> QED BY <1>4, <1>5

\* The other moves are none.
LEMMA QuietMoves ==
    ASSUME TypeOK, TypeOK', NEW o \in Orders,
           Writes(o) \/ Fails(o) \/ Confirms(o) \/ RefundsPart(o)
    PROVE  UNCHANGED <<SaleMoney, SaleSeat, SalePast>>
<1> USE DEF TypeOK, TablesOK, OrderRowsOK
<1>1. /\ SalePast' = SalePast
      /\ \A p \in Orders \ {o} : order'[p] = order[p] /\ booking'[p] = booking[p]
  BY PastAlike DEF Writes, Fails, Confirms, RefundsPart
<1>2. SaleMoney'[o] = SaleMoney[o]
  BY DEF Writes, Fails, Confirms, RefundsPart, SaleMoney, Kept
<1>3. SaleSeat'[o] = SaleSeat[o]
  <2>1. CASE Writes(o)
    <3>1. booking'[o].status = "awaiting_schedule" /\ booking[o].status = "none"
      BY <2>1 DEF Writes, BookingRow
    <3> QED BY <3>1 DEF SaleSeat, Timed
  <2>2. CASE Confirms(o)
    <3>1. /\ booking'[o].status = "confirmed" /\ booking[o].status = "scheduled"
          /\ booking'[o].slot = booking[o].slot
      <4>1. PICK e \in Events :
               booking' = [booking EXCEPT ![o].status = "confirmed", ![o].event = e]
        BY <2>2 DEF Confirms
      <4>2. booking \in [Orders -> BookingRow] /\ booking[o].status = "scheduled"
        BY <2>2 DEF Confirms
      <4> QED BY ONLY <4>1, <4>2 DEF BookingRow
    <3> QED BY <3>1 DEF SaleSeat, Timed
  <2>3. CASE Fails(o) \/ RefundsPart(o)
    BY <2>3 DEF Fails, RefundsPart, SaleSeat, Timed
  <2> QED BY <2>1, <2>2, <2>3
<1>4. /\ SaleMoney = [SaleMoney EXCEPT ![o] = SaleMoney[o]]
      /\ SaleSeat = [SaleSeat EXCEPT ![o] = SaleSeat[o]]
  <2>1. /\ SaleMoney = [p \in Orders |-> SaleMoney[p]]
        /\ SaleSeat = [p \in Orders |-> SaleSeat[p]]
    BY DEF SaleMoney, SaleSeat
  <2> QED BY ONLY <2>1
<1>5. /\ SaleMoney' = [SaleMoney EXCEPT ![o] = SaleMoney'[o]]
      /\ SaleSeat' = [SaleSeat EXCEPT ![o] = SaleSeat'[o]]
  BY <1>1, MappedUpdate
<1> QED BY <1>1, <1>2, <1>3, <1>4, <1>5

\* Time passing is a time beginning, or nothing yet.
LEMMA TimeRefines ==
    ASSUME TypeOK, NEW s \in Slots, TimePasses(s)
    PROVE  Sale!TimeBegins \/ UNCHANGED <<SaleMoney, SaleSeat, SalePast>>
<1> USE DEF TypeOK, TablesOK
<1>1. SaleMoney' = SaleMoney /\ SaleSeat' = SaleSeat
  BY DEF TimePasses, tables, SaleMoney, SaleSeat, Kept, Timed
<1>2. phase[s] # "started" /\ \A t \in Slots \ {s} : phase'[t] = phase[t]
  BY DEF TimePasses
<1>3. CASE phase'[s] = "started"
  <2>1. s \in Slots \ SalePast /\ SalePast' = SalePast \cup {s}
    BY <1>2, <1>3 DEF SalePast
  <2> QED BY <1>1, <2>1 DEF Sale!TimeBegins
<1>4. CASE phase'[s] # "started"
  <2>1. SalePast' = SalePast
    BY <1>2, <1>4 DEF SalePast
  <2> QED BY <1>1, <2>1
<1> QED BY <1>3, <1>4

\* The system is an implementation of SlotSale: a seat is given only for money,
\* only while no other order has one overlapping it and one at a time; money
\* that came in stays or is returned; and an order whose money is returned
\* keeps no seat still to come.
THEOREM PromiseKept == Spec => KeepsThePromise
<1>1. Init => Sale!Init
  <2> SUFFICES ASSUME Init PROVE Sale!Init
    OBVIOUS
  <2>1. /\ \A o \in Orders : order[o] = "none" /\ booking[o].status = "none"
        /\ \A s \in Slots : phase[s] = "open"
    BY DEF Init, TablesInit, NoBooking
  <2>2. SaleMoney = [o \in Orders |-> "unpaid"] /\ SaleSeat = [o \in Orders |-> "waiting"]
    BY <2>1 DEF SaleMoney, SaleSeat, Kept, Timed
  <2>3. SalePast = {}
    BY <2>1 DEF SalePast
  <2> QED BY <2>2, <2>3 DEF Sale!Init
<1>2. TypeOK /\ TypeOK' /\ UnsettledWaits /\ [Next]_vars => [Sale!Next]_(Sale!saleVars)
  <2> SUFFICES ASSUME TypeOK, TypeOK', UnsettledWaits, SaleMove
               PROVE  Sale!Next \/ UNCHANGED <<SaleMoney, SaleSeat, SalePast>>
    BY StepMoves DEF Sale!saleVars
  <2>1. CASE UNCHANGED <<order, booking, phase>>
    BY <2>1 DEF SaleMoney, SaleSeat, SalePast, Kept, Timed
  <2>2. ASSUME NEW s \in Slots, TimePasses(s)
        PROVE  Sale!Next \/ UNCHANGED <<SaleMoney, SaleSeat, SalePast>>
    BY <2>2, TimeRefines DEF Sale!Next
  <2>3. ASSUME NEW o \in Orders,
               Sells(o) \/ Seats(o) \/ Returns(o) \/ CallsOff(o) \/ Refunds(o)
        PROVE  Sale!Next
    BY <2>3, SellsRefines, SeatsRefines, CallsOffRefines DEF Sale!Next
  <2>4. ASSUME NEW o \in Orders,
               Writes(o) \/ Fails(o) \/ Confirms(o) \/ RefundsPart(o)
        PROVE  UNCHANGED <<SaleMoney, SaleSeat, SalePast>>
    BY <2>4, QuietMoves
  <2> QED BY <2>1, <2>2, <2>3, <2>4 DEF SaleMove
<1> QED BY <1>1, <1>2, TypeCorrect, UnsettledWaitsAlways, PTL
        DEF Spec, KeepsThePromise, Sale!Spec

(***************************************************************************)
(* A scheduled time is off sale.                                           *)
(***************************************************************************)

\* An order's converted holds are left as they are, but for what they carry.
KeepsConverted(o) ==
    \A h \in Holds : hold[h].status = "converted" /\ hold[h].order = o =>
        /\ hold'[h].status = "converted" /\ hold'[h].order = o
        /\ hold'[h].slot = hold[h].slot

Backed(o) == booking[o].status = "scheduled" => ConvertedHolds(o, booking[o].slot) # {}

\* A booking left as it is stays backed by holds left as they are.
LEMMA StaysBacked ==
    ASSUME NEW o \in Orders, Backed(o), KeepsConverted(o), booking'[o] = booking[o]
    PROVE  Backed(o)'
BY DEF Backed, KeepsConverted, ConvertedHolds

\* A checkout request touches no converted hold.
LEMMA CheckoutKeeps ==
    ASSUME TypeOK, NEW o \in Orders, CheckoutStep(o), NEW q \in Orders
    PROVE  KeepsConverted(q)
<1> USE DEF TypeOK, TablesOK
<1>1. CASE HoldSlot(o)
  <2>1. PICK h \in Holds : \E r :
           /\ hold[h].status = "none"
           /\ hold' = [Released(EarlierHolds(o)) EXCEPT ![h] = r]
    BY <1>1 DEF HoldSlot, FreshHold
  <2>2. \A k \in Holds : hold[k].status = "converted" =>
             k # h /\ k \notin EarlierHolds(o) /\ hold'[k] = Released(EarlierHolds(o))[k]
    BY <2>1, ReleasedRows DEF EarlierHolds
  <2> QED BY <2>2, ReleasedRows DEF KeepsConverted
<1>2. CASE PersistOrder(o) \/ AttachEvent(o)
  <2>1. /\ hold[checkout[o].hold].status = "held"
        /\ \E r : hold' = [hold EXCEPT ![checkout[o].hold] = r]
    BY <1>2 DEF PersistOrder, AttachEvent
  <2> QED BY <2>1 DEF KeepsConverted, HoldRowsOK
<1>3. CASE ReleaseQuietly(o)
  <2> DEFINE hs == {checkout[o].hold} \cap {h \in Holds : hold[h].status = "held"}
  <2>1. hold' = Released(hs) \/ UNCHANGED hold
    BY <1>3 DEF ReleaseQuietly
  <2>2. \A h \in hs : hold[h].status = "held"
    OBVIOUS
  <2> HIDE DEF hs
  <2> QED BY <2>1, <2>2, ReleasedRows DEF KeepsConverted
<1>4. CASE ~(HoldSlot(o) \/ PersistOrder(o) \/ AttachEvent(o) \/ ReleaseQuietly(o))
  <2>1. UNCHANGED hold
    BY <1>4 DEF CheckoutStep, PostTentative, CalendarRefuses, CalendarUnreachable,
       CalendarAnswerLost, DropOrphan, HoldNoLongerLive, StartSession, LinkSession,
       CheckoutFails, CheckoutCrashes, EndCheckout, tableVars
  <2> QED BY <2>1 DEF KeepsConverted
<1> QED BY <1>1, <1>2, <1>3, <1>4

\* Book backs the time it gives, and touches no other order's holds.
LEMMA BookBacks ==
    ASSUME TypeOK, NEW o \in Orders, NEW s \in Slots, NEW e, NEW h \in Holds, NEW r \in HoldRow,
           hold[h].status \in {"none", "held"},
           r.status = "converted", r.slot = s, r.order = o,
           Book(o, s, e, [hold EXCEPT ![h] = r])
    PROVE  /\ \A q \in Orders \ {o} : KeepsConverted(q) /\ booking'[q] = booking[q]
           /\ booking' = booking \/ Backed(o)'
<1> USE DEF TypeOK, TablesOK
<1> DEFINE claimed == [hold EXCEPT ![h] = r]
<1>1. /\ claimed[h] = r /\ \A k \in Holds \ {h} : claimed[k] = hold[k]
  BY DEF HoldRowsOK
<1>2. CASE BookingClash(o, s)
  <2>1. /\ booking' = booking
        /\ \A k \in Holds : claimed[k].order # o => hold'[k] = claimed[k]
    BY <1>2 DEF Book
  <2> HIDE DEF claimed
  <2> QED BY <1>1, <2>1 DEF KeepsConverted
<1>3. CASE ~BookingClash(o, s)
  <2>1. hold' = claimed /\ Schedule(o, s, e)
    BY <1>3 DEF Book
  <2> HIDE DEF claimed
  <2>2. \A q \in Orders \ {o} : KeepsConverted(q) /\ booking'[q] = booking[q]
    BY <1>1, <2>1 DEF KeepsConverted, Schedule, OrderRowsOK
  <2>3. booking'[o].slot = s
    BY <2>1 DEF Schedule, OrderRowsOK
  <2>4. h \in ConvertedHolds(o, s)'
    BY <1>1, <2>1 DEF ConvertedHolds
  <2> QED BY <2>2, <2>3, <2>4 DEF Backed, ConvertedHolds
<1> QED BY <1>2, <1>3

\* Settlement backs the time it gives.
LEMMA SettlementBacks ==
    ASSUME TypeOK, UnsettledWaits, ScheduledIsBacked, NEW o \in Orders, SettlementStep(o),
           NEW q \in Orders
    PROVE  Backed(q)'
<1> USE DEF TypeOK, TablesOK
<1> DEFINE p == PaidHold(o)
<1>1. /\ session[o] # "none" /\ p \in Holds
      /\ booking[o].status = "awaiting_schedule" /\ \A b \in Orders : Backed(b)
  BY DEF SettlementStep, SettleOnHold, SettleOnRetakenTime, SettleWithoutTime, Paid, MaySettle,
         MayFail, ReleaseFailedOrder, CheckoutTypeOK, PaidHold, UnsettledWaits,
         ScheduledIsBacked, Backed
<1>2. ASSUME NEW s \in Slots, NEW e, NEW h \in Holds, NEW r \in HoldRow,
             hold[h].status \in {"none", "held"},
             r.status = "converted", r.slot = s, r.order = o,
             Book(o, s, e, [hold EXCEPT ![h] = r])
      PROVE  Backed(q)'
  <2>1. /\ \A b \in Orders \ {o} : KeepsConverted(b) /\ booking'[b] = booking[b]
        /\ booking' = booking \/ Backed(o)'
    BY <1>2, BookBacks
  <2>2. CASE q # o
    BY <1>1, <2>1, <2>2, StaysBacked
  <2>3. CASE q = o
    BY <1>1, <2>1, <2>3 DEF Backed
  <2> QED BY <2>2, <2>3
<1>3. CASE SettleOnHold(o)
  <2> DEFINE r == [hold[p] EXCEPT !.status = "converted"]
  <2>1. /\ hold[p].status = "held" /\ hold[p].slot \in Slots
        /\ r \in HoldRow /\ r.status = "converted" /\ r.slot = hold[p].slot /\ r.order = o
    BY <1>1, <1>3 DEF SettleOnHold, MayConvert, HoldRowsOK, HoldRow, HoldStatus
  <2>2. Book(o, hold[p].slot, hold[p].event, [hold EXCEPT ![p] = r])
    BY <1>3 DEF SettleOnHold
  <2> HIDE DEF r, p
  <2> QED BY <1>1, <1>2, <2>1, <2>2
<1>4. CASE SettleOnRetakenTime(o)
  <2> DEFINE s == hold[p].slot
             r == [NoHold EXCEPT !.status = "converted", !.slot = s, !.order = o,
                                 !.lapsed = TRUE]
  <2>1. s \in Slots
    BY <1>1, <1>4 DEF SettleOnRetakenTime, MayRetake, HoldRowsOK
  <2>2. r \in HoldRow /\ r.status = "converted" /\ r.slot = s /\ r.order = o
    BY <2>1 DEF NoHold, HoldRow, HoldStatus
  <2>3. PICK h \in Holds : hold[h].status = "none" /\ Book(o, s, None, [hold EXCEPT ![h] = r])
    BY <1>4 DEF SettleOnRetakenTime, FreshHold
  <2> HIDE DEF r, s
  <2> QED BY <1>2, <2>1, <2>2, <2>3
<1>5. CASE SettleWithoutTime(o)
  <2>1. UNCHANGED <<booking, hold>>
    BY <1>5 DEF SettleWithoutTime
  <2> QED BY <1>1, <2>1, StaysBacked DEF KeepsConverted
<1>6. CASE ReleaseFailedOrder(o)
  <2>1. UNCHANGED booking /\ \E hs : hold' = Released(hs) /\ \A h \in hs : hold[h].status = "held"
    BY <1>6 DEF ReleaseFailedOrder
  <2>2. KeepsConverted(q)
    BY <2>1, ReleasedRows DEF KeepsConverted
  <2> QED BY <1>1, <2>1, <2>2, StaysBacked
<1> QED BY <1>3, <1>4, <1>5, <1>6 DEF SettlementStep

\* Choosing a time backs it; calling off and refunding leave the others backed.
LEMMA AfterSaleBacks ==
    ASSUME TypeOK, ScheduledIsBacked, NEW o \in Orders,
           ChooseTime(o) \/ CancelBooking(o) \/ RefundInFull(o) \/ RefundInPart(o),
           NEW q \in Orders
    PROVE  Backed(q)'
<1> USE DEF TypeOK, TablesOK
<1>1. \A b \in Orders : Backed(b)
  BY DEF ScheduledIsBacked, Backed
<1>2. CASE ChooseTime(o)
  <2>1. PICK s \in Slots, h \in Holds :
           /\ hold[h].status = "none"
           /\ hold' = [hold EXCEPT ![h] = [NoHold EXCEPT
                 !.status = "converted", !.slot = s, !.order = o, !.lapsed = TRUE]]
           /\ Schedule(o, s, None)
    BY <1>2 DEF ChooseTime, FreshHold
  <2>2. /\ hold'[h].status = "converted" /\ hold'[h].slot = s /\ hold'[h].order = o
        /\ \A k \in Holds \ {h} : hold'[k] = hold[k]
    BY <2>1 DEF NoHold, HoldRowsOK
  <2>3. booking'[o].slot = s /\ \A b \in Orders \ {o} : booking'[b] = booking[b]
    BY <2>1 DEF Schedule, OrderRowsOK
  <2>4. CASE q = o
    <3>1. h \in ConvertedHolds(o, s)'
      BY <2>2 DEF ConvertedHolds
    <3> QED BY <2>3, <2>4, <3>1 DEF Backed, ConvertedHolds
  <2>5. CASE q # o
    <3>1. KeepsConverted(q)
      BY <2>1, <2>2 DEF KeepsConverted
    <3> QED BY <1>1, <2>3, <2>5, <3>1, StaysBacked
  <2> QED BY <2>4, <2>5
<1>3. CASE CancelOpenBooking(o)
  <2> DEFINE b == booking[o]
             backing == ConvertedHolds(o, b.slot)
  <2>1. /\ booking'[o].status = "cancelled"
        /\ \A p \in Orders \ {o} : booking'[p] = booking[p]
    BY <1>3 DEF CancelOpenBooking, OrderRowsOK, BookingRow
  <2>2. ASSUME q # o
        PROVE  KeepsConverted(q)
    <3>1. CASE backing = {} /\ b.event # None
      <4>1. PICK h \in Holds : \E r : hold[h].status = "none" /\ hold' = [hold EXCEPT ![h] = r]
        BY <1>3, <3>1 DEF CancelOpenBooking, FreshHold
      <4> QED BY <4>1 DEF KeepsConverted, HoldRowsOK
    <3>2. CASE ~(backing = {} /\ b.event # None)
      <4>1. \A h \in Holds : h \notin backing => hold'[h] = hold[h]
        BY <1>3, <3>2 DEF CancelOpenBooking
      <4>2. \A h \in backing : hold[h].order = o
        BY DEF ConvertedHolds
      <4> HIDE DEF backing
      <4> QED BY <2>2, <4>1, <4>2 DEF KeepsConverted
    <3> QED BY <3>1, <3>2
  <2>3. CASE q = o
    BY <2>1, <2>3 DEF Backed
  <2>4. CASE q # o
    BY <1>1, <2>1, <2>2, <2>4, StaysBacked
  <2> QED BY <2>3, <2>4
<1>4. CASE ~ChooseTime(o) /\ ~CancelOpenBooking(o)
  <2>1. UNCHANGED <<booking, hold>>
    BY <1>4 DEF CancelBooking, RefundInFull, RefundInPart
  <2> QED BY <1>1, <2>1, StaysBacked DEF KeepsConverted
<1> QED BY <1>2, <1>3, <1>4

\* A confirmer gives a backing hold back only with the booking it backs.
LEMMA ConfirmationBacks ==
    ASSUME TypeOK, ScheduledIsBacked, NEW w \in Workers, ConfirmationStep(w), NEW q \in Orders
    PROVE  Backed(q)'
<1> USE DEF TypeOK, TablesOK
<1>1. \A b \in Orders : Backed(b)
  BY DEF ScheduledIsBacked, Backed
<1> DEFINE o == worker[w].order
<1>2. CASE Attach(w)
  <2> DEFINE open == {h \in ConvertedHolds(o, worker[w].slot) : hold[h].event = None}
  <2>1. /\ UNCHANGED booking
        /\ hold' = [h \in Holds |-> IF h \in open
                                    THEN [hold[h] EXCEPT !.event = worker[w].event]
                                    ELSE hold[h]]
    BY <1>2 DEF Attach
  <2>2. ASSUME NEW h \in Holds
        PROVE  /\ [hold[h] EXCEPT !.event = worker[w].event].status = hold[h].status
               /\ [hold[h] EXCEPT !.event = worker[w].event].order = hold[h].order
               /\ [hold[h] EXCEPT !.event = worker[w].event].slot = hold[h].slot
    BY DEF HoldRowsOK, HoldRow
  <2> HIDE DEF open
  <2>3. KeepsConverted(q)
    BY <2>1, <2>2 DEF KeepsConverted
  <2> QED BY <1>1, <2>1, <2>3, StaysBacked
<1>3. CASE Record(w)
  <2>1. o \in Orders /\ worker[w].event \in Events
    BY <1>3 DEF Record, ConfirmationTypeOK
  <2>2. /\ UNCHANGED hold
        /\ booking'[o].status = "confirmed"
        /\ \A b \in Orders \ {o} : booking'[b] = booking[b]
    BY <1>3, <2>1 DEF Record, OrderRowsOK, BookingRow
  <2>3. CASE q = o
    BY <2>2, <2>3 DEF Backed
  <2>4. CASE q # o
    BY <1>1, <2>2, <2>4, StaysBacked DEF KeepsConverted
  <2> QED BY <2>3, <2>4
<1>4. CASE ReturnToWaiting(w)
  <2>1. o \in Orders
    BY <1>4 DEF ReturnToWaiting, ConfirmationTypeOK
  <2>2. /\ hold' = Released(ConvertedHolds(o, worker[w].slot))
        /\ booking'[o].status # "scheduled"
        /\ \A b \in Orders \ {o} : booking'[b] = booking[b]
    BY <1>4, <2>1 DEF ReturnToWaiting, OrderRowsOK, BookingRow
  <2>3. CASE q = o
    BY <2>2, <2>3 DEF Backed
  <2>4. CASE q # o
    <3>1. \A h \in ConvertedHolds(o, worker[w].slot) : hold[h].order # q
      BY <2>4 DEF ConvertedHolds
    <3>2. KeepsConverted(q)
      BY <2>2, <3>1, ReleasedRows DEF KeepsConverted
    <3> QED BY <1>1, <2>2, <2>4, <3>2, StaysBacked
  <2> QED BY <2>3, <2>4
<1>5. CASE ~Attach(w) /\ ~Record(w) /\ ~ReturnToWaiting(w)
  <2>1. UNCHANGED <<booking, hold>>
    BY <1>5 DEF ConfirmationStep, Begin, Check, Post, PostAnswerLost, Promote,
       PromoteWithoutLink, EventIsGone, RecordFindsItChanged, Cleanup, CalendarFails,
       WorkerCrashes, tableVars, tables
  <2> QED BY <1>1, <2>1, StaysBacked DEF KeepsConverted
<1> QED BY <1>2, <1>3, <1>4, <1>5

\* The countdown and the sweep reach no converted hold.
LEMMA HoldStepKeeps ==
    ASSUME TypeOK, NEW h \in Holds, HoldStep(h), NEW q \in Orders
    PROVE  KeepsConverted(q)
<1> USE DEF TypeOK, TablesOK
<1>1. CASE DeleteReleasedEvent(h)
  BY <1>1 DEF DeleteReleasedEvent, tables, KeepsConverted
<1>2. CASE ~DeleteReleasedEvent(h)
  <2>1. /\ hold[h].status # "converted"
        /\ \E r : hold' = [hold EXCEPT ![h] = r]
    BY <1>2 DEF HoldStep, LapseHold, ClaimExpiredHold, MarkCalendarReleased, AwaitsCalendarRelease
  <2> QED BY <2>1 DEF KeepsConverted, HoldRowsOK
<1> QED BY <1>1, <1>2

\* A paid time waiting for the calendar is off sale, whatever else settles,
\* sweeps, cancels, crashes or confirms, as long as nobody writes a time into
\* the database by hand (which the code only defends against, PlacedByHand).
THEOREM ScheduledTimesAreBacked ==
    ASSUME "by_hand" \notin Env
    PROVE  Spec => []ScheduledIsBacked
<1>1. Init => ScheduledIsBacked
  BY DEF Init, TablesInit, NoBooking, ScheduledIsBacked
<1>2. TypeOK /\ UnsettledWaits /\ ScheduledIsBacked /\ [Next]_vars => ScheduledIsBacked'
  <2> SUFFICES ASSUME TypeOK, UnsettledWaits, ScheduledIsBacked, [Next]_vars, NEW q \in Orders
               PROVE  Backed(q)'
    BY DEF ScheduledIsBacked, Backed
  <2>1. Backed(q)
    BY DEF ScheduledIsBacked, Backed
  <2>2. CASE UNCHANGED <<booking, hold>>
    BY <2>1, <2>2, StaysBacked DEF KeepsConverted
  <2>3. ASSUME NEW o \in Orders, OrderStep(o)
        PROVE  Backed(q)'
    <3>1. CASE CheckoutStep(o)
      <4>1. CASE PersistOrder(o) /\ q = o
        <5>1. booking'[o].status = "awaiting_schedule"
          BY <4>1 DEF PersistOrder, TypeOK, TablesOK, OrderRowsOK, BookingRow
        <5> QED BY <4>1, <5>1 DEF Backed
      <4>2. CASE ~(PersistOrder(o) /\ q = o)
        <5>1. booking'[q] = booking[q]
          <6>1. CASE PersistOrder(o)
            BY <4>2, <6>1 DEF PersistOrder
          <6>2. CASE ~PersistOrder(o)
            BY <3>1, <6>2 DEF CheckoutStep, HoldSlot, PostTentative, CalendarRefuses,
               CalendarUnreachable, CalendarAnswerLost, AttachEvent, DropOrphan,
               HoldNoLongerLive, StartSession, LinkSession, CheckoutFails, ReleaseQuietly,
               CheckoutCrashes, EndCheckout, tableVars
          <6> QED BY <6>1, <6>2
        <5> QED BY <2>1, <3>1, <5>1, CheckoutKeeps, StaysBacked
      <4> QED BY <4>1, <4>2
    <3>2. CASE StripeMoves(o)
      BY <2>2, <3>2 DEF StripeMoves, tableVars
    <3>3. CASE SettlementStep(o)
      BY <3>3, SettlementBacks
    <3> QED BY <2>3, <3>1, <3>2, <3>3, AfterSaleBacks DEF OrderStep, PlaceByHand
  <2>4. ASSUME NEW h \in Holds, HoldStep(h)
        PROVE  Backed(q)'
    <3>1. UNCHANGED booking
      BY <2>4 DEF HoldStep, LapseHold, ClaimExpiredHold, DeleteReleasedEvent,
                  MarkCalendarReleased, tables
    <3> QED BY <2>1, <2>4, <3>1, HoldStepKeeps, StaysBacked
  <2>5. CASE WorldStep \/ UNCHANGED vars
    BY <2>2, <2>5 DEF WorldStep, TimePasses, CoachAdds, CoachDeletes, tables, vars, tableVars
  <2> QED BY <2>3, <2>4, <2>5, ConfirmationBacks DEF Next
<1> QED BY <1>1, <1>2, TypeCorrect, UnsettledWaitsAlways, PTL DEF Spec
=============================================================================
