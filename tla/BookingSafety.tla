---------------------------- MODULE BookingSafety ----------------------------
(***************************************************************************)
(* Proofs of the safety of the sale, for any number of orders, holds,      *)
(* events and confirmers, and whatever the world does:                     *)
(*   - no two live claims on overlapping times,                            *)
(*   - no two sessions at overlapping times,                               *)
(*   - no session with a time that is not paid for.                        *)
(*                                                                         *)
(* The first is about the holds alone: every step either claims nothing,   *)
(* or claims one time that no other live claim overlaps.  The others are   *)
(* about orders and bookings: SaleMove lists what any step can do to the   *)
(* two, with the condition the code found true, and the invariants follow  *)
(* from that list.                                                         *)
(***************************************************************************)
EXTENDS BookingTypes

(***************************************************************************)
(* The holds.                                                              *)
(***************************************************************************)

\* Nothing new is claimed, and what is still claimed is what it was.
ClaimsNothing ==
    \A k \in Holds : Blocking(k)' => Blocking(k) /\ hold'[k].slot = hold[k].slot

\* One row claims a time that no other live claim overlaps.
ClaimsFreely(h) ==
    \A k \in Holds \ {h} : Blocking(k)' =>
        /\ Blocking(k) /\ hold'[k].slot = hold[k].slot
        /\ ~Clash(hold'[k].slot, hold'[h].slot)

\* Giving holds back claims nothing.
LEMMA ReleaseClaims ==
    ASSUME HoldRowsOK, NEW hs, hold' = Released(hs)
    PROVE  ClaimsNothing
BY ReleasedRows DEF ClaimsNothing, Blocking

\* Nor does a write to one row that does not revive it or move it.
LEMMA WriteClaims ==
    ASSUME HoldRowsOK, NEW h \in Holds, NEW r \in HoldRow, hold' = [hold EXCEPT ![h] = r],
           r.status \in {"held", "converted"} => Blocking(h) /\ r.slot = hold[h].slot
    PROVE  ClaimsNothing
BY DEF HoldRowsOK, ClaimsNothing, Blocking

\* A checkout request claims a time in HoldSlot only, which looks first.
LEMMA CheckoutClaims ==
    ASSUME TypeOK, NEW o \in Orders, CheckoutStep(o)
    PROVE  ClaimsNothing \/ \E h \in Holds : ClaimsFreely(h)
<1> USE DEF TypeOK, TablesOK
<1>1. CASE HoldSlot(o)
  <2>1. PICK s \in Slots, h \in Holds :
           /\ ~\E k \in Holds \ EarlierHolds(o) : Blocking(k) /\ Clash(hold[k].slot, s)
           /\ hold' = [Released(EarlierHolds(o)) EXCEPT ![h] =
                 [NoHold EXCEPT !.status = "held", !.slot = s, !.owner = Owner[o]]]
    BY <1>1 DEF HoldSlot
  <2>2. hold'[h].slot = s
    BY <2>1, ReleasedRows DEF NoHold
  <2>3. ASSUME NEW k \in Holds \ {h}, Blocking(k)'
        PROVE  k \notin EarlierHolds(o) /\ Blocking(k) /\ hold'[k].slot = hold[k].slot
    BY <2>1, <2>3, ReleasedRows DEF Blocking
  <2>4. ClaimsFreely(h)
    BY <2>1, <2>2, <2>3 DEF ClaimsFreely
  <2> QED BY <2>4
<1>2. CASE PersistOrder(o) \/ AttachEvent(o)
  <2>1. checkout[o].hold \in Holds
    BY <1>2 DEF PersistOrder, AttachEvent, CheckoutTypeOK
  <2>2. PICK r : /\ hold' = [hold EXCEPT ![checkout[o].hold] = r]
                 /\ \/ r = [hold[checkout[o].hold] EXCEPT !.order = o]
                    \/ r = [hold[checkout[o].hold] EXCEPT !.event = checkout[o].event]
    BY <1>2 DEF PersistOrder, AttachEvent
  <2>3. r.status = hold[checkout[o].hold].status /\ r.slot = hold[checkout[o].hold].slot
    BY <2>1, <2>2 DEF HoldRowsOK, HoldRow
  <2>4. ClaimsNothing
    BY <2>1, <2>2, <2>3 DEF HoldRowsOK, ClaimsNothing, Blocking
  <2> QED BY <2>4
<1>3. CASE ReleaseQuietly(o)
  BY <1>3, ReleaseClaims DEF ReleaseQuietly, ClaimsNothing, Blocking
<1>4. CASE ~(HoldSlot(o) \/ PersistOrder(o) \/ AttachEvent(o) \/ ReleaseQuietly(o))
  <2>1. UNCHANGED hold
    BY <1>4 DEF CheckoutStep, PostTentative, CalendarRefuses, CalendarUnreachable,
       CalendarAnswerLost, DropOrphan, HoldNoLongerLive, StartSession, LinkSession,
       CheckoutFails, CheckoutCrashes, EndCheckout, tableVars
  <2> QED BY <2>1 DEF ClaimsNothing, Blocking
<1> QED BY <1>1, <1>2, <1>3, <1>4

\* What Book leaves of the holds after a claim: the claim, or one claim less.
LEMMA BookClaims ==
    ASSUME HoldRowsOK, NEW o \in Orders, NEW s, NEW e, NEW h \in Holds, NEW r \in HoldRow,
           r.slot \in Slots, r.status = "converted",
           Book(o, s, e, [hold EXCEPT ![h] = r])
    PROVE  /\ \A k \in Holds \ {h} : Blocking(k)' => Blocking(k) /\ hold'[k].slot = hold[k].slot
           /\ hold'[h].slot = r.slot
<1> DEFINE claimed == [hold EXCEPT ![h] = r]
<1>1. /\ claimed \in [Holds -> HoldRow] /\ claimed[h] = r
      /\ \A k \in Holds \ {h} : claimed[k] = hold[k]
  BY DEF HoldRowsOK
<1>2. ASSUME NEW k \in Holds
      PROVE  /\ [claimed[k] EXCEPT !.status = "released"].status = "released"
             /\ [claimed[k] EXCEPT !.status = "released"].slot = claimed[k].slot
  BY <1>1 DEF HoldRow
<1>3. \A k \in Holds : \/ hold'[k] = claimed[k]
                       \/ hold'[k].status = "released" /\ hold'[k].slot = claimed[k].slot
  BY <1>2 DEF Book
<1> HIDE DEF claimed
<1> QED BY <1>1, <1>3 DEF Blocking

\* A settlement converts a live claim, or takes a lapsed time again after
\* finding that nobody claims it.
LEMMA SettlementClaims ==
    ASSUME TypeOK, NEW o \in Orders, SettlementStep(o)
    PROVE  ClaimsNothing \/ \E h \in Holds : ClaimsFreely(h)
<1> USE DEF TypeOK, TablesOK
<1> DEFINE p == PaidHold(o)
<1>1. session[o] # "none" /\ p \in Holds
  BY DEF SettlementStep, SettleOnHold, SettleOnRetakenTime, SettleWithoutTime, Paid,
         ReleaseFailedOrder, CheckoutTypeOK, PaidHold
<1>2. CASE SettleOnHold(o)
  <2> DEFINE r == [hold[p] EXCEPT !.status = "converted"]
  <2>1. /\ hold[p].status = "held" /\ r \in HoldRow /\ r.status = "converted"
        /\ r.slot = hold[p].slot /\ r.slot \in Slots
    BY <1>1, <1>2 DEF SettleOnHold, MayConvert, HoldRowsOK, HoldRow, HoldStatus
  <2>2. Book(o, hold[p].slot, hold[p].event, [hold EXCEPT ![p] = r])
    BY <1>2 DEF SettleOnHold
  <2> HIDE DEF r, p
  <2>3. /\ \A k \in Holds \ {p} : Blocking(k)' => Blocking(k) /\ hold'[k].slot = hold[k].slot
        /\ hold'[p].slot = hold[p].slot
    BY <1>1, <2>1, <2>2, BookClaims
  <2> QED BY <2>1, <2>3 DEF ClaimsNothing, Blocking
<1>3. CASE SettleOnRetakenTime(o)
  <2> DEFINE s == hold[p].slot
             r == [NoHold EXCEPT !.status = "converted", !.slot = s, !.order = o,
                                 !.lapsed = TRUE]
  <2>1. s \in Slots /\ ~HoldClash(s)
    BY <1>1, <1>3 DEF SettleOnRetakenTime, MayRetake, HoldRowsOK, PaidHold
  <2>2. r \in HoldRow /\ r.status = "converted" /\ r.slot = s
    BY <2>1 DEF NoHold, HoldRow, HoldStatus
  <2>3. PICK h \in Holds : Book(o, s, None, [hold EXCEPT ![h] = r])
    BY <1>3 DEF SettleOnRetakenTime
  <2> HIDE DEF r, s
  <2>4. /\ \A k \in Holds \ {h} : Blocking(k)' => Blocking(k) /\ hold'[k].slot = hold[k].slot
        /\ hold'[h].slot = s
    BY <2>1, <2>2, <2>3, BookClaims
  <2>5. ClaimsFreely(h)
    BY <2>1, <2>4 DEF ClaimsFreely, HoldClash
  <2> QED BY <2>5
<1>4. CASE SettleWithoutTime(o)
  BY <1>4 DEF SettleWithoutTime, ClaimsNothing, Blocking
<1>5. CASE ReleaseFailedOrder(o)
  BY <1>5, ReleaseClaims DEF ReleaseFailedOrder
<1> QED BY <1>2, <1>3, <1>4, <1>5 DEF SettlementStep

\* After the sale, a time is claimed in ChooseTime only, which looks first.
LEMMA AfterSaleClaims ==
    ASSUME TypeOK, NEW o \in Orders,
           ChooseTime(o) \/ PlaceByHand(o) \/ CancelBooking(o) \/ RefundInFull(o) \/ RefundInPart(o)
    PROVE  ClaimsNothing \/ \E h \in Holds : ClaimsFreely(h)
<1> USE DEF TypeOK, TablesOK
<1>1. CASE ChooseTime(o)
  <2>1. PICK s \in Slots, h \in Holds :
           /\ ~HoldClash(s)
           /\ hold' = [hold EXCEPT ![h] = [NoHold EXCEPT
                 !.status = "converted", !.slot = s, !.order = o, !.lapsed = TRUE]]
    BY <1>1 DEF ChooseTime
  <2>2. hold'[h].slot = s /\ \A k \in Holds \ {h} : hold'[k] = hold[k]
    BY <2>1 DEF NoHold, HoldRowsOK
  <2>3. ClaimsFreely(h)
    BY <2>1, <2>2 DEF ClaimsFreely, Blocking, HoldClash
  <2> QED BY <2>3
<1>2. CASE CancelOpenBooking(o)
  <2> DEFINE b == booking[o]
             backing == ConvertedHolds(o, b.slot)
  <2>1. CASE backing = {} /\ b.event # None
    <3>1. PICK h \in Holds : hold' = [hold EXCEPT ![h] = [NoHold EXCEPT
               !.status = "released", !.slot = b.slot, !.order = o,
               !.event = b.event, !.lapsed = TRUE]]
      BY <1>2, <2>1 DEF CancelOpenBooking
    <3>2. hold'[h].status = "released" /\ \A k \in Holds \ {h} : hold'[k] = hold[k]
      BY <3>1 DEF NoHold, HoldRowsOK
    <3> QED BY <3>2 DEF ClaimsNothing, Blocking
  <2>2. CASE ~(backing = {} /\ b.event # None)
    <3> DEFINE row(h) == [hold[h] EXCEPT !.status = "released",
                                         !.event = IF @ = None THEN b.event ELSE @]
    <3>1. hold' = [h \in Holds |-> IF h \in backing THEN row(h) ELSE hold[h]]
      BY <1>2, <2>2 DEF CancelOpenBooking
    <3>2. \A h \in Holds : row(h).status = "released"
      BY DEF HoldRowsOK, HoldRow
    <3> HIDE DEF row, backing
    <3> QED BY <3>1, <3>2 DEF ClaimsNothing, Blocking
  <2> QED BY <2>1, <2>2
<1>3. CASE ~ChooseTime(o) /\ ~CancelOpenBooking(o)
  <2>1. UNCHANGED hold
    BY <1>3 DEF PlaceByHand, CancelBooking, RefundInFull, RefundInPart
  <2> QED BY <2>1 DEF ClaimsNothing, Blocking
<1> QED BY <1>1, <1>2, <1>3

\* The sweep, the countdown, the confirmers and the world claim nothing.
LEMMA OtherClaims ==
    ASSUME TypeOK,
           \/ \E h \in Holds : HoldStep(h)
           \/ \E w \in Workers : ConfirmationStep(w)
           \/ WorldStep
           \/ UNCHANGED hold
    PROVE  ClaimsNothing
<1> USE DEF TypeOK, TablesOK
<1>1. CASE UNCHANGED hold
  BY <1>1 DEF ClaimsNothing, Blocking
<1>2. ASSUME NEW h \in Holds, HoldStep(h)
      PROVE  ClaimsNothing
  <2>1. CASE DeleteReleasedEvent(h)
    BY <1>1, <2>1 DEF DeleteReleasedEvent, tables
  <2>2. CASE ~DeleteReleasedEvent(h)
    <3>1. PICK r : /\ hold' = [hold EXCEPT ![h] = r]
                   /\ \/ r = [hold[h] EXCEPT !.lapsed = TRUE]
                      \/ r = [hold[h] EXCEPT !.cleared = TRUE]
                      \/ r = [hold[h] EXCEPT !.status = "expired"]
      BY <1>2, <2>2 DEF HoldStep, LapseHold, ClaimExpiredHold, MarkCalendarReleased
    <3>2. r.slot = hold[h].slot /\ r.status \in {hold[h].status, "expired"}
      BY <3>1 DEF HoldRowsOK, HoldRow
    <3> QED BY <3>1, <3>2 DEF HoldRowsOK, ClaimsNothing, Blocking
  <2> QED BY <2>1, <2>2
<1>3. ASSUME NEW w \in Workers, ConfirmationStep(w)
      PROVE  ClaimsNothing
  <2>1. CASE Attach(w)
    <3> DEFINE open == {h \in ConvertedHolds(worker[w].order, worker[w].slot) :
                          hold[h].event = None}
    <3>1. hold' = [h \in Holds |-> IF h \in open
                                  THEN [hold[h] EXCEPT !.event = worker[w].event]
                                  ELSE hold[h]]
      BY <2>1 DEF Attach
    <3>2. ASSUME NEW h \in Holds
          PROVE  /\ [hold[h] EXCEPT !.event = worker[w].event].status = hold[h].status
                 /\ [hold[h] EXCEPT !.event = worker[w].event].slot = hold[h].slot
      BY DEF HoldRowsOK, HoldRow
    <3> HIDE DEF open
    <3> QED BY <3>1, <3>2 DEF ClaimsNothing, Blocking
  <2>2. CASE ReturnToWaiting(w)
    BY <2>2, ReleaseClaims DEF ReturnToWaiting
  <2>3. CASE ~Attach(w) /\ ~ReturnToWaiting(w)
    BY <1>1, <1>3, <2>3 DEF ConfirmationStep, Begin, Check, Post, PostAnswerLost, Promote,
       PromoteWithoutLink, EventIsGone, Record, RecordFindsItChanged, Cleanup, CalendarFails,
       WorkerCrashes, tableVars, tables
  <2> QED BY <2>1, <2>2, <2>3
<1>4. CASE WorldStep
  BY <1>1, <1>4 DEF WorldStep, TimePasses, CoachAdds, CoachDeletes, tables
<1> QED BY <1>1, <1>2, <1>3, <1>4

\* One step of anybody.
LEMMA StepClaims ==
    ASSUME TypeOK, [Next]_vars
    PROVE  ClaimsNothing \/ \E h \in Holds : ClaimsFreely(h)
<1>1. CASE UNCHANGED vars
  BY <1>1, OtherClaims DEF vars, tableVars
<1>2. ASSUME NEW o \in Orders, OrderStep(o)
      PROVE  ClaimsNothing \/ \E h \in Holds : ClaimsFreely(h)
  <2>1. CASE StripeMoves(o)
    BY <2>1, OtherClaims DEF StripeMoves, tableVars
  <2> QED BY <1>2, <2>1, CheckoutClaims, SettlementClaims, AfterSaleClaims DEF OrderStep
<1> QED BY <1>1, <1>2, OtherClaims DEF Next

\* Two live claims on overlapping times never exist, so the exclusion
\* constraint on slot_holds never refuses a settlement, whose money is already
\* in: the code looked before it wrote.
THEOREM HoldsNeverOverlap == Spec => []HoldsDoNotOverlap
<1>1. Init => HoldsDoNotOverlap
  BY DEF Init, TablesInit, NoHold, HoldsDoNotOverlap, Blocking
<1>2. TypeOK /\ TypeOK' /\ HoldsDoNotOverlap /\ [Next]_vars => HoldsDoNotOverlap'
  <2> SUFFICES ASSUME TypeOK, TypeOK', HoldsDoNotOverlap, [Next]_vars,
                      NEW h \in Holds, NEW k \in Holds, h # k,
                      Blocking(h)', Blocking(k)'
               PROVE  ~Clash(hold'[h].slot, hold'[k].slot)
    BY DEF HoldsDoNotOverlap, Clash
  <2>1. CASE ClaimsNothing
    BY <2>1 DEF ClaimsNothing, HoldsDoNotOverlap
  <2>2. ASSUME NEW g \in Holds, ClaimsFreely(g)
        PROVE  ~Clash(hold'[h].slot, hold'[k].slot)
    <3>1. hold'[h].slot \in Slots /\ hold'[k].slot \in Slots
      BY DEF TypeOK, TablesOK, HoldRowsOK, Blocking
    <3>2. CASE h # g /\ k # g
      BY <2>2, <3>2 DEF ClaimsFreely, HoldsDoNotOverlap
    <3>3. CASE h = g \/ k = g
      BY <2>2, <3>1, <3>3, OverlapAssumption DEF ClaimsFreely, Clash
    <3> QED BY <3>2, <3>3
  <2> QED BY <2>1, <2>2, StepClaims
<1> QED BY <1>1, <1>2, TypeCorrect, PTL DEF Spec

(***************************************************************************)
(* The orders and their bookings: what any step can do to them.            *)
(***************************************************************************)

\* The order and its waiting booking are written.
Writes(o) ==
    /\ order[o] = "none" /\ booking[o].status = "none"
    /\ order' = [order EXCEPT ![o] = "pending"]
    /\ booking' = [booking EXCEPT ![o].status = "awaiting_schedule"]
    /\ UNCHANGED phase

\* The booking is given a time that no other booking overlaps.
GivesTime(o) == \E s \in Slots, e \in Events \cup {None} : ~BookingClash(o, s) /\ Schedule(o, s, e)

\* The money comes in, with a time or without one.
Sells(o) ==
    /\ order[o] \in {"pending", "failed"}
    /\ order' = [order EXCEPT ![o] = "paid"]
    /\ UNCHANGED booking \/ GivesTime(o)
    /\ UNCHANGED phase

\* It does not.
Fails(o) ==
    /\ order[o] = "pending"
    /\ order' = [order EXCEPT ![o] = "failed"]
    /\ UNCHANGED <<booking, phase>>

\* A paid booking that waits is given a time.
Seats(o) ==
    /\ Kept(o) /\ booking[o].status = "awaiting_schedule"
    /\ GivesTime(o)
    /\ UNCHANGED <<order, phase>>

\* A scheduled one is confirmed for the time it has.
Confirms(o) ==
    /\ booking[o].status = "scheduled"
    /\ \E e \in Events :
         booking' = [booking EXCEPT ![o].status = "confirmed", ![o].event = e]
    /\ UNCHANGED <<order, phase>>

\* Or goes back to waiting.
Returns(o) ==
    /\ booking[o].status = "scheduled"
    /\ booking' = [booking EXCEPT ![o] = [status |-> "awaiting_schedule",
                                         slot |-> None, event |-> None]]
    /\ UNCHANGED <<order, phase>>

\* A session still to come is called off, for money returned now or later.
CallsOff(o) ==
    /\ Kept(o) /\ ToCome(o)
    /\ booking[o].status \in {"awaiting_schedule", "scheduled", "confirmed"}
    /\ booking' = [booking EXCEPT ![o].status = "cancelled"]
    /\ UNCHANGED order \/ order' = [order EXCEPT ![o] = "refunded"]
    /\ UNCHANGED phase

\* All the money goes back, and the booking was over or had begun.
Refunds(o) ==
    /\ Kept(o) /\ ~(ToCome(o) /\ booking[o].status # "cancelled")
    /\ order' = [order EXCEPT ![o] = "refunded"]
    /\ UNCHANGED <<booking, phase>>

\* Some of it does.
RefundsPart(o) ==
    /\ order[o] = "paid"
    /\ order' = [order EXCEPT ![o] = "partially_refunded"]
    /\ UNCHANGED <<booking, phase>>

SaleMove ==
    \/ UNCHANGED <<order, booking, phase>>
    \/ \E s \in Slots : TimePasses(s)
    \/ \E o \in Orders :
         \/ Writes(o) \/ Sells(o) \/ Fails(o) \/ Seats(o) \/ Confirms(o)
         \/ Returns(o) \/ CallsOff(o) \/ Refunds(o) \/ RefundsPart(o)

\* Settlement sells, with the time Book found free, or fails.
LEMMA SettlementMoves ==
    ASSUME TypeOK, NEW o \in Orders, SettlementStep(o)
    PROVE  Sells(o) \/ Fails(o)
<1> USE DEF TypeOK, TablesOK
<1> DEFINE p == PaidHold(o)
<1>1. session[o] # "none" /\ p \in Holds
  BY DEF SettlementStep, SettleOnHold, SettleOnRetakenTime, SettleWithoutTime, Paid,
         ReleaseFailedOrder, CheckoutTypeOK, PaidHold
<1>2. ASSUME NEW s \in Slots, NEW e \in Events \cup {None}, NEW claimed,
             Book(o, s, e, claimed), Paid(o)
      PROVE  Sells(o)
  BY <1>2 DEF Book, Paid, MaySettle, Sells, GivesTime
<1>3. CASE SettleOnHold(o)
  <2>1. hold[p].slot \in Slots /\ hold[p].event \in Events \cup {None}
    BY <1>1, <1>3 DEF SettleOnHold, MayConvert, HoldRowsOK, HoldRow
  <2> QED BY <1>2, <1>3, <2>1 DEF SettleOnHold
<1>4. CASE SettleOnRetakenTime(o)
  <2>1. hold[p].slot \in Slots
    BY <1>1, <1>4 DEF SettleOnRetakenTime, MayRetake, HoldRowsOK
  <2> QED BY <1>2, <1>4, <2>1 DEF SettleOnRetakenTime
<1>5. CASE SettleWithoutTime(o)
  BY <1>5 DEF SettleWithoutTime, Paid, MaySettle, Sells
<1>6. CASE ReleaseFailedOrder(o)
  BY <1>6 DEF ReleaseFailedOrder, MayFail, Fails
<1> QED BY <1>3, <1>4, <1>5, <1>6 DEF SettlementStep

\* A confirmer confirms the booking, returns it, or leaves it alone.
LEMMA ConfirmationMoves ==
    ASSUME TypeOK, NEW w \in Workers, ConfirmationStep(w)
    PROVE  SaleMove
<1> USE DEF TypeOK, TablesOK
<1>1. CASE Record(w)
  <2>1. worker[w].order \in Orders /\ worker[w].event \in Events
    BY <1>1 DEF Record, ConfirmationTypeOK
  <2>2. Confirms(worker[w].order)
    BY <1>1, <2>1 DEF Record, Confirms
  <2> QED BY <2>1, <2>2 DEF SaleMove
<1>2. CASE ReturnToWaiting(w)
  <2>1. worker[w].order \in Orders
    BY <1>2 DEF ReturnToWaiting, ConfirmationTypeOK
  <2>2. Returns(worker[w].order) \/ UNCHANGED <<order, booking, phase>>
    BY <1>2 DEF ReturnToWaiting, Returns
  <2> QED BY <2>1, <2>2 DEF SaleMove
<1>3. CASE ~Record(w) /\ ~ReturnToWaiting(w)
  <2>1. UNCHANGED <<order, booking, phase>>
    BY <1>3 DEF ConfirmationStep, Begin, Check, Post, PostAnswerLost, Attach, Promote,
       PromoteWithoutLink, EventIsGone, RecordFindsItChanged, Cleanup, CalendarFails,
       WorkerCrashes, tableVars, tables
  <2> QED BY <2>1 DEF SaleMove
<1> QED BY <1>1, <1>2, <1>3

\* An order's own steps.
LEMMA OrderMoves ==
    ASSUME TypeOK, NEW o \in Orders, OrderStep(o)
    PROVE  SaleMove
<1> USE DEF TypeOK, TablesOK
<1>1. CASE PersistOrder(o)
  <2>1. order[o] = "none" /\ booking[o].status = "none"
    BY <1>1 DEF PersistOrder, CheckoutTypeOK, OrderRowsOK
  <2>2. Writes(o)
    BY <1>1, <2>1 DEF PersistOrder, Writes
  <2> QED BY <2>2 DEF SaleMove
<1>2. CASE (CheckoutStep(o) /\ ~PersistOrder(o)) \/ StripeMoves(o)
  <2>1. UNCHANGED <<order, booking, phase>>
    BY <1>2 DEF CheckoutStep, HoldSlot, PostTentative, CalendarRefuses, CalendarUnreachable,
       CalendarAnswerLost, AttachEvent, DropOrphan, HoldNoLongerLive, StartSession, LinkSession,
       CheckoutFails, ReleaseQuietly, CheckoutCrashes, EndCheckout, StripeMoves, tableVars
  <2> QED BY <2>1 DEF SaleMove
<1>3. CASE SettlementStep(o)
  BY <1>3, SettlementMoves DEF SaleMove
<1>4. CASE ChooseTime(o) \/ PlaceByHand(o)
  <2>1. Seats(o)
    BY <1>4 DEF ChooseTime, PlaceByHand, Seats, GivesTime, Kept
  <2> QED BY <2>1 DEF SaleMove
<1>5. CASE CancelBooking(o)
  <2>1. CallsOff(o)
    BY <1>5 DEF CancelBooking, CancelOpenBooking, CallsOff
  <2> QED BY <2>1 DEF SaleMove
<1>6. CASE RefundInFull(o)
  <2>1. CallsOff(o) \/ Refunds(o)
    BY <1>6 DEF RefundInFull, CancelOpenBooking, CallsOff, Refunds
  <2> QED BY <2>1 DEF SaleMove
<1>7. CASE RefundInPart(o)
  <2>1. RefundsPart(o)
    BY <1>7 DEF RefundInPart, RefundsPart
  <2> QED BY <2>1 DEF SaleMove
<1> QED BY <1>1, <1>2, <1>3, <1>4, <1>5, <1>6, <1>7 DEF OrderStep

\* One step of anybody.
LEMMA StepMoves ==
    ASSUME TypeOK, [Next]_vars
    PROVE  SaleMove
<1>1. CASE UNCHANGED vars
  BY <1>1 DEF SaleMove, vars, tableVars
<1>2. ASSUME NEW h \in Holds, HoldStep(h)
      PROVE  SaleMove
  BY <1>2 DEF HoldStep, LapseHold, ClaimExpiredHold, DeleteReleasedEvent, MarkCalendarReleased,
              tables, SaleMove
<1>3. CASE WorldStep
  BY <1>3 DEF WorldStep, CoachAdds, CoachDeletes, tables, SaleMove
<1> QED BY <1>1, <1>2, <1>3, OrderMoves, ConfirmationMoves DEF Next

(***************************************************************************)
(* What follows for the bookings.                                          *)
(***************************************************************************)

\* A written booking changes no other: the moves that give no time.
KeepsTimes ==
    \A p \in Orders : Timed(p)' => Timed(p) /\ booking'[p].slot = booking[p].slot

\* Every move either gives no time, or gives one.
LEMMA MovesGiveTimes ==
    ASSUME TypeOK, SaleMove
    PROVE  KeepsTimes \/ \E o \in Orders : GivesTime(o)
<1> USE DEF TypeOK, TablesOK
<1>1. CASE UNCHANGED booking
  BY <1>1 DEF KeepsTimes, Timed
<1>2. ASSUME NEW o \in Orders,
             Writes(o) \/ Confirms(o) \/ Returns(o) \/ CallsOff(o)
      PROVE  KeepsTimes
  <2>1. /\ \A p \in Orders \ {o} : booking'[p] = booking[p]
        /\ Timed(o)' => Timed(o) /\ booking'[o].slot = booking[o].slot
    BY <1>2 DEF Writes, Confirms, Returns, CallsOff, OrderRowsOK, BookingRow, Timed
  <2> QED BY <2>1 DEF KeepsTimes, Timed
<1> QED BY <1>1, <1>2 DEF SaleMove, TimePasses, tables, Sells, Fails, Seats, Refunds, RefundsPart

\* Two customers never have overlapping sessions, and the exclusion constraint
\* on bookings never refuses a settlement: settlePaidOrder asks first, of the
\* bookings placed by hand too.
THEOREM BookingsNeverOverlap == Spec => []BookingsDoNotOverlap
<1>1. Init => BookingsDoNotOverlap
  BY DEF Init, TablesInit, NoBooking, BookingsDoNotOverlap, Timed
<1>2. TypeOK /\ TypeOK' /\ BookingsDoNotOverlap /\ [Next]_vars => BookingsDoNotOverlap'
  <2> SUFFICES ASSUME TypeOK, TypeOK', BookingsDoNotOverlap, [Next]_vars,
                      NEW o \in Orders, NEW p \in Orders, o # p, Timed(o)', Timed(p)'
               PROVE  ~Clash(booking'[o].slot, booking'[p].slot)
    BY DEF BookingsDoNotOverlap, Clash
  <2>1. CASE KeepsTimes
    BY <2>1 DEF KeepsTimes, BookingsDoNotOverlap
  <2>2. ASSUME NEW q \in Orders, GivesTime(q)
        PROVE  ~Clash(booking'[o].slot, booking'[p].slot)
    <3>1. PICK s \in Slots : /\ ~BookingClash(q, s) /\ booking'[q].slot = s
                             /\ \A r \in Orders \ {q} : booking'[r] = booking[r]
      BY <2>2 DEF GivesTime, Schedule, TypeOK, TablesOK, OrderRowsOK
    <3>2. booking'[o].slot \in Slots /\ booking'[p].slot \in Slots
      BY DEF TypeOK, TablesOK, OrderRowsOK
    <3>3. CASE o # q /\ p # q
      BY <3>1, <3>3 DEF BookingsDoNotOverlap, Timed
    <3>4. CASE o = q \/ p = q
      BY <3>1, <3>2, <3>4, OverlapAssumption DEF BookingClash, Clash, Timed
    <3> QED BY <3>3, <3>4
  <2> QED BY <2>1, <2>2, StepMoves, MovesGiveTimes
<1> QED BY <1>1, <1>2, TypeCorrect, PTL DEF Spec

\* Until its result is in, an order's booking waits: what makes the first
\* settlement of an order the only one that gives it a time.
UnsettledWaits ==
    \A o \in Orders : order[o] \in {"pending", "failed"} => booking[o].status = "awaiting_schedule"

\* It is inductive.
LEMMA UnsettledWaitsAlways == Spec => []UnsettledWaits
<1>1. Init => UnsettledWaits
  BY DEF Init, TablesInit, UnsettledWaits
<1>2. TypeOK /\ UnsettledWaits /\ [Next]_vars => UnsettledWaits'
  <2> SUFFICES ASSUME TypeOK, UnsettledWaits, SaleMove,
                      NEW o \in Orders, order'[o] \in {"pending", "failed"}
               PROVE  booking'[o].status = "awaiting_schedule"
    BY StepMoves DEF UnsettledWaits
  <2> USE DEF TypeOK, TablesOK, OrderRowsOK
  <2>1. CASE UNCHANGED <<order, booking>>
    BY <2>1 DEF UnsettledWaits
  <2>2. ASSUME NEW p \in Orders, Writes(p)
        PROVE  booking'[o].status = "awaiting_schedule"
    BY <2>2 DEF Writes, UnsettledWaits, BookingRow
  <2>3. ASSUME NEW p \in Orders, Sells(p) \/ Seats(p)
        PROVE  booking'[o].status = "awaiting_schedule"
    <3>1. o # p
      BY <2>3 DEF Sells, Seats, Kept
    <3>2. order'[o] = order[o] /\ booking'[o] = booking[o]
      BY <2>3, <3>1 DEF Sells, Seats, GivesTime, Schedule
    <3> QED BY <3>2 DEF UnsettledWaits
  <2>4. ASSUME NEW p \in Orders, Fails(p) \/ Refunds(p) \/ RefundsPart(p)
        PROVE  booking'[o].status = "awaiting_schedule"
    BY <2>4 DEF Fails, Refunds, RefundsPart, UnsettledWaits
  <2>5. ASSUME NEW p \in Orders, Confirms(p) \/ Returns(p) \/ CallsOff(p)
        PROVE  booking'[o].status = "awaiting_schedule"
    <3>1. o # p
      BY <2>5 DEF Confirms, Returns, CallsOff, Kept, UnsettledWaits
    <3>2. order'[o] = order[o] /\ booking'[o] = booking[o]
      BY <2>5, <3>1 DEF Confirms, Returns, CallsOff
    <3> QED BY <3>2 DEF UnsettledWaits
  <2> QED BY <2>1, <2>2, <2>3, <2>4, <2>5 DEF SaleMove, TimePasses, tables
<1> QED BY <1>1, <1>2, TypeCorrect, PTL DEF Spec

\* A session with a time has been paid for; one whose money all went back
\* keeps its time only because it had begun.
THEOREM NobodySitsUnpaid == Spec => []NoSessionUnpaid
<1>1. Init => NoSessionUnpaid
  BY DEF Init, TablesInit, NoBooking, NoSessionUnpaid, Timed
<1>2. TypeOK /\ UnsettledWaits /\ NoSessionUnpaid /\ [Next]_vars => NoSessionUnpaid'
  <2> SUFFICES ASSUME TypeOK, UnsettledWaits, NoSessionUnpaid, SaleMove,
                      NEW o \in Orders, Timed(o)'
               PROVE  \/ order'[o] \in {"paid", "partially_refunded"}
                      \/ order'[o] = "refunded" /\ phase'[booking'[o].slot] = "started"
    BY StepMoves DEF NoSessionUnpaid, Kept
  <2> USE DEF TypeOK, TablesOK, OrderRowsOK, Kept
  <2>1. CASE UNCHANGED <<order, booking, phase>>
    BY <2>1 DEF NoSessionUnpaid, Timed
  <2>2. ASSUME NEW s \in Slots, TimePasses(s)
        PROVE  \/ order'[o] \in {"paid", "partially_refunded"}
               \/ order'[o] = "refunded" /\ phase'[booking'[o].slot] = "started"
    BY <2>2 DEF TimePasses, tables, NoSessionUnpaid, Timed
  <2>3. ASSUME NEW p \in Orders, p # o, UNCHANGED phase,
               order'[o] = order[o], booking'[o] = booking[o]
        PROVE  \/ order'[o] \in {"paid", "partially_refunded"}
               \/ order'[o] = "refunded" /\ phase'[booking'[o].slot] = "started"
    BY <2>3 DEF NoSessionUnpaid, Timed
  <2>4. ASSUME NEW p \in Orders,
               \/ Writes(p) \/ Sells(p) \/ Fails(p) \/ Seats(p) \/ Confirms(p)
               \/ Returns(p) \/ CallsOff(p) \/ Refunds(p) \/ RefundsPart(p)
        PROVE  /\ UNCHANGED phase
               /\ p # o => order'[o] = order[o] /\ booking'[o] = booking[o]
    BY <2>4 DEF Writes, Sells, Fails, Seats, Confirms, Returns, CallsOff, Refunds, RefundsPart,
                GivesTime, Schedule
  <2>5. CASE Writes(o) \/ Returns(o) \/ CallsOff(o)
    <3>1. booking'[o].status \in {"awaiting_schedule", "cancelled"}
      BY <2>5 DEF Writes, Returns, CallsOff, BookingRow
    <3> QED BY <3>1 DEF Timed
  <2>6. CASE Sells(o) \/ Seats(o) \/ RefundsPart(o)
    BY <2>6 DEF Sells, Seats, RefundsPart
  <2>7. CASE Fails(o)
    BY <2>7 DEF Fails, UnsettledWaits, Timed
  <2>8. CASE Confirms(o)
    <3>1. /\ Timed(o) /\ booking'[o].slot = booking[o].slot
          /\ order' = order /\ phase' = phase
      BY <2>8 DEF Confirms, Timed, BookingRow
    <3> QED BY <3>1 DEF NoSessionUnpaid
  <2>9. CASE Refunds(o)
    <3>1. /\ order'[o] = "refunded" /\ booking' = booking /\ phase' = phase
          /\ Timed(o) /\ ~ToCome(o)
      BY <2>9 DEF Refunds, Timed
    <3>2. phase[booking[o].slot] = "started"
      BY <3>1, NullAssumption DEF ToCome
    <3> QED BY <3>1, <3>2
  <2> QED BY <2>1, <2>2, <2>3, <2>4, <2>5, <2>6, <2>7, <2>8, <2>9 DEF SaleMove
<1> QED BY <1>1, <1>2, TypeCorrect, UnsettledWaitsAlways, PTL DEF Spec
=============================================================================
