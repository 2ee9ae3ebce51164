---------------------------- MODULE BookingDiary ----------------------------
(***************************************************************************)
(* Proofs about the diary as the confirmations leave it: no time stays     *)
(* blocked for a session that will not happen, a confirmed time stays off  *)
(* sale, the release sweep deletes no open session's event, and every      *)
(* event the code makes has somebody who will delete it.                   *)
(*                                                                         *)
(* All four hold for any number of orders, holds, events and confirmers    *)
(* as long as no two confirmers work on one order at the same time,        *)
(* OneAtATime.  Nothing in the code enforces that: a webhook's own         *)
(* confirmation, the sweep's retry and the customer's request can overlap, *)
(* and LateConfirmer.cfg shows what they do when they overlap.  The        *)
(* theorems say that nothing else can; the last one also needs a calendar  *)
(* that answers, and no request that ends half done, NothingFails.         *)
(***************************************************************************)
EXTENDS BookingPromise

Working(w) == worker[w].pc # "idle"

OneAtATime ==
    \A v, w \in Workers :
        v # w /\ Working(v) /\ Working(w) => worker[v].order # worker[w].order

(***************************************************************************)
(* A confirmer's view of its booking is not out of date.                   *)
(***************************************************************************)

\* The booking a confirmer works on still waits at the time it read, or was
\* called off.
Unmoved ==
    \A w \in Workers : Working(w) =>
        \/ /\ booking[worker[w].order].status = "scheduled"
           /\ booking[worker[w].order].slot = worker[w].slot
        \/ booking[worker[w].order].status = "cancelled"

\* A converted hold belongs to an order that sits at its time.
Backs(h) == hold[h].status = "converted" =>
    /\ hold[h].order \in Orders
    /\ Timed(hold[h].order)
    /\ booking[hold[h].order].slot = hold[h].slot

DiaryInv == Unmoved /\ \A h \in Holds : Backs(h)

(***************************************************************************)
(* What a step does to the converted holds.                                *)
(***************************************************************************)

\* A hold that is converted after the step was so before, for the same session.
StaysConverted(h) ==
    /\ hold[h].status = "converted"
    /\ hold'[h].order = hold[h].order /\ hold'[h].slot = hold[h].slot

ConvertsNothing ==
    \A h \in Holds : hold'[h].status = "converted" => StaysConverted(h)

\* Or is one for this order and this time.
ConvertsFor(o, s) ==
    \A h \in Holds : hold'[h].status = "converted" =>
        StaysConverted(h) \/ (hold'[h].order = o /\ hold'[h].slot = s)

\* None of this order's is left.
ConvertsNoneOf(o) ==
    \A h \in Holds : hold'[h].status = "converted" => StaysConverted(h) /\ hold[h].order # o

\* A session keeps its time.
SeatsKept ==
    \A o \in Orders : Timed(o) => Timed(o)' /\ booking'[o].slot = booking[o].slot

OthersBookings(o) == \A p \in Orders \ {o} : booking'[p] = booking[p]

\* While nothing is converted and no session loses its time, every converted
\* hold goes on backing one.
LEMMA BacksStay ==
    ASSUME \A h \in Holds : Backs(h), ConvertsNothing, SeatsKept
    PROVE  \A h \in Holds : Backs(h)'
BY DEF Backs, ConvertsNothing, StaysConverted, SeatsKept

\* So it does when a waiting order is given a time with a hold for it.
LEMMA BacksGiven ==
    ASSUME \A h \in Holds : Backs(h), NEW o \in Orders, NEW s,
           ConvertsFor(o, s), OthersBookings(o),
           ~Timed(o), Timed(o)', booking'[o].slot = s
    PROVE  \A h \in Holds : Backs(h)'
BY DEF Backs, ConvertsFor, StaysConverted, OthersBookings, Timed

\* And when an order that loses its time gives back all its holds.
LEMMA BacksEnded ==
    ASSUME \A h \in Holds : Backs(h), NEW o \in Orders, ConvertsNoneOf(o), OthersBookings(o)
    PROVE  \A h \in Holds : Backs(h)'
BY DEF Backs, ConvertsNoneOf, StaysConverted, OthersBookings, Timed

\* Giving holds back converts none.
LEMMA ReleaseConverts ==
    ASSUME HoldRowsOK, NEW hs, hold' = Released(hs)
    PROVE  ConvertsNothing
BY ReleasedRows DEF ConvertsNothing, StaysConverted

\* A checkout request converts none.
LEMMA CheckoutConverts ==
    ASSUME TypeOK, NEW o \in Orders, CheckoutStep(o)
    PROVE  ConvertsNothing
<1> USE DEF TypeOK, TablesOK
<1>1. CASE HoldSlot(o)
  <2>1. PICK h \in Holds, s \in Slots :
           hold' = [Released(EarlierHolds(o)) EXCEPT ![h] =
                      [NoHold EXCEPT !.status = "held", !.slot = s, !.owner = Owner[o]]]
    BY <1>1 DEF HoldSlot
  <2>2. hold'[h].status = "held"
    BY <2>1, ReleasedRows DEF NoHold
  <2>3. \A k \in Holds \ {h} : hold'[k] = Released(EarlierHolds(o))[k]
    BY <2>1, ReleasedRows
  <2> QED BY <2>2, <2>3, ReleasedRows DEF ConvertsNothing, StaysConverted
<1>2. CASE PersistOrder(o) \/ AttachEvent(o)
  <2>1. PICK r : /\ hold' = [hold EXCEPT ![checkout[o].hold] = r]
                 /\ \/ r = [hold[checkout[o].hold] EXCEPT !.order = o]
                    \/ r = [hold[checkout[o].hold] EXCEPT !.event = checkout[o].event]
    BY <1>2 DEF PersistOrder, AttachEvent
  <2>2. checkout[o].hold \in Holds /\ hold[checkout[o].hold].status = "held"
    BY <1>2 DEF PersistOrder, AttachEvent, CheckoutTypeOK
  <2>3. r.status = "held"
    BY <2>1, <2>2 DEF HoldRowsOK, HoldRow
  <2> QED BY <2>1, <2>2, <2>3 DEF ConvertsNothing, StaysConverted, HoldRowsOK
<1>3. CASE ReleaseQuietly(o)
  BY <1>3, ReleaseConverts DEF ReleaseQuietly, ConvertsNothing, StaysConverted
<1>4. CASE ~(HoldSlot(o) \/ PersistOrder(o) \/ AttachEvent(o) \/ ReleaseQuietly(o))
  <2>1. UNCHANGED hold
    BY <1>4 DEF CheckoutStep, PostTentative, CalendarRefuses, CalendarUnreachable,
       CalendarAnswerLost, DropOrphan, HoldNoLongerLive, StartSession, LinkSession,
       CheckoutFails, CheckoutCrashes, EndCheckout, tableVars
  <2> QED BY <2>1 DEF ConvertsNothing, StaysConverted
<1> QED BY <1>1, <1>2, <1>3, <1>4

\* Book converts a hold for the time it gives, or gives it back at once.
LEMMA BookConverts ==
    ASSUME TypeOK, NEW o \in Orders, NEW s \in Slots, NEW e, NEW h \in Holds, NEW r \in HoldRow,
           r.status = "converted", r.slot = s, r.order = o,
           Book(o, s, e, [hold EXCEPT ![h] = r])
    PROVE  \/ ConvertsNothing /\ UNCHANGED booking
           \/ ConvertsFor(o, s) /\ Schedule(o, s, e)
<1> DEFINE claimed == [hold EXCEPT ![h] = r]
<1>1. /\ claimed \in [Holds -> HoldRow] /\ claimed[h] = r
      /\ \A k \in Holds \ {h} : claimed[k] = hold[k]
  BY DEF TypeOK, TablesOK, HoldRowsOK
<1>2. CASE BookingClash(o, s)
  <2>1. /\ UNCHANGED booking
        /\ hold' = [k \in Holds |-> IF claimed[k].status = "converted" /\ claimed[k].order = o
                                       /\ claimed[k].slot = s
                                    THEN [claimed[k] EXCEPT !.status = "released"]
                                    ELSE claimed[k]]
    BY <1>2 DEF Book
  <2>2. \A k \in Holds : [claimed[k] EXCEPT !.status = "released"].status = "released"
    BY <1>1 DEF HoldRow
  <2> HIDE DEF claimed
  <2>3. \A k \in Holds : hold'[k].status = "converted" => k # h /\ hold'[k] = hold[k]
    BY <1>1, <2>1, <2>2
  <2> QED BY <2>1, <2>3 DEF ConvertsNothing, StaysConverted
<1>3. CASE ~BookingClash(o, s)
  <2>1. hold' = claimed /\ Schedule(o, s, e)
    BY <1>3 DEF Book
  <2> HIDE DEF claimed
  <2> QED BY <1>1, <2>1 DEF ConvertsFor, StaysConverted
<1> QED BY <1>2, <1>3

\* A settlement converts a hold for the time it gives, and gives none without one.
LEMMA SettlementConverts ==
    ASSUME TypeOK, NEW o \in Orders, SettlementStep(o)
    PROVE  \/ ConvertsNothing /\ UNCHANGED booking
           \/ \E s \in Slots, e \in Events \cup {None} : ConvertsFor(o, s) /\ Schedule(o, s, e)
<1> USE DEF TypeOK, TablesOK
<1> DEFINE p == PaidHold(o)
<1>1. session[o] # "none" /\ p \in Holds
  BY DEF SettlementStep, SettleOnHold, SettleOnRetakenTime, SettleWithoutTime, Paid,
         ReleaseFailedOrder, CheckoutTypeOK, PaidHold
<1>2. CASE SettleOnHold(o)
  <2> DEFINE r == [hold[p] EXCEPT !.status = "converted"]
  <2>1. /\ hold[p].slot \in Slots /\ hold[p].event \in Events \cup {None}
        /\ r \in HoldRow /\ r.status = "converted" /\ r.slot = hold[p].slot /\ r.order = o
    BY <1>1, <1>2 DEF SettleOnHold, MayConvert, HoldRowsOK, HoldRow, HoldStatus
  <2>2. Book(o, hold[p].slot, hold[p].event, [hold EXCEPT ![p] = r])
    BY <1>2 DEF SettleOnHold
  <2> HIDE DEF r, p
  <2> QED BY <1>1, <2>1, <2>2, BookConverts
<1>3. CASE SettleOnRetakenTime(o)
  <2> DEFINE s == hold[p].slot
             r == [NoHold EXCEPT !.status = "converted", !.slot = s, !.order = o,
                                 !.lapsed = TRUE]
  <2>1. s \in Slots
    BY <1>1, <1>3 DEF SettleOnRetakenTime, MayRetake, HoldRowsOK
  <2>2. r \in HoldRow /\ r.status = "converted" /\ r.slot = s /\ r.order = o
    BY <2>1 DEF NoHold, HoldRow, HoldStatus
  <2>3. PICK h \in Holds : Book(o, s, None, [hold EXCEPT ![h] = r])
    BY <1>3 DEF SettleOnRetakenTime
  <2> HIDE DEF r, s
  <2> QED BY <2>1, <2>2, <2>3, BookConverts
<1>4. CASE SettleWithoutTime(o)
  BY <1>4 DEF SettleWithoutTime, ConvertsNothing, StaysConverted
<1>5. CASE ReleaseFailedOrder(o)
  BY <1>5, ReleaseConverts DEF ReleaseFailedOrder
<1> QED BY <1>2, <1>3, <1>4, <1>5 DEF SettlementStep

\* Calling a session off gives back every hold the order has for its time.
LEMMA CancelConverts ==
    ASSUME TypeOK, \A h \in Holds : Backs(h), NEW o \in Orders, CancelOpenBooking(o)
    PROVE  ConvertsNoneOf(o)
<1> USE DEF TypeOK, TablesOK
<1> DEFINE b == booking[o]
           backing == ConvertedHolds(o, b.slot)
<1>1. \A h \in Holds : hold[h].status = "converted" /\ hold[h].order = o => h \in backing
  BY DEF Backs, ConvertedHolds
<1>2. CASE backing = {} /\ b.event # None
  <2>1. PICK h \in Holds : hold' = [hold EXCEPT ![h] = [NoHold EXCEPT
             !.status = "released", !.slot = b.slot, !.order = o,
             !.event = b.event, !.lapsed = TRUE]]
    BY <1>2 DEF CancelOpenBooking
  <2>2. hold'[h].status = "released" /\ \A k \in Holds \ {h} : hold'[k] = hold[k]
    BY <2>1 DEF NoHold, HoldRowsOK
  <2> QED BY <1>1, <1>2, <2>2 DEF ConvertsNoneOf, StaysConverted
<1>3. CASE ~(backing = {} /\ b.event # None)
  <2> DEFINE row(h) == [hold[h] EXCEPT !.status = "released",
                                       !.event = IF @ = None THEN b.event ELSE @]
  <2>1. hold' = [h \in Holds |-> IF h \in backing THEN row(h) ELSE hold[h]]
    BY <1>3 DEF CancelOpenBooking
  <2>2. \A h \in Holds : row(h).status = "released"
    BY DEF HoldRowsOK, HoldRow
  <2> HIDE DEF row, backing
  <2> QED BY <1>1, <2>1, <2>2 DEF ConvertsNoneOf, StaysConverted
<1> QED BY <1>2, <1>3

(***************************************************************************)
(* No hole in the diary, and no confirmer out of date.                     *)
(***************************************************************************)

\* An order's own step leaves every confirmer's booking where it was, or
\* called off.
LEMMA OrdersLeaveUnmoved ==
    ASSUME TypeOK, UnsettledWaits, Unmoved, NEW o \in Orders, OrderStep(o)
    PROVE  Unmoved'
<1> USE DEF TypeOK, TablesOK, OrderRowsOK
<1>1. worker' = worker
  BY DEF OrderStep, ChooseTime, PlaceByHand, CancelBooking, RefundInFull, RefundInPart, others
<1>2. SUFFICES ASSUME NEW w \in Workers, Working(w), NEW p, p = worker[w].order
               PROVE  \/ booking'[p].status = "scheduled" /\ booking'[p].slot = worker[w].slot
                      \/ booking'[p].status = "cancelled"
  BY <1>1 DEF Unmoved, Working
<1>3. /\ p \in Orders
      /\ \/ booking[p].status = "scheduled" /\ booking[p].slot = worker[w].slot
         \/ booking[p].status = "cancelled"
  BY <1>2 DEF Unmoved, Working, ConfirmationTypeOK
<1>4. CASE booking'[p] = booking[p]
  BY <1>3, <1>4
<1>5. CASE PersistOrder(o) \/ SettlementStep(o)
  <2>1. booking[o].status \in {"none", "awaiting_schedule"} /\ OthersBookings(o)
    <3>1. CASE PersistOrder(o)
      BY <3>1 DEF PersistOrder, CheckoutTypeOK, OthersBookings
    <3>2. CASE SettlementStep(o)
      BY <3>2, SettlementMoves DEF Sells, Fails, UnsettledWaits, GivesTime, Schedule, OthersBookings
    <3> QED BY <1>5, <3>1, <3>2
  <2> QED BY <1>3, <2>1 DEF OthersBookings
<1>6. CASE ChooseTime(o) \/ PlaceByHand(o)
  <2>1. booking[o].status = "awaiting_schedule" /\ OthersBookings(o)
    BY <1>6 DEF ChooseTime, PlaceByHand, Schedule, OthersBookings
  <2> QED BY <1>3, <2>1 DEF OthersBookings
<1>7. CASE CancelOpenBooking(o)
  BY <1>3, <1>7 DEF CancelOpenBooking, BookingRow
<1>8. CASE ~(PersistOrder(o) \/ SettlementStep(o) \/ ChooseTime(o) \/ PlaceByHand(o)
             \/ CancelOpenBooking(o))
  <2>1. UNCHANGED booking
    BY <1>8 DEF OrderStep, CheckoutStep, HoldSlot, PostTentative, CalendarRefuses,
       CalendarUnreachable, CalendarAnswerLost, AttachEvent, DropOrphan, HoldNoLongerLive,
       StartSession, LinkSession, CheckoutFails, ReleaseQuietly, CheckoutCrashes, EndCheckout,
       StripeMoves, tableVars, CancelBooking, RefundInFull, RefundInPart
  <2> QED BY <1>4, <2>1
<1> QED BY <1>5, <1>6, <1>7, <1>8

\* A confirmer that writes the booking is finished with it, and no other one
\* works on that order.
LEMMA ConfirmersLeaveUnmoved ==
    ASSUME TypeOK, OneAtATime, Unmoved, NEW w \in Workers, ConfirmationStep(w)
    PROVE  Unmoved'
<1> USE DEF TypeOK, TablesOK, OrderRowsOK
<1>1. CASE Record(w) \/ ReturnToWaiting(w)
  <2>1. /\ Working(w) /\ worker[w].order \in Orders
        /\ worker' = [worker EXCEPT ![w] = IdleWorker]
        /\ OthersBookings(worker[w].order)
    BY <1>1 DEF Record, ReturnToWaiting, Finish, Working, OthersBookings, ConfirmationTypeOK
  <2>2. SUFFICES ASSUME NEW v \in Workers, Working(v)'
                 PROVE  /\ worker'[v] = worker[v] /\ Working(v)
                        /\ booking'[worker[v].order] = booking[worker[v].order]
    BY DEF Unmoved, Working
  <2>3. v # w
    BY <2>1, <2>2 DEF Working, IdleWorker, ConfirmationTypeOK
  <2>4. worker'[v] = worker[v] /\ Working(v)
    BY <2>1, <2>2, <2>3 DEF Working, ConfirmationTypeOK
  <2>5. worker[v].order \in Orders \ {worker[w].order}
    BY <2>1, <2>3, <2>4 DEF OneAtATime, Working, ConfirmationTypeOK
  <2> QED BY <2>1, <2>4, <2>5 DEF OthersBookings
<1>2. CASE \E o \in Orders : Begin(w, o)
  BY <1>2 DEF Begin, Unmoved, Working, tableVars, ConfirmationTypeOK
<1>3. CASE ~Record(w) /\ ~ReturnToWaiting(w) /\ ~\E o \in Orders : Begin(w, o)
  <2>1. /\ UNCHANGED booking
        /\ Working(w)
        /\ \A v \in Workers : Working(v)' =>
             /\ Working(v) /\ worker'[v].order = worker[v].order
             /\ worker'[v].slot = worker[v].slot
    BY <1>3 DEF ConfirmationStep, Check, Post, PostAnswerLost, Attach, Promote,
       PromoteWithoutLink, EventIsGone, RecordFindsItChanged, Cleanup, CalendarFails,
       WorkerCrashes, tableVars, tables, Move, Finish, IdleWorker, Working, ConfirmationTypeOK
  <2> QED BY <2>1 DEF Unmoved
<1> QED BY <1>1, <1>2, <1>3

\* An order's own step leaves every converted hold backing a session.
LEMMA OrdersKeepBacks ==
    ASSUME TypeOK, UnsettledWaits, \A h \in Holds : Backs(h), NEW o \in Orders, OrderStep(o)
    PROVE  \A h \in Holds : Backs(h)'
<1> USE DEF TypeOK, TablesOK, OrderRowsOK
<1>1. CASE CheckoutStep(o)
  <2>1. UNCHANGED booking \/ PersistOrder(o)
    BY <1>1 DEF CheckoutStep, HoldSlot, PostTentative, CalendarRefuses, CalendarUnreachable,
       CalendarAnswerLost, AttachEvent, DropOrphan, HoldNoLongerLive, StartSession,
       LinkSession, CheckoutFails, ReleaseQuietly, CheckoutCrashes, EndCheckout, tableVars
  <2>2. SeatsKept
    BY <1>1, <2>1 DEF PersistOrder, SeatsKept, Timed, CheckoutTypeOK
  <2> QED BY <1>1, <2>2, CheckoutConverts, BacksStay
<1>2. CASE SettlementStep(o)
  <2>1. ~Timed(o)
    BY <1>2, SettlementMoves DEF Sells, Fails, UnsettledWaits, Timed
  <2>2. CASE ConvertsNothing /\ UNCHANGED booking
    BY <2>2, BacksStay DEF SeatsKept, Timed
  <2>3. CASE \E s \in Slots, e \in Events \cup {None} : ConvertsFor(o, s) /\ Schedule(o, s, e)
    <3>1. PICK s \in Slots, e \in Events \cup {None} : ConvertsFor(o, s) /\ Schedule(o, s, e)
      BY <2>3
    <3>2. OthersBookings(o) /\ Timed(o)' /\ booking'[o].slot = s
      BY <3>1 DEF Schedule, OthersBookings, Timed
    <3> QED BY <2>1, <3>1, <3>2, BacksGiven
  <2> QED BY <1>2, <2>2, <2>3, SettlementConverts
<1>3. CASE ChooseTime(o)
  <2>1. PICK s \in Slots, h \in Holds :
           /\ hold' = [hold EXCEPT ![h] = [NoHold EXCEPT
                 !.status = "converted", !.slot = s, !.order = o, !.lapsed = TRUE]]
           /\ Schedule(o, s, None)
    BY <1>3 DEF ChooseTime
  <2>2. ConvertsFor(o, s)
    BY <2>1 DEF ConvertsFor, StaysConverted, NoHold, HoldRowsOK
  <2>3. /\ ~Timed(o) /\ OthersBookings(o) /\ Timed(o)' /\ booking'[o].slot = s
    BY <1>3, <2>1 DEF ChooseTime, Schedule, OthersBookings, Timed
  <2> QED BY <2>2, <2>3, BacksGiven
<1>4. CASE PlaceByHand(o)
  <2>1. UNCHANGED hold /\ ~Timed(o) /\ OthersBookings(o)
    BY <1>4 DEF PlaceByHand, Schedule, OthersBookings, Timed
  <2> QED BY <2>1, BacksStay DEF ConvertsNothing, StaysConverted, SeatsKept, OthersBookings, Timed
<1>5. CASE CancelOpenBooking(o)
  BY <1>5, CancelConverts, BacksEnded DEF CancelOpenBooking, OthersBookings
<1>6. CASE UNCHANGED <<booking, hold>>
  BY <1>6, BacksStay DEF ConvertsNothing, StaysConverted, SeatsKept, Timed
<1> QED BY <1>1, <1>2, <1>3, <1>4, <1>5, <1>6
        DEF OrderStep, StripeMoves, CancelBooking, RefundInFull, RefundInPart, tableVars

\* So does a confirmer's: what it gives back is all its order has.
LEMMA ConfirmersKeepBacks ==
    ASSUME TypeOK, DiaryInv, NEW w \in Workers, ConfirmationStep(w)
    PROVE  \A h \in Holds : Backs(h)'
<1> USE DEF TypeOK, TablesOK, OrderRowsOK, DiaryInv
<1> DEFINE o == worker[w].order
<1>1. CASE ReturnToWaiting(w)
  <2>1. /\ Working(w) /\ o \in Orders /\ OthersBookings(o)
        /\ hold' = Released(ConvertedHolds(o, worker[w].slot))
    BY <1>1 DEF ReturnToWaiting, Working, OthersBookings, ConfirmationTypeOK
  <2>2. ASSUME NEW h \in Holds, hold[h].status = "converted", hold[h].order = o
        PROVE  h \in ConvertedHolds(o, worker[w].slot)
    BY <2>1, <2>2 DEF Unmoved, Backs, Timed, ConvertedHolds
  <2>3. ConvertsNoneOf(o)
    BY <2>1, <2>2, ReleasedRows DEF ConvertsNoneOf, StaysConverted
  <2> QED BY <2>1, <2>3, BacksEnded
<1>2. CASE Record(w)
  <2>1. UNCHANGED hold /\ SeatsKept
    BY <1>2 DEF Record, SeatsKept, Timed, ConfirmationTypeOK, BookingRow
  <2> QED BY <2>1, BacksStay DEF ConvertsNothing, StaysConverted
<1>3. CASE Attach(w)
  <2> DEFINE open == {h \in ConvertedHolds(o, worker[w].slot) : hold[h].event = None}
  <2>1. /\ UNCHANGED booking
        /\ hold' = [h \in Holds |-> IF h \in open
                                    THEN [hold[h] EXCEPT !.event = worker[w].event]
                                    ELSE hold[h]]
    BY <1>3 DEF Attach
  <2>2. ASSUME NEW h \in Holds
        PROVE  /\ [hold[h] EXCEPT !.event = worker[w].event].status = hold[h].status
               /\ [hold[h] EXCEPT !.event = worker[w].event].order = hold[h].order
               /\ [hold[h] EXCEPT !.event = worker[w].event].slot = hold[h].slot
    BY DEF HoldRowsOK, HoldRow
  <2> HIDE DEF open
  <2>3. ConvertsNothing /\ SeatsKept
    BY <2>1, <2>2 DEF ConvertsNothing, StaysConverted, SeatsKept, Timed
  <2> QED BY <2>3, BacksStay
<1>4. CASE ~Attach(w) /\ ~Record(w) /\ ~ReturnToWaiting(w)
  <2>1. UNCHANGED <<booking, hold>>
    BY <1>4 DEF ConfirmationStep, Begin, Check, Post, PostAnswerLost, Promote,
       PromoteWithoutLink, EventIsGone, RecordFindsItChanged, Cleanup, CalendarFails,
       WorkerCrashes, tableVars, tables
  <2> QED BY <2>1, BacksStay DEF ConvertsNothing, StaysConverted, SeatsKept, Timed
<1> QED BY <1>1, <1>2, <1>3, <1>4

\* The countdown and the sweep convert no hold and touch no booking.
LEMMA HoldStepConverts ==
    ASSUME TypeOK, NEW h \in Holds, HoldStep(h)
    PROVE  ConvertsNothing /\ UNCHANGED <<booking, worker>>
<1> USE DEF TypeOK, TablesOK
<1>1. UNCHANGED <<booking, worker>>
  BY DEF HoldStep, LapseHold, ClaimExpiredHold, DeleteReleasedEvent, MarkCalendarReleased,
         tables, others
<1>2. UNCHANGED hold \/ \E r : /\ hold' = [hold EXCEPT ![h] = r]
                               /\ \/ r = [hold[h] EXCEPT !.lapsed = TRUE]
                                  \/ r = [hold[h] EXCEPT !.cleared = TRUE]
                                  \/ r = [hold[h] EXCEPT !.status = "expired"]
  BY DEF HoldStep, LapseHold, ClaimExpiredHold, DeleteReleasedEvent, MarkCalendarReleased, tables
<1>3. ASSUME NEW r, \/ r = [hold[h] EXCEPT !.lapsed = TRUE]
                    \/ r = [hold[h] EXCEPT !.cleared = TRUE]
                    \/ r = [hold[h] EXCEPT !.status = "expired"]
      PROVE  /\ r.status \in {hold[h].status, "expired"}
             /\ r.slot = hold[h].slot /\ r.order = hold[h].order
  BY <1>3 DEF HoldRowsOK, HoldRow
<1>4. ConvertsNothing
  BY <1>2, <1>3 DEF ConvertsNothing, StaysConverted, HoldRowsOK
<1> QED BY <1>1, <1>4

\* DiaryInv is inductive while no two confirmers work on one order.
LEMMA DiaryStep ==
    ASSUME TypeOK, UnsettledWaits, OneAtATime, DiaryInv, [Next]_vars
    PROVE  DiaryInv'
<1>1. CASE UNCHANGED <<booking, hold, worker>>
  BY <1>1 DEF DiaryInv, Unmoved, Working, Backs, Timed
<1>2. ASSUME NEW o \in Orders, OrderStep(o)
      PROVE  DiaryInv'
  BY <1>2, OrdersLeaveUnmoved, OrdersKeepBacks DEF DiaryInv
<1>3. ASSUME NEW h \in Holds, HoldStep(h)
      PROVE  DiaryInv'
  <2>1. ConvertsNothing /\ UNCHANGED <<booking, worker>>
    BY <1>3, HoldStepConverts
  <2>2. \A k \in Holds : Backs(k)'
    BY <2>1, BacksStay DEF DiaryInv, SeatsKept, Timed
  <2> QED BY <2>1, <2>2 DEF DiaryInv, Unmoved, Working
<1>4. ASSUME NEW w \in Workers, ConfirmationStep(w)
      PROVE  DiaryInv'
  BY <1>4, ConfirmersLeaveUnmoved, ConfirmersKeepBacks DEF DiaryInv
<1>5. CASE WorldStep
  BY <1>1, <1>5 DEF WorldStep, TimePasses, CoachAdds, CoachDeletes, tables, others
<1> QED BY <1>1, <1>2, <1>3, <1>4, <1>5 DEF Next, vars, tableVars

\* At first nobody works and nothing is converted.
LEMMA DiaryInit == Init => DiaryInv
BY DEF Init, TablesInit, ConfirmationInit, IdleWorker, NoHold, DiaryInv, Unmoved, Working, Backs

\* So it holds always.
LEMMA DiaryAlways == Spec /\ []OneAtATime => []DiaryInv
BY DiaryInit, DiaryStep, TypeCorrect, UnsettledWaitsAlways, PTL DEF Spec

\* A converted hold, which blocks its time with no countdown, always backs a
\* session that will happen at that time: settlement gives the hold back when
\* it finds the time placed by hand, a cancellation and a lost confirmation
\* give back the hold with the booking's time.
THEOREM NoHoleEver == Spec /\ []OneAtATime => []NoHoleInDiary
<1>1. DiaryInv => NoHoleInDiary
  BY DEF DiaryInv, Backs, NoHoleInDiary
<1> QED BY <1>1, DiaryAlways, PTL
(***************************************************************************)
(* A confirmed time is off sale.                                           *)
(***************************************************************************)

BackedConfirmed(q) ==
    booking[q].status = "confirmed" => ConvertedHolds(q, booking[q].slot) # {}

\* An order's own step touches no converted hold of another order.
LEMMA OrdersKeepOthers ==
    ASSUME TypeOK, NEW o \in Orders, OrderStep(o), NEW q \in Orders, q # o
    PROVE  KeepsConverted(q) /\ booking'[q] = booking[q]
<1> USE DEF TypeOK, TablesOK, OrderRowsOK
<1>1. CASE CheckoutStep(o)
  <2>1. booking'[q] = booking[q]
    BY <1>1 DEF CheckoutStep, HoldSlot, PostTentative, CalendarRefuses, CalendarUnreachable,
       CalendarAnswerLost, AttachEvent, DropOrphan, PersistOrder, HoldNoLongerLive,
       StartSession, LinkSession, CheckoutFails, ReleaseQuietly, CheckoutCrashes, EndCheckout,
       tableVars
  <2> QED BY <1>1, <2>1, CheckoutKeeps
<1>2. CASE SettleOnHold(o) \/ SettleOnRetakenTime(o)
  <2> DEFINE p == PaidHold(o)
  <2>1. session[o] # "none" /\ p \in Holds
    BY <1>2 DEF SettleOnHold, SettleOnRetakenTime, Paid, CheckoutTypeOK, PaidHold
  <2>2. CASE SettleOnHold(o)
    <3> DEFINE r == [hold[p] EXCEPT !.status = "converted"]
    <3>1. /\ hold[p].status = "held" /\ hold[p].slot \in Slots
          /\ r \in HoldRow /\ r.status = "converted" /\ r.slot = hold[p].slot /\ r.order = o
      BY <2>1, <2>2 DEF SettleOnHold, MayConvert, HoldRowsOK, HoldRow, HoldStatus
    <3>2. Book(o, hold[p].slot, hold[p].event, [hold EXCEPT ![p] = r])
      BY <2>2 DEF SettleOnHold
    <3> HIDE DEF r, p
    <3> QED BY <2>1, <3>1, <3>2, BookBacks
  <2>3. CASE SettleOnRetakenTime(o)
    <3> DEFINE s == hold[p].slot
               r == [NoHold EXCEPT !.status = "converted", !.slot = s, !.order = o,
                                   !.lapsed = TRUE]
    <3>1. s \in Slots
      BY <2>1, <2>3 DEF SettleOnRetakenTime, MayRetake, HoldRowsOK
    <3>2. r \in HoldRow /\ r.status = "converted" /\ r.slot = s /\ r.order = o
      BY <3>1 DEF NoHold, HoldRow, HoldStatus
    <3>3. PICK h \in Holds :
             hold[h].status = "none" /\ Book(o, s, None, [hold EXCEPT ![h] = r])
      BY <2>3 DEF SettleOnRetakenTime, FreshHold
    <3> HIDE DEF r, s
    <3> QED BY <3>1, <3>2, <3>3, BookBacks
  <2> QED BY <1>2, <2>2, <2>3
<1>3. CASE ReleaseFailedOrder(o)
  <2> DEFINE hs == {PaidHold(o)} \cap {k \in Holds : hold[k].status = "held" /\ hold[k].order = o}
  <2>1. UNCHANGED booking /\ hold' = Released(hs)
    BY <1>3 DEF ReleaseFailedOrder
  <2>2. \A h \in hs : hold[h].status = "held"
    OBVIOUS
  <2> HIDE DEF hs
  <2> QED BY <2>1, <2>2, ReleasedRows DEF KeepsConverted
<1>4. CASE ChooseTime(o)
  BY <1>4 DEF ChooseTime, FreshHold, Schedule, KeepsConverted, HoldRowsOK
<1>5. CASE CancelOpenBooking(o)
  <2> DEFINE backing == ConvertedHolds(o, booking[o].slot)
  <2>1. booking'[q] = booking[q]
    BY <1>5 DEF CancelOpenBooking
  <2>2. \A h \in Holds : h \notin backing /\ hold[h].status # "none" => hold'[h] = hold[h]
    BY <1>5 DEF CancelOpenBooking, FreshHold, HoldRowsOK
  <2>3. \A h \in backing : hold[h].order = o
    BY DEF ConvertedHolds
  <2> HIDE DEF backing
  <2> QED BY <2>1, <2>2, <2>3 DEF KeepsConverted
<1>6. CASE PlaceByHand(o)
  BY <1>6 DEF PlaceByHand, Schedule, KeepsConverted
<1>7. CASE UNCHANGED <<booking, hold>>
  BY <1>7 DEF KeepsConverted
<1> QED BY <1>1, <1>2, <1>3, <1>4, <1>5, <1>6, <1>7
        DEF OrderStep, SettlementStep, SettleWithoutTime, StripeMoves, CancelBooking,
            RefundInFull, RefundInPart, tableVars

\* A confirmer leaves the booking of a confirmed order and its holds alone:
\* nobody works on one.
LEMMA ConfirmersKeepConfirmed ==
    ASSUME TypeOK, DiaryInv, NEW w \in Workers, ConfirmationStep(w),
           NEW q \in Orders, booking[q].status = "confirmed"
    PROVE  KeepsConverted(q) /\ booking'[q] = booking[q]
<1> USE DEF TypeOK, TablesOK, OrderRowsOK
<1> DEFINE o == worker[w].order
<1>1. CASE Attach(w)
  <2> DEFINE open == {h \in ConvertedHolds(o, worker[w].slot) : hold[h].event = None}
  <2>1. /\ UNCHANGED booking
        /\ hold' = [h \in Holds |-> IF h \in open
                                    THEN [hold[h] EXCEPT !.event = worker[w].event]
                                    ELSE hold[h]]
    BY <1>1 DEF Attach
  <2>2. ASSUME NEW h \in Holds
        PROVE  /\ [hold[h] EXCEPT !.event = worker[w].event].status = hold[h].status
               /\ [hold[h] EXCEPT !.event = worker[w].event].order = hold[h].order
               /\ [hold[h] EXCEPT !.event = worker[w].event].slot = hold[h].slot
    BY DEF HoldRowsOK, HoldRow
  <2> HIDE DEF open
  <2> QED BY <2>1, <2>2 DEF KeepsConverted
<1>2. CASE Record(w) \/ ReturnToWaiting(w)
  <2>1. Working(w)
    BY <1>2 DEF Record, ReturnToWaiting, Working
  <2>2. o # q
    BY <2>1 DEF DiaryInv, Unmoved
  <2>3. booking'[q] = booking[q]
    BY <1>2, <2>2 DEF Record, ReturnToWaiting
  <2>4. UNCHANGED hold \/ hold' = Released(ConvertedHolds(o, worker[w].slot))
    BY <1>2 DEF Record, ReturnToWaiting
  <2>5. \A h \in ConvertedHolds(o, worker[w].slot) : hold[h].order # q
    BY <2>2 DEF ConvertedHolds
  <2> QED BY <2>3, <2>4, <2>5, ReleasedRows DEF KeepsConverted
<1>3. CASE ~Attach(w) /\ ~Record(w) /\ ~ReturnToWaiting(w)
  <2>1. UNCHANGED <<booking, hold>>
    BY <1>3 DEF ConfirmationStep, Begin, Check, Post, PostAnswerLost, Promote,
       PromoteWithoutLink, EventIsGone, RecordFindsItChanged, Cleanup, CalendarFails,
       WorkerCrashes, tableVars, tables
  <2> QED BY <2>1 DEF KeepsConverted
<1> QED BY <1>1, <1>2, <1>3

\* A confirmed order's own steps leave its holds alone, but for calling it off.
LEMMA ConfirmedOrdersKeep ==
    ASSUME TypeOK, UnsettledWaits, NEW q \in Orders, booking[q].status = "confirmed", OrderStep(q)
    PROVE  \/ booking'[q].status = "cancelled"
           \/ KeepsConverted(q) /\ booking'[q] = booking[q]
<1> USE DEF TypeOK, TablesOK, OrderRowsOK
<1>1. order[q] \notin {"none", "pending", "failed"}
  BY DEF UnsettledWaits, OrderRowsOK
<1>2. ~PersistOrder(q) /\ ~SettlementStep(q) /\ ~ChooseTime(q) /\ ~PlaceByHand(q)
  BY <1>1, SettlementMoves DEF PersistOrder, CheckoutTypeOK, Sells, Fails, ChooseTime, PlaceByHand
<1>3. CASE CheckoutStep(q)
  <2>1. UNCHANGED booking
    BY <1>2, <1>3 DEF CheckoutStep, HoldSlot, PostTentative, CalendarRefuses,
       CalendarUnreachable, CalendarAnswerLost, AttachEvent, DropOrphan, HoldNoLongerLive,
       StartSession, LinkSession, CheckoutFails, ReleaseQuietly, CheckoutCrashes, EndCheckout,
       tableVars
  <2> QED BY <1>3, <2>1, CheckoutKeeps
<1>4. CASE CancelOpenBooking(q)
  BY <1>4 DEF CancelOpenBooking, OrderRowsOK, BookingRow
<1>5. CASE UNCHANGED <<booking, hold>>
  BY <1>5 DEF KeepsConverted
<1> QED BY <1>2, <1>3, <1>4, <1>5
        DEF OrderStep, StripeMoves, CancelBooking, RefundInFull, RefundInPart, tableVars

\* A step that confirms a booking finds it scheduled, at its time, and leaves
\* the holds alone.
LEMMA ConfirmedByRecord ==
    ASSUME TypeOK, [Next]_vars, NEW q \in Orders,
           booking[q].status # "confirmed", booking'[q].status = "confirmed"
    PROVE  /\ booking[q].status = "scheduled" /\ booking'[q].slot = booking[q].slot
           /\ UNCHANGED hold
<1> USE DEF TypeOK, TablesOK, OrderRowsOK
<1>1. \A w \in Workers : ConfirmationStep(w) => Record(w)
  <2> SUFFICES ASSUME NEW w \in Workers, ConfirmationStep(w), ~Record(w)
               PROVE  FALSE
    OBVIOUS
  <2>1. CASE ReturnToWaiting(w)
    BY <2>1 DEF ReturnToWaiting, ConfirmationTypeOK
  <2>2. CASE ~ReturnToWaiting(w)
    <3>1. UNCHANGED booking
      BY <2>2 DEF ConfirmationStep, Begin, Check, Post, PostAnswerLost, Attach, Promote,
         PromoteWithoutLink, EventIsGone, RecordFindsItChanged, Cleanup, CalendarFails,
         WorkerCrashes, tableVars, tables
    <3> QED BY <3>1
  <2> QED BY <2>1, <2>2
<1>2. \A o \in Orders : ~OrderStep(o)
  <2> SUFFICES ASSUME NEW o \in Orders, OrderStep(o)
               PROVE  FALSE
    OBVIOUS
  <2>1. CASE SettlementStep(o)
    BY <2>1, SettlementMoves DEF Sells, Fails, GivesTime, Schedule
  <2>2. CASE CheckoutStep(o) \/ StripeMoves(o)
    <3>1. UNCHANGED booking \/ booking' = [booking EXCEPT ![o].status = "awaiting_schedule"]
      BY <2>2 DEF CheckoutStep, HoldSlot, PostTentative, CalendarRefuses, CalendarUnreachable,
         CalendarAnswerLost, AttachEvent, DropOrphan, PersistOrder, HoldNoLongerLive,
         StartSession, LinkSession, CheckoutFails, ReleaseQuietly, CheckoutCrashes, EndCheckout,
         StripeMoves, tableVars
    <3> QED BY <3>1 DEF BookingRow
  <2>3. CASE ChooseTime(o) \/ PlaceByHand(o)
    <3>1. PICK s \in Slots : Schedule(o, s, None)
      BY <2>3 DEF ChooseTime, PlaceByHand
    <3> QED BY <3>1 DEF Schedule
  <2>4. CASE CancelBooking(o) \/ RefundInFull(o) \/ RefundInPart(o)
    BY <2>4 DEF CancelBooking, RefundInFull, RefundInPart, CancelOpenBooking, BookingRow
  <2> QED BY <2>1, <2>2, <2>3, <2>4 DEF OrderStep
<1>3. (\E h \in Holds : HoldStep(h)) \/ WorldStep \/ UNCHANGED vars => UNCHANGED booking
  BY DEF HoldStep, LapseHold, ClaimExpiredHold, DeleteReleasedEvent, MarkCalendarReleased,
         WorldStep, TimePasses, CoachAdds, CoachDeletes, tables, vars, tableVars
<1>4. PICK w \in Workers : Record(w)
  BY <1>1, <1>2, <1>3 DEF Next
<1> QED BY <1>4 DEF Record, ConfirmationTypeOK, BookingRow

\* A confirmed session's time is off sale: its converted hold is there, taken
\* over from the scheduled one, until the session is called off.  As for a
\* scheduled time, nobody writes one into the database by hand; and no late
\* confirmer gives it away.
THEOREM ConfirmedTimesAreBacked ==
    ASSUME "by_hand" \notin Env
    PROVE  Spec /\ []OneAtATime => []ConfirmedIsBacked
<1>1. Init => ConfirmedIsBacked
  BY DEF Init, TablesInit, NoBooking, ConfirmedIsBacked
<1>2. /\ TypeOK /\ UnsettledWaits /\ DiaryInv /\ ScheduledIsBacked
      /\ ConfirmedIsBacked /\ [Next]_vars
      => ConfirmedIsBacked'
  <2> SUFFICES ASSUME TypeOK, UnsettledWaits, DiaryInv, ScheduledIsBacked, ConfirmedIsBacked,
                      [Next]_vars, NEW q \in Orders, booking'[q].status = "confirmed"
               PROVE  BackedConfirmed(q)'
    BY DEF ConfirmedIsBacked, BackedConfirmed, ConvertedHolds
  <2>1. CASE booking[q].status # "confirmed"
    <3>1. /\ booking[q].status = "scheduled" /\ booking'[q].slot = booking[q].slot
          /\ UNCHANGED hold
      BY <2>1, ConfirmedByRecord
    <3> QED BY <3>1 DEF ScheduledIsBacked, BackedConfirmed, ConvertedHolds
  <2>2. CASE booking[q].status = "confirmed"
    <3>1. KeepsConverted(q) /\ booking'[q] = booking[q]
      <4>1. ASSUME NEW o \in Orders, OrderStep(o)
            PROVE  KeepsConverted(q) /\ booking'[q] = booking[q]
        <5>1. CASE o = q
          BY <2>2, <4>1, <5>1, ConfirmedOrdersKeep
        <5> QED BY <4>1, <5>1, OrdersKeepOthers
      <4>2. ASSUME NEW h \in Holds, HoldStep(h)
            PROVE  KeepsConverted(q) /\ booking'[q] = booking[q]
        BY <4>2, HoldStepConverts, HoldStepKeeps
      <4>3. ASSUME NEW w \in Workers, ConfirmationStep(w)
            PROVE  KeepsConverted(q) /\ booking'[q] = booking[q]
        BY <2>2, <4>3, ConfirmersKeepConfirmed
      <4>4. CASE WorldStep \/ UNCHANGED vars
        BY <4>4 DEF WorldStep, TimePasses, CoachAdds, CoachDeletes, tables, vars, tableVars,
                    KeepsConverted
      <4> QED BY <4>1, <4>2, <4>3, <4>4 DEF Next
    <3>2. ConvertedHolds(q, booking[q].slot) \subseteq ConvertedHolds(q, booking[q].slot)'
      BY <3>1 DEF KeepsConverted, ConvertedHolds
    <3>3. ConvertedHolds(q, booking[q].slot) # {}
      BY <2>2 DEF ConfirmedIsBacked
    <3> QED BY <3>1, <3>2, <3>3 DEF BackedConfirmed, ConvertedHolds
  <2> QED BY <2>1, <2>2
<1> QED BY <1>1, <1>2, TypeCorrect, UnsettledWaitsAlways, DiaryAlways, ScheduledTimesAreBacked,
           PTL DEF Spec
(***************************************************************************)
(* Who carries an event.                                                   *)
(***************************************************************************)

\* The events that were ever made, deleted or not.
Made == {e \in Events : calendar[e].status # "none"}

\* The event a confirmer has in hand, once it has one.
InHand(w) == IF Working(w) THEN worker[w].event ELSE None

\* The event of a booking with a time.
Booked(o) == IF Timed(o) THEN booking[o].event ELSE None

\* The event a checkout has made and no hold has taken yet.
Posted(o) == IF checkout[o].pc = "posted" THEN checkout[o].event ELSE None

\* Every event anybody carries has been made.
CarriedAreMade ==
    /\ \A h \in Holds : hold[h].event \in Made \cup {None}
    /\ \A o \in Orders : Booked(o) \in Made \cup {None} /\ Posted(o) \in Made \cup {None}
    /\ \A w \in Workers : InHand(w) \in Made \cup {None}

\* No two holds carry one event.
HoldsCarryTheirOwn ==
    \A h, k \in Holds : h # k /\ hold[h].event # None => hold[h].event # hold[k].event

\* An event in a checkout's hand is in nobody else's.
PostedIsAlone ==
    \A o \in Orders : Posted(o) # None =>
        /\ \A h \in Holds : hold[h].event # Posted(o)
        /\ \A p \in Orders : Booked(p) # Posted(o)
        /\ \A p \in Orders \ {o} : Posted(p) # Posted(o)
        /\ \A w \in Workers : InHand(w) # Posted(o)

\* The hold that carries a booking's event backs it; no other booking has it.
BookedIsBacked ==
    \A o \in Orders : Booked(o) # None =>
        /\ \A h \in Holds : hold[h].event = Booked(o) =>
             hold[h].status = "converted" /\ hold[h].order = o
        /\ \A p \in Orders \ {o} : Booked(p) # Booked(o)

\* The hold that carries a confirmer's event backs the booking it works on, or
\* was given back with it; and no other booking has that event.
InHandIsBacked ==
    \A w \in Workers : InHand(w) # None =>
        /\ \A h \in Holds : hold[h].event = InHand(w) =>
             /\ hold[h].order = worker[w].order
             /\ \/ hold[h].status = "converted"
                \/ hold[h].status = "released" /\ booking[worker[w].order].status = "cancelled"
        /\ \A o \in Orders : Booked(o) = InHand(w) => o = worker[w].order
        /\ \A v \in Workers : InHand(v) = InHand(w) => worker[v].order = worker[w].order

\* A confirmer about to make an event finds none under its key.
KeyIsFree == \A w \in Workers : worker[w].pc = "post" => Keyed(w) = {}

Carried ==
    /\ CarriedAreMade /\ HoldsCarryTheirOwn /\ PostedIsAlone
    /\ BookedIsBacked /\ InHandIsBacked

(***************************************************************************)
(* What a step does to who carries what.                                   *)
(***************************************************************************)

\* A hold carries what it carried or nothing, and a converted one or one given
\* back stays so, for the order it has.
CarriesOn(h) ==
    hold'[h].event # None =>
        /\ hold'[h].event = hold[h].event
        /\ hold[h].status \in {"converted", "released"} =>
             hold'[h].status = hold[h].status /\ hold'[h].order = hold[h].order

\* A booking carries what it carried or nothing, and stays called off if it was.
BookingCarriesOn(o) ==
    /\ Booked(o)' # None => Booked(o)' = Booked(o)
    /\ booking[o].status = "cancelled" => booking'[o].status = "cancelled"

\* So does a checkout's hand, and a confirmer's, on the same order.
RequestCarriesOn(o) == Posted(o)' # None => Posted(o)' = Posted(o)

WorkerCarriesOn(w) ==
    InHand(w)' # None => InHand(w)' = InHand(w) /\ worker'[w].order = worker[w].order

HoldsCarryOn == \A h \in Holds : CarriesOn(h)
BookingsCarryOn == \A o \in Orders : BookingCarriesOn(o)
RequestsCarryOn == \A o \in Orders : RequestCarriesOn(o)
WorkersCarryOn == \A w \in Workers : WorkerCarriesOn(w)

\* An event that was made is not unmade.
EventsStay == Made \subseteq Made'

NobodyCarries(e) ==
    /\ \A h \in Holds : hold[h].event # e
    /\ \A o \in Orders : Booked(o) # e /\ Posted(o) # e
    /\ \A w \in Workers : InHand(w) # e

\* The events carried are events, and a confirmer at work has an order.
LEMMA CarriedTypes ==
    ASSUME TypeOK
    PROVE  /\ \A h \in Holds : hold[h].event \in Events \cup {None}
           /\ \A o \in Orders : Booked(o) \in Events \cup {None} /\ Posted(o) \in Events \cup {None}
           /\ \A w \in Workers : /\ InHand(w) \in Events \cup {None}
                                /\ InHand(w) # None => worker[w].order \in Orders
BY DEF TypeOK, TablesOK, HoldRowsOK, HoldRow, OrderRowsOK, BookingRow, CheckoutTypeOK,
       ConfirmationTypeOK, Booked, Posted, InHand, Working

\* An event nobody had made is carried by nobody.
LEMMA FreshIsUncarried ==
    ASSUME CarriedAreMade, NEW e \in Events, e \notin Made
    PROVE  NobodyCarries(e)
BY NullAssumption DEF CarriedAreMade, NobodyCarries

\* Nothing changes hands.
LEMMA NothingCarried ==
    ASSUME TypeOK, Carried, HoldsCarryOn, BookingsCarryOn, RequestsCarryOn, WorkersCarryOn,
           EventsStay
    PROVE  Carried'
<1> USE DEF HoldsCarryOn, CarriesOn, BookingsCarryOn, BookingCarriesOn, RequestsCarryOn,
            RequestCarriesOn, WorkersCarryOn, WorkerCarriesOn
<1>1. CarriedAreMade'
  BY DEF Carried, CarriedAreMade, EventsStay
<1>2. HoldsCarryTheirOwn'
  BY DEF Carried, HoldsCarryTheirOwn
<1>3. PostedIsAlone'
  BY DEF Carried, PostedIsAlone
<1>4. BookedIsBacked'
  BY DEF Carried, BookedIsBacked
<1>5. InHandIsBacked'
  BY CarriedTypes DEF Carried, InHandIsBacked
<1> QED BY <1>1, <1>2, <1>3, <1>4, <1>5 DEF Carried

\* A checkout makes an event.
LEMMA CheckoutMakes ==
    ASSUME TypeOK, Carried, HoldsCarryOn, BookingsCarryOn, WorkersCarryOn, EventsStay,
           NEW o \in Orders, NEW e \in Events, NobodyCarries(e), e \in Made',
           Posted(o)' = e, \A p \in Orders \ {o} : RequestCarriesOn(p)
    PROVE  Carried'
<1> USE DEF HoldsCarryOn, CarriesOn, BookingsCarryOn, BookingCarriesOn,
            RequestCarriesOn, WorkersCarryOn, WorkerCarriesOn, NobodyCarries
<1>0. e # None
  BY NullAssumption
<1>1. CarriedAreMade'
  BY DEF Carried, CarriedAreMade, EventsStay
<1>2. HoldsCarryTheirOwn'
  BY DEF Carried, HoldsCarryTheirOwn
<1>3. PostedIsAlone'
  BY <1>0 DEF Carried, PostedIsAlone
<1>4. BookedIsBacked'
  BY DEF Carried, BookedIsBacked
<1>5. InHandIsBacked'
  BY CarriedTypes DEF Carried, InHandIsBacked
<1> QED BY <1>1, <1>2, <1>3, <1>4, <1>5 DEF Carried

\* So does a confirmer.
LEMMA ConfirmerMakes ==
    ASSUME TypeOK, Carried, HoldsCarryOn, BookingsCarryOn, RequestsCarryOn, EventsStay,
           NEW w \in Workers, NEW e \in Events, NobodyCarries(e), e \in Made',
           InHand(w)' = e, \A v \in Workers \ {w} : WorkerCarriesOn(v)
    PROVE  Carried'
<1> USE DEF HoldsCarryOn, CarriesOn, BookingsCarryOn, BookingCarriesOn,
            RequestsCarryOn, RequestCarriesOn, WorkerCarriesOn, NobodyCarries
<1>0. e # None
  BY NullAssumption
<1>1. CarriedAreMade'
  BY DEF Carried, CarriedAreMade, EventsStay
<1>2. HoldsCarryTheirOwn'
  BY DEF Carried, HoldsCarryTheirOwn
<1>3. PostedIsAlone'
  BY <1>0 DEF Carried, PostedIsAlone
<1>4. BookedIsBacked'
  BY DEF Carried, BookedIsBacked
<1>5. InHandIsBacked'
  BY <1>0, CarriedTypes DEF Carried, InHandIsBacked
<1> QED BY <1>1, <1>2, <1>3, <1>4, <1>5 DEF Carried

\* A confirmer takes up the event of its booking.
LEMMA ConfirmerTakesUp ==
    ASSUME TypeOK, Carried, HoldsCarryOn, BookingsCarryOn, RequestsCarryOn, EventsStay,
           NEW w \in Workers, NEW o \in Orders, Booked(o) # None,
           InHand(w)' = Booked(o), worker'[w].order = o,
           \A v \in Workers \ {w} : WorkerCarriesOn(v)
    PROVE  Carried'
<1> USE DEF HoldsCarryOn, CarriesOn, BookingsCarryOn, BookingCarriesOn,
            RequestsCarryOn, RequestCarriesOn, WorkerCarriesOn
<1>1. CarriedAreMade'
  BY DEF Carried, CarriedAreMade, EventsStay
<1>2. HoldsCarryTheirOwn'
  BY DEF Carried, HoldsCarryTheirOwn
<1>3. PostedIsAlone'
  BY DEF Carried, PostedIsAlone
<1>4. BookedIsBacked'
  BY DEF Carried, BookedIsBacked
<1>5. InHandIsBacked'
  BY CarriedTypes DEF Carried, InHandIsBacked, BookedIsBacked
<1> QED BY <1>1, <1>2, <1>3, <1>4, <1>5 DEF Carried

\* A hold takes the event of a checkout.
LEMMA HoldTakesPosted ==
    ASSUME TypeOK, Carried, BookingsCarryOn, WorkersCarryOn, EventsStay,
           NEW o \in Orders, NEW h \in Holds, Posted(o) # None,
           hold'[h].event = Posted(o), \A k \in Holds \ {h} : CarriesOn(k),
           Posted(o)' = None, \A p \in Orders \ {o} : RequestCarriesOn(p)
    PROVE  Carried'
<1> USE DEF CarriesOn, BookingsCarryOn, BookingCarriesOn, RequestCarriesOn,
            WorkersCarryOn, WorkerCarriesOn
<1>0. /\ \A k \in Holds : hold[k].event # Posted(o)
      /\ \A p \in Orders : Booked(p) # Posted(o)
      /\ \A p \in Orders \ {o} : Posted(p) # Posted(o)
      /\ \A w \in Workers : InHand(w) # Posted(o)
  BY DEF Carried, PostedIsAlone
<1>1. CarriedAreMade'
  BY DEF Carried, CarriedAreMade, EventsStay
<1>2. HoldsCarryTheirOwn'
  BY <1>0 DEF Carried, HoldsCarryTheirOwn
<1>3. PostedIsAlone'
  BY <1>0 DEF Carried, PostedIsAlone
<1>4. BookedIsBacked'
  BY <1>0 DEF Carried, BookedIsBacked
<1>5. InHandIsBacked'
  BY <1>0, CarriedTypes DEF Carried, InHandIsBacked
<1> QED BY <1>1, <1>2, <1>3, <1>4, <1>5 DEF Carried

\* A settlement's booking takes the event of the held hold it converts.
LEMMA BookingTakesHeld ==
    ASSUME TypeOK, Carried, RequestsCarryOn, WorkersCarryOn, EventsStay,
           NEW o \in Orders, NEW h \in Holds, hold[h].status = "held",
           hold'[h].event = hold[h].event, hold'[h].status = "converted", hold'[h].order = o,
           \A k \in Holds \ {h} : CarriesOn(k),
           Booked(o)' = hold[h].event, booking[o].status # "cancelled",
           \A p \in Orders \ {o} : BookingCarriesOn(p)
    PROVE  Carried'
<1> USE DEF CarriesOn, BookingCarriesOn, RequestsCarryOn, RequestCarriesOn,
            WorkersCarryOn, WorkerCarriesOn
<1>1. CarriedAreMade'
  BY DEF Carried, CarriedAreMade, EventsStay
<1>2. HoldsCarryTheirOwn'
  BY DEF Carried, HoldsCarryTheirOwn
<1>3. PostedIsAlone'
  BY DEF Carried, PostedIsAlone
<1>4. BookedIsBacked'
  BY DEF Carried, BookedIsBacked, HoldsCarryTheirOwn
<1>5. InHandIsBacked'
  BY CarriedTypes DEF Carried, InHandIsBacked
<1> QED BY <1>1, <1>2, <1>3, <1>4, <1>5 DEF Carried

\* A confirmer's event is attached to its order's hold.
LEMMA HoldTakesInHand ==
    ASSUME TypeOK, Carried, BookingsCarryOn, RequestsCarryOn, EventsStay,
           NEW w \in Workers, NEW h \in Holds, InHand(w) # None,
           hold[h].status = "converted", hold[h].order = worker[w].order,
           hold'[h].status = "converted", hold'[h].order = worker[w].order,
           hold'[h].event = InHand(w), \A k \in Holds \ {h} : CarriesOn(k),
           \A k \in Holds : hold[k].event # InHand(w),
           WorkersCarryOn
    PROVE  Carried'
<1> USE DEF CarriesOn, BookingsCarryOn, BookingCarriesOn, RequestsCarryOn, RequestCarriesOn,
            WorkersCarryOn, WorkerCarriesOn
<1>1. CarriedAreMade'
  BY DEF Carried, CarriedAreMade, EventsStay
<1>2. HoldsCarryTheirOwn'
  BY DEF Carried, HoldsCarryTheirOwn
<1>3. PostedIsAlone'
  BY DEF Carried, PostedIsAlone
<1>4. BookedIsBacked'
  BY DEF Carried, BookedIsBacked, InHandIsBacked
<1>5. InHandIsBacked'
  BY CarriedTypes DEF Carried, InHandIsBacked
<1> QED BY <1>1, <1>2, <1>3, <1>4, <1>5 DEF Carried

\* A confirmer's event is recorded in the booking it works on.
LEMMA BookingTakesInHand ==
    ASSUME TypeOK, Carried, HoldsCarryOn, RequestsCarryOn, EventsStay,
           NEW w \in Workers, NEW o \in Orders, InHand(w) # None, worker[w].order = o,
           Booked(o)' = InHand(w), booking[o].status # "cancelled",
           \A p \in Orders \ {o} : BookingCarriesOn(p),
           WorkersCarryOn
    PROVE  Carried'
<1> USE DEF HoldsCarryOn, CarriesOn, BookingCarriesOn, RequestsCarryOn, RequestCarriesOn,
            WorkersCarryOn, WorkerCarriesOn
<1>1. CarriedAreMade'
  BY DEF Carried, CarriedAreMade, EventsStay
<1>2. HoldsCarryTheirOwn'
  BY DEF Carried, HoldsCarryTheirOwn
<1>3. PostedIsAlone'
  BY DEF Carried, PostedIsAlone
<1>4. BookedIsBacked'
  BY DEF Carried, BookedIsBacked, InHandIsBacked
<1>5. InHandIsBacked'
  BY CarriedTypes DEF Carried, InHandIsBacked
<1> QED BY <1>1, <1>2, <1>3, <1>4, <1>5 DEF Carried

\* A session is called off: its hold is given back, with the hold's event or,
\* when it has none, with the booking's.
LEMMA HoldTakesBooked ==
    ASSUME TypeOK, Carried, RequestsCarryOn, WorkersCarryOn, EventsStay,
           NEW o \in Orders, NEW h \in Holds,
           hold'[h].status = "released", hold'[h].order = o,
           \/ /\ hold[h].status = "converted" /\ hold[h].order = o
              /\ hold'[h].event = hold[h].event
           \/ /\ hold'[h].event = Booked(o)
              /\ \A k \in Holds \ {h} : Booked(o) # None => hold[k].event # Booked(o),
           \A k \in Holds \ {h} : CarriesOn(k),
           booking'[o].status = "cancelled", Booked(o)' = None,
           \A p \in Orders \ {o} : BookingCarriesOn(p)
    PROVE  Carried'
<1> USE DEF CarriesOn, BookingCarriesOn, RequestsCarryOn, RequestCarriesOn,
            WorkersCarryOn, WorkerCarriesOn
<1>1. CarriedAreMade'
  BY DEF Carried, CarriedAreMade, EventsStay
<1>2. HoldsCarryTheirOwn'
  BY DEF Carried, HoldsCarryTheirOwn
<1>3. PostedIsAlone'
  BY DEF Carried, PostedIsAlone
<1>4. BookedIsBacked'
  BY DEF Carried, BookedIsBacked
<1>5. InHandIsBacked'
  BY CarriedTypes DEF Carried, InHandIsBacked
<1> QED BY <1>1, <1>2, <1>3, <1>4, <1>5 DEF Carried

\* An order's time is given up with its holds, and nobody else works on it.
LEMMA OrderGivesUp ==
    ASSUME TypeOK, Carried, RequestsCarryOn, EventsStay, NEW w \in Workers, NEW o \in Orders,
           \A k \in Holds : (hold[k].status = "converted" /\ hold[k].order = o) \/ CarriesOn(k),
           \A k \in Holds : hold'[k].event = hold[k].event,
           Booked(o)' = None, booking[o].status = "cancelled" => booking'[o].status = "cancelled",
           \A p \in Orders \ {o} : BookingCarriesOn(p),
           InHand(w)' = None,
           \A v \in Workers \ {w} : WorkerCarriesOn(v) /\ (InHand(v) # None => worker[v].order # o)
    PROVE  Carried'
<1> USE DEF CarriesOn, BookingCarriesOn, RequestsCarryOn, RequestCarriesOn, WorkerCarriesOn
<1>1. CarriedAreMade'
  BY DEF Carried, CarriedAreMade, EventsStay
<1>2. HoldsCarryTheirOwn'
  BY DEF Carried, HoldsCarryTheirOwn
<1>3. PostedIsAlone'
  BY DEF Carried, PostedIsAlone
<1>4. BookedIsBacked'
  BY DEF Carried, BookedIsBacked
<1>5. InHandIsBacked'
  BY CarriedTypes DEF Carried, InHandIsBacked
<1> QED BY <1>1, <1>2, <1>3, <1>4, <1>5 DEF Carried

(***************************************************************************)
(* Each step is one of these.                                              *)
(***************************************************************************)

\* A table nobody writes goes on as it was.
LEMMA UnwrittenCarryOn ==
    /\ UNCHANGED hold => HoldsCarryOn
    /\ UNCHANGED booking => BookingsCarryOn
    /\ UNCHANGED checkout => RequestsCarryOn
    /\ UNCHANGED worker => WorkersCarryOn
    /\ UNCHANGED calendar => EventsStay
BY DEF HoldsCarryOn, CarriesOn, BookingsCarryOn, BookingCarriesOn, Booked, Timed,
       RequestsCarryOn, RequestCarriesOn, Posted, WorkersCarryOn, WorkerCarriesOn, InHand, Working,
       EventsStay, Made

\* Making an event makes that one, and unmakes none.
LEMMA AddEventMakes ==
    ASSUME TypeOK, NEW e \in Events, NEW s, NEW maker, NEW o, AddEvent(e, s, maker, o)
    PROVE  e \notin Made /\ e \in Made' /\ EventsStay
BY DEF TypeOK, TablesOK, AddEvent, FreshEvent, Made, EventsStay

\* Deleting or confirming one makes and unmakes none.
LEMMA EventKept ==
    ASSUME TypeOK, NEW e \in Events, NEW st \in {"confirmed", "gone"},
           calendar' = [calendar EXCEPT ![e].status = st]
    PROVE  EventsStay
BY DEF TypeOK, TablesOK, EventRow, Made, EventsStay

\* Giving holds back that were only held changes nothing that is carried.
LEMMA HeldReleaseCarries ==
    ASSUME TypeOK, NEW hs, hold' = Released(hs),
           \A h \in Holds : h \in hs => hold[h].status = "held"
    PROVE  HoldsCarryOn
BY ReleasedRows DEF TypeOK, TablesOK, HoldsCarryOn, CarriesOn

\* A request that moves on to a step other than posted carries nothing new.
LEMMA GoToCarries ==
    ASSUME TypeOK, NEW o \in Orders, NEW pc, pc # "posted", GoTo(o, pc)
    PROVE  RequestsCarryOn /\ Posted(o)' = None
BY DEF TypeOK, CheckoutTypeOK, GoTo, RequestsCarryOn, RequestCarriesOn, Posted

\* A checkout request.
LEMMA CheckoutCarries ==
    ASSUME TypeOK, Carried, NEW o \in Orders, CheckoutStep(o), UNCHANGED worker
    PROVE  Carried'
<1> USE DEF TypeOK, TablesOK
<1>0. WorkersCarryOn
  BY UnwrittenCarryOn
<1>1. CASE HoldSlot(o)
  <2>1. PICK s \in Slots, h \in Holds :
           /\ hold' = [Released(EarlierHolds(o)) EXCEPT ![h] =
                 [NoHold EXCEPT !.status = "held", !.slot = s, !.owner = Owner[o]]]
           /\ checkout' = [checkout EXCEPT ![o] = [pc |-> "held", hold |-> h, event |-> None]]
    BY <1>1 DEF HoldSlot
  <2>2. hold'[h].event = None
    BY <2>1, ReleasedRows DEF NoHold
  <2>3. \A k \in Holds \ {h} : hold'[k] = Released(EarlierHolds(o))[k]
    BY <2>1, ReleasedRows
  <2>4. \A k \in Holds : k \in EarlierHolds(o) => hold[k].status = "held"
    BY DEF EarlierHolds
  <2>5. HoldsCarryOn
    <3>1. ASSUME NEW k \in Holds, k # h
          PROVE  CarriesOn(k)
      BY <2>3, <2>4, <3>1, ReleasedRows DEF CarriesOn
    <3> QED BY <2>2, <3>1 DEF HoldsCarryOn, CarriesOn
  <2>6. RequestsCarryOn
    BY <2>1 DEF RequestsCarryOn, RequestCarriesOn, Posted, CheckoutTypeOK
  <2> QED BY <1>0, <1>1, <2>5, <2>6, UnwrittenCarryOn, NothingCarried DEF HoldSlot
<1>2. CASE PostTentative(o)
  <2>1. PICK e \in Events :
           /\ AddEvent(e, HeldSlot(o), "checkout", o)
           /\ checkout' = [checkout EXCEPT ![o].pc = "posted", ![o].event = e]
    BY <1>2 DEF PostTentative
  <2>2. Posted(o)' = e /\ \A p \in Orders \ {o} : RequestCarriesOn(p)
    BY <2>1 DEF Posted, RequestCarriesOn, CheckoutTypeOK
  <2>3. e \notin Made /\ e \in Made' /\ EventsStay
    BY <2>1, AddEventMakes
  <2> QED BY <1>0, <1>2, <2>2, <2>3, UnwrittenCarryOn, FreshIsUncarried, CheckoutMakes
          DEF PostTentative, Carried
<1>3. CASE AttachEvent(o)
  <2> DEFINE h == checkout[o].hold
  <2>1. /\ h \in Holds /\ Posted(o) \in Events
        /\ hold' = [hold EXCEPT ![h].event = Posted(o)]
        /\ GoTo(o, "blocked") /\ UNCHANGED <<booking, calendar>>
    BY <1>3 DEF AttachEvent, CheckoutTypeOK, Posted
  <2>2. hold'[h].event = Posted(o) /\ \A k \in Holds \ {h} : CarriesOn(k)
    BY <2>1 DEF CarriesOn, HoldRowsOK, HoldRow
  <2>3. Posted(o)' = None /\ \A p \in Orders \ {o} : RequestCarriesOn(p)
    BY <2>1, GoToCarries DEF RequestsCarryOn
  <2> QED BY <1>0, <2>1, <2>2, <2>3, UnwrittenCarryOn, NullAssumption, HoldTakesPosted
<1>4. CASE PersistOrder(o)
  <2> DEFINE h == checkout[o].hold
  <2>1. /\ h \in Holds /\ hold[h].status = "held"
        /\ hold' = [hold EXCEPT ![h].order = o]
        /\ booking' = [booking EXCEPT ![o].status = "awaiting_schedule"]
        /\ booking[o].status = "none"
    BY <1>4 DEF PersistOrder, CheckoutTypeOK, OrderRowsOK
  <2>2. HoldsCarryOn
    BY <2>1 DEF HoldsCarryOn, CarriesOn, HoldRowsOK, HoldRow
  <2>3. BookingsCarryOn
    BY <2>1 DEF BookingsCarryOn, BookingCarriesOn, Booked, Timed, OrderRowsOK, BookingRow
  <2>4. RequestsCarryOn /\ EventsStay
    BY <1>4, GoToCarries, UnwrittenCarryOn DEF PersistOrder
  <2> QED BY <1>0, <2>2, <2>3, <2>4, NothingCarried
<1>5. CASE ReleaseQuietly(o)
  <2>1. hold' = Released({checkout[o].hold} \cap {h \in Holds : hold[h].status = "held"})
        \/ UNCHANGED hold
    BY <1>5 DEF ReleaseQuietly
  <2>2. HoldsCarryOn
    BY <2>1, HeldReleaseCarries, UnwrittenCarryOn
  <2> QED BY <1>0, <1>5, <2>2, GoToCarries, UnwrittenCarryOn, NothingCarried DEF ReleaseQuietly
<1>6. CASE DropOrphan(o) \/ CalendarAnswerLost(o)
  <2>1. EventsStay
    <3>1. CASE DropOrphan(o)
      BY <3>1, EventKept, UnwrittenCarryOn DEF DropOrphan, DropEvent, CheckoutTypeOK
    <3>2. CASE CalendarAnswerLost(o)
      BY <3>2, AddEventMakes DEF CalendarAnswerLost
    <3> QED BY <1>6, <3>1, <3>2
  <2>2. UNCHANGED <<booking, hold>> /\ GoTo(o, "blocked")
    BY <1>6 DEF DropOrphan, CalendarAnswerLost
  <2> QED BY <1>0, <2>1, <2>2, GoToCarries, UnwrittenCarryOn, NothingCarried
<1>7. CASE CalendarRefuses(o) \/ CalendarUnreachable(o) \/ HoldNoLongerLive(o) \/ StartSession(o)
           \/ LinkSession(o) \/ CheckoutFails(o) \/ CheckoutCrashes(o) \/ EndCheckout(o)
  <2>1. /\ UNCHANGED tableVars
        /\ UNCHANGED checkout \/ GoTo(o, "releasing") \/ GoTo(o, "blocked") \/ GoTo(o, "started")
           \/ GoTo(o, "over")
    BY <1>7 DEF CalendarRefuses, CalendarUnreachable, HoldNoLongerLive, StartSession, LinkSession,
       CheckoutFails, CheckoutCrashes, EndCheckout
  <2>2. RequestsCarryOn
    BY <2>1, GoToCarries, UnwrittenCarryOn
  <2> QED BY <1>0, <2>1, <2>2, UnwrittenCarryOn, NothingCarried DEF tableVars
<1> QED BY <1>1, <1>2, <1>3, <1>4, <1>5, <1>6, <1>7 DEF CheckoutStep

\* A settlement: the order's booking had no time, so none of its holds was
\* converted.
LEMMA SettlementCarries ==
    ASSUME TypeOK, UnsettledWaits, DiaryInv, Carried, NEW o \in Orders, SettlementStep(o),
           UNCHANGED worker
    PROVE  Carried'
<1> USE DEF TypeOK, TablesOK
<1> DEFINE p == PaidHold(o)
<1>1. /\ session[o] # "none" /\ p \in Holds /\ booking[o].status = "awaiting_schedule"
      /\ UNCHANGED <<calendar, checkoutVars>>
  BY DEF SettlementStep, SettleOnHold, SettleOnRetakenTime, SettleWithoutTime, Paid, MaySettle,
         MayFail, ReleaseFailedOrder, CheckoutTypeOK, PaidHold, UnsettledWaits
<1>2. RequestsCarryOn /\ WorkersCarryOn /\ EventsStay
  BY <1>1, UnwrittenCarryOn DEF checkoutVars
<1>3. \A k \in Holds : hold[k].status = "converted" => hold[k].order # o
  BY <1>1 DEF DiaryInv, Backs, Timed
<1>4. CASE SettleOnHold(o)
  <2>1. /\ hold[p].status = "held" /\ hold[p].order = o
        /\ Book(o, hold[p].slot, hold[p].event, [hold EXCEPT ![p].status = "converted"])
    BY <1>4 DEF SettleOnHold, MayConvert
  <2> DEFINE claimed == [hold EXCEPT ![p].status = "converted"]
  <2>2. /\ claimed \in [Holds -> HoldRow]
        /\ claimed[p].status = "converted" /\ claimed[p].order = o
        /\ claimed[p].event = hold[p].event
        /\ \A k \in Holds \ {p} : claimed[k] = hold[k]
    BY <1>1, <2>1 DEF HoldRowsOK, HoldRow, HoldStatus
  <2>3. CASE BookingClash(o, hold[p].slot)
    <3>1. /\ UNCHANGED booking
          /\ \A k \in Holds : hold'[k] = claimed[k] \/ (claimed[k].status = "converted"
               /\ claimed[k].order = o /\ hold'[k] = [claimed[k] EXCEPT !.status = "released"])
      BY <2>1, <2>3 DEF Book
    <3>2. \A k \in Holds \ {p} : hold'[k] = hold[k]
      BY <1>3, <2>2, <3>1
    <3>3. hold'[p].event = hold[p].event
      BY <1>1, <2>2, <3>1 DEF HoldRow
    <3>4. HoldsCarryOn
      BY <2>1, <3>2, <3>3 DEF HoldsCarryOn, CarriesOn
    <3> QED BY <1>2, <3>1, <3>4, UnwrittenCarryOn, NothingCarried
  <2>4. CASE ~BookingClash(o, hold[p].slot)
    <3>1. hold' = claimed /\ Schedule(o, hold[p].slot, hold[p].event)
      BY <2>1, <2>4 DEF Book
    <3> HIDE DEF claimed, p
    <3>2. \A k \in Holds \ {p} : CarriesOn(k)
      BY <2>2, <3>1 DEF CarriesOn
    <3>3. Booked(o)' = hold[p].event /\ \A q \in Orders \ {o} : BookingCarriesOn(q)
      BY <3>1 DEF Schedule, Booked, Timed, BookingCarriesOn, OrderRowsOK
    <3> QED BY <1>1, <1>2, <2>1, <2>2, <3>1, <3>2, <3>3, BookingTakesHeld
  <2> QED BY <2>3, <2>4
<1>5. CASE SettleOnRetakenTime(o)
  <2> DEFINE s == hold[p].slot
             r == [NoHold EXCEPT !.status = "converted", !.slot = s, !.order = o,
                                 !.lapsed = TRUE]
  <2>1. PICK h \in Holds : Book(o, s, None, [hold EXCEPT ![h] = r])
    BY <1>5 DEF SettleOnRetakenTime
  <2> DEFINE claimed == [hold EXCEPT ![h] = r]
  <2>2. s \in Slots
    BY <1>1, <1>5 DEF SettleOnRetakenTime, MayRetake, HoldRowsOK
  <2>3. /\ claimed \in [Holds -> HoldRow] /\ claimed[h].event = None
        /\ \A k \in Holds \ {h} : claimed[k] = hold[k]
    BY <2>2 DEF HoldRowsOK, HoldRow, HoldStatus, NoHold
  <2>4. \A k \in Holds : hold'[k] = claimed[k] \/ (claimed[k].status = "converted"
             /\ claimed[k].order = o /\ hold'[k] = [claimed[k] EXCEPT !.status = "released"])
    BY <2>1 DEF Book
  <2>5. UNCHANGED booking \/ Schedule(o, s, None)
    BY <2>1 DEF Book
  <2> HIDE DEF claimed, s
  <2>6. \A k \in Holds \ {h} : hold'[k] = hold[k]
    BY <1>3, <2>3, <2>4
  <2>7. hold'[h].event = None
    <3>1. claimed[h] \in HoldRow
      BY <2>3
    <3>2. [claimed[h] EXCEPT !.status = "released"].event = claimed[h].event
      BY <3>1 DEF HoldRow
    <3> QED BY <2>3, <2>4, <3>2
  <2>8. HoldsCarryOn
    BY <2>6, <2>7 DEF HoldsCarryOn, CarriesOn
  <2>9. BookingsCarryOn
    BY <1>1, <2>5, UnwrittenCarryOn
       DEF Schedule, BookingsCarryOn, BookingCarriesOn, Booked, Timed, OrderRowsOK
  <2> QED BY <1>2, <2>8, <2>9, NothingCarried
<1>6. CASE SettleWithoutTime(o)
  BY <1>2, <1>6, UnwrittenCarryOn, NothingCarried DEF SettleWithoutTime
<1>7. CASE ReleaseFailedOrder(o)
  <2>1. HoldsCarryOn
    BY <1>7, HeldReleaseCarries DEF ReleaseFailedOrder
  <2> QED BY <1>2, <1>7, <2>1, UnwrittenCarryOn, NothingCarried DEF ReleaseFailedOrder
<1> QED BY <1>4, <1>5, <1>6, <1>7 DEF SettlementStep

\* Choosing a time, placing one, calling off and refunding.
LEMMA AfterSaleCarries ==
    ASSUME TypeOK, HoldsDoNotOverlap, DiaryInv, Carried, NEW o \in Orders,
           \/ ChooseTime(o) \/ PlaceByHand(o)
           \/ CancelBooking(o) \/ RefundInFull(o) \/ RefundInPart(o)
    PROVE  Carried'
<1> USE DEF TypeOK, TablesOK
<1>1. RequestsCarryOn /\ WorkersCarryOn /\ EventsStay
  <2>1. UNCHANGED <<calendar, checkout, worker>>
    BY DEF ChooseTime, PlaceByHand, CancelBooking, RefundInFull, RefundInPart, others, checkoutVars
  <2> QED BY <2>1, UnwrittenCarryOn
<1>2. CASE ChooseTime(o) \/ PlaceByHand(o)
  <2>1. /\ booking[o].status = "awaiting_schedule"
        /\ \E s \in Slots : Schedule(o, s, None)
    BY <1>2 DEF ChooseTime, PlaceByHand
  <2>2. BookingsCarryOn
    BY <2>1 DEF Schedule, BookingsCarryOn, BookingCarriesOn, Booked, Timed, OrderRowsOK
  <2>3. HoldsCarryOn
    <3>1. CASE ChooseTime(o)
      <4>1. PICK h \in Holds, s \in Slots : hold' = [hold EXCEPT ![h] = [NoHold EXCEPT
               !.status = "converted", !.slot = s, !.order = o, !.lapsed = TRUE]]
        BY <3>1 DEF ChooseTime
      <4>2. hold'[h].event = None /\ \A k \in Holds \ {h} : hold'[k] = hold[k]
        BY <4>1 DEF HoldRowsOK, NoHold
      <4> QED BY <4>2 DEF HoldsCarryOn, CarriesOn
    <3>2. CASE PlaceByHand(o)
      BY <3>2, UnwrittenCarryOn DEF PlaceByHand
    <3> QED BY <1>2, <3>1, <3>2
  <2> QED BY <1>1, <2>2, <2>3, NothingCarried
<1>3. CASE CancelOpenBooking(o)
  <2> DEFINE b == booking[o]
             backing == ConvertedHolds(o, b.slot)
             given(h) == [hold[h] EXCEPT !.status = "released",
                                         !.event = IF @ = None THEN b.event ELSE @]
  <2>1. booking'[o].status = "cancelled" /\ \A p \in Orders \ {o} : booking'[p] = booking[p]
    BY <1>3 DEF CancelOpenBooking, OrderRowsOK, BookingRow
  <2>2. Booked(o)' = None /\ \A p \in Orders \ {o} : BookingCarriesOn(p)
    BY <2>1 DEF Booked, Timed, BookingCarriesOn
  <2>3. b.event = Booked(o)
    BY <1>3 DEF CancelOpenBooking, Booked, Timed, OrderRowsOK
  <2>4. \A k \in Holds : hold[k].event = Booked(o) /\ Booked(o) # None => k \in backing
    BY DEF Carried, BookedIsBacked, DiaryInv, Backs, ConvertedHolds
  <2>5. CASE backing = {} /\ b.event # None
    <3>1. PICK h \in Holds : hold' = [hold EXCEPT ![h] = [NoHold EXCEPT
             !.status = "released", !.slot = b.slot, !.order = o,
             !.event = b.event, !.lapsed = TRUE]]
      BY <1>3, <2>5 DEF CancelOpenBooking
    <3>2. /\ hold'[h].status = "released" /\ hold'[h].order = o /\ hold'[h].event = Booked(o)
          /\ \A k \in Holds \ {h} : CarriesOn(k)
      BY <2>3, <3>1 DEF NoHold, HoldRowsOK, CarriesOn
    <3> HIDE DEF b, backing
    <3> QED BY <1>1, <2>1, <2>2, <2>4, <2>5, <3>2, HoldTakesBooked
  <2>6. CASE ~(backing = {} /\ b.event # None)
    <3>1. hold' = [h \in Holds |-> IF h \in backing THEN given(h) ELSE hold[h]]
      BY <1>3, <2>6 DEF CancelOpenBooking
    <3>2. \A h \in Holds : /\ given(h).status = "released" /\ given(h).order = hold[h].order
                           /\ given(h).event = IF hold[h].event = None THEN b.event
                                                                      ELSE hold[h].event
      BY DEF HoldRowsOK, HoldRow
    <3>3. \A h \in backing : h \in Holds /\ hold[h].status = "converted" /\ hold[h].order = o
      BY DEF ConvertedHolds
    <3>4. \A h, k \in backing : h = k
      BY OverlapAssumption DEF ConvertedHolds, HoldsDoNotOverlap, Blocking, Clash, HoldRowsOK
    <3> HIDE DEF given, backing, b
    <3>5. CASE backing = {}
      <4>1. UNCHANGED hold
        BY <3>1, <3>5 DEF HoldRowsOK
      <4>2. BookingsCarryOn
        BY <2>1, <2>2 DEF BookingsCarryOn, BookingCarriesOn
      <4> QED BY <1>1, <4>1, <4>2, UnwrittenCarryOn, NothingCarried
    <3>6. CASE backing # {}
      <4>1. PICK h \in backing : TRUE
        BY <3>6
      <4>2. \A k \in Holds \ {h} : hold'[k] = hold[k] /\ k \notin backing
        BY <3>1, <3>4, <4>1
      <4>3. /\ h \in Holds /\ hold[h].status = "converted" /\ hold[h].order = o
            /\ hold'[h] = given(h)
        BY <3>1, <3>3, <4>1
      <4>4. /\ hold'[h].status = "released" /\ hold'[h].order = o
            /\ hold'[h].event = hold[h].event \/ hold'[h].event = Booked(o)
        BY <2>3, <3>2, <4>3
      <4>5. \A k \in Holds \ {h} : CarriesOn(k) /\ (Booked(o) # None => hold[k].event # Booked(o))
        BY <2>4, <4>2 DEF CarriesOn
      <4> QED BY <1>1, <2>1, <2>2, <4>3, <4>4, <4>5, HoldTakesBooked
    <3> QED BY <3>5, <3>6
  <2> QED BY <2>5, <2>6
<1>4. CASE UNCHANGED <<booking, hold>>
  BY <1>1, <1>4, UnwrittenCarryOn, NothingCarried
<1> QED BY <1>2, <1>3, <1>4 DEF CancelBooking, RefundInFull, RefundInPart

\* A confirmer that moves on within its order, or is finished.
LEMMA MoveCarries ==
    ASSUME TypeOK, NEW w \in Workers, Finish(w) \/ \E pc : Working(w) /\ Move(w, pc)
    PROVE  WorkersCarryOn
BY DEF TypeOK, ConfirmationTypeOK, Finish, Move, IdleWorker, WorkersCarryOn, WorkerCarriesOn,
       InHand, Working

LEMMA FinishCarries ==
    ASSUME TypeOK, NEW w \in Workers, Finish(w)
    PROVE  InHand(w)' = None /\ \A v \in Workers \ {w} : WorkerCarriesOn(v)
BY DEF TypeOK, ConfirmationTypeOK, Finish, IdleWorker, WorkerCarriesOn, InHand, Working

\* A confirmer makes an event when none is there under its key, attaches it to
\* the hold that backs its booking, and records it in that booking.
LEMMA ConfirmationCarries ==
    ASSUME TypeOK, HoldsDoNotOverlap, OneAtATime, DiaryInv, Carried, KeyIsFree,
           NEW w \in Workers, ConfirmationStep(w), UNCHANGED checkoutVars
    PROVE  Carried'
<1> USE DEF TypeOK, TablesOK
<1> DEFINE o == worker[w].order
<1>1. RequestsCarryOn
  BY UnwrittenCarryOn DEF checkoutVars
<1>2. ASSUME NEW q \in Orders, Begin(w, q)
      PROVE  Carried'
  <2>1. /\ UNCHANGED <<hold, booking, calendar>>
        /\ InHand(w)' = booking[q].event /\ worker'[w].order = q
        /\ booking[q].event = Booked(q)
        /\ \A v \in Workers \ {w} : WorkerCarriesOn(v)
    BY <1>2 DEF Begin, tableVars, InHand, Working, WorkerCarriesOn, ConfirmationTypeOK, Booked, Timed
  <2>2. CASE Booked(q) # None
    BY <1>1, <2>1, <2>2, UnwrittenCarryOn, ConfirmerTakesUp
  <2>3. CASE Booked(q) = None
    <3>1. WorkersCarryOn
      BY <2>1, <2>3 DEF WorkersCarryOn, WorkerCarriesOn
    <3> QED BY <1>1, <2>1, <3>1, UnwrittenCarryOn, NothingCarried
  <2> QED BY <2>2, <2>3
<1>3. CASE Post(w)
  <2>1. PICK e \in Events :
           /\ AddEvent(e, worker[w].slot, "confirmation", o)
           /\ worker' = [worker EXCEPT ![w].pc = "attach", ![w].event = e]
    BY <1>3 DEF Post, KeyIsFree
  <2>2. InHand(w)' = e /\ \A v \in Workers \ {w} : WorkerCarriesOn(v)
    BY <2>1 DEF InHand, Working, WorkerCarriesOn, ConfirmationTypeOK
  <2>3. e \notin Made /\ e \in Made' /\ EventsStay
    BY <2>1, AddEventMakes
  <2> QED BY <1>1, <1>3, <2>2, <2>3, UnwrittenCarryOn, FreshIsUncarried, ConfirmerMakes
          DEF Post, tables, Carried
<1>4. CASE Attach(w)
  <2> DEFINE e == worker[w].event
             open == {h \in ConvertedHolds(o, worker[w].slot) : hold[h].event = None}
  <2>1. /\ hold' = [h \in Holds |-> IF h \in open THEN [hold[h] EXCEPT !.event = e] ELSE hold[h]]
        /\ UNCHANGED <<booking, calendar>>
        /\ Working(w) /\ o \in Orders /\ worker[w].slot \in Slots /\ e \in Events /\ InHand(w) = e
        /\ worker' = [worker EXCEPT ![w].pc = "promote", ![w].unowned = (open = {})]
    BY <1>4 DEF Attach, Working, InHand, ConfirmationTypeOK
  <2>2. WorkersCarryOn
    BY <2>1 DEF WorkersCarryOn, WorkerCarriesOn, InHand, Working, ConfirmationTypeOK
  <2>3. \A h \in open : h \in Holds /\ hold[h].status = "converted" /\ hold[h].order = o
                         /\ hold[h].slot = worker[w].slot /\ hold[h].event = None
    BY DEF ConvertedHolds
  <2>4. \A h, k \in Holds : /\ hold[h].status = "converted" /\ hold[h].order = o
                             /\ hold[k].status = "converted" /\ hold[k].order = o
                             => h = k
    <3> SUFFICES ASSUME NEW h \in Holds, NEW k \in Holds, h # k,
                        hold[h].status = "converted", hold[h].order = o,
                        hold[k].status = "converted", hold[k].order = o
                 PROVE  FALSE
      OBVIOUS
    <3>1. hold[h].slot = booking[o].slot /\ hold[k].slot = booking[o].slot
      BY DEF DiaryInv, Backs
    <3>2. hold[h].slot \in Slots
      BY DEF HoldRowsOK
    <3> QED BY <3>1, <3>2, OverlapAssumption DEF HoldsDoNotOverlap, Blocking, Clash
  <2> HIDE DEF open
  <2>5. CASE open = {}
    <3>1. UNCHANGED hold
      BY <2>1, <2>5 DEF HoldRowsOK
    <3> QED BY <1>1, <2>1, <2>2, <3>1, UnwrittenCarryOn, NothingCarried
  <2>6. CASE open # {}
    <3>1. PICK h \in open : TRUE
      BY <2>6
    <3>2. \A k \in Holds \ {h} : hold'[k] = hold[k]
      BY <2>1, <2>3, <2>4, <3>1
    <3>3. hold'[h] = [hold[h] EXCEPT !.event = e] /\ h \in Holds /\ hold[h] \in HoldRow
      BY <2>1, <2>3, <3>1 DEF HoldRowsOK
    <3>4. /\ hold'[h].status = "converted" /\ hold'[h].order = o /\ hold'[h].event = e
          /\ hold[h].status = "converted" /\ hold[h].order = o /\ hold[h].event = None
      BY <2>3, <3>1, <3>3 DEF HoldRow
    <3>5. booking[o].status # "cancelled"
      BY <2>1, <3>3, <3>4 DEF DiaryInv, Backs, Timed
    <3>6. e # None
      BY <2>1, NullAssumption
    <3>7. \A k \in Holds : hold[k].event # e
      BY <2>1, <2>4, <3>3, <3>4, <3>5, <3>6 DEF Carried, InHandIsBacked
    <3>8. \A k \in Holds \ {h} : CarriesOn(k)
      BY <3>2 DEF CarriesOn
    <3> QED BY <1>1, <2>1, <2>2, <3>3, <3>4, <3>6, <3>7, <3>8, UnwrittenCarryOn, HoldTakesInHand
  <2> QED BY <2>5, <2>6
<1>5. CASE Record(w)
  <2>0. PICK q \in Orders : q = worker[w].order
    BY <1>5 DEF Record, ConfirmationTypeOK
  <2>1. /\ Working(w) /\ q = worker[w].order /\ worker[w].event \in Events
        /\ UNCHANGED <<hold, calendar>> /\ booking[q].status = "scheduled"
        /\ InHand(w) = worker[w].event /\ Finish(w)
        /\ booking'[q].status = "confirmed" /\ booking'[q].event = worker[w].event
        /\ \A p \in Orders \ {q} : booking'[p] = booking[p]
    BY <1>5, <2>0 DEF Record, Working, InHand, ConfirmationTypeOK, OrderRowsOK, BookingRow
  <2>2. /\ Booked(q)' = InHand(w) /\ \A p \in Orders \ {q} : BookingCarriesOn(p)
        /\ InHand(w) # None
    BY <2>1, NullAssumption DEF Booked, Timed, BookingCarriesOn
  <2> QED BY <1>1, <2>1, <2>2, UnwrittenCarryOn, MoveCarries, BookingTakesInHand
<1>6. CASE ReturnToWaiting(w)
  <2>0. PICK q \in Orders : q = worker[w].order
    BY <1>6 DEF ReturnToWaiting, ConfirmationTypeOK
  <2>1. /\ Working(w) /\ q = worker[w].order /\ Finish(w) /\ UNCHANGED calendar
        /\ hold' = Released(ConvertedHolds(q, worker[w].slot))
        /\ \A p \in Orders \ {q} : booking'[p] = booking[p]
        /\ booking[q].status = "scheduled" => booking'[q].status = "awaiting_schedule"
        /\ booking[q].status # "scheduled" => booking'[q] = booking[q]
    BY <1>6, <2>0 DEF ReturnToWaiting, Working, ConfirmationTypeOK, OrderRowsOK, BookingRow
  <2>2. booking[q].status \in {"scheduled", "cancelled"}
    BY <2>1 DEF DiaryInv, Unmoved
  <2>3. /\ Booked(q)' = None /\ \A p \in Orders \ {q} : BookingCarriesOn(p)
        /\ booking[q].status = "cancelled" => booking'[q].status = "cancelled"
    BY <2>1, <2>2 DEF Booked, Timed, BookingCarriesOn
  <2>4. \A k \in Holds : \/ (hold[k].status = "converted" /\ hold[k].order = q)
                         \/ k \notin ConvertedHolds(q, worker[w].slot)
    BY DEF ConvertedHolds
  <2>5. /\ \A k \in Holds : (hold[k].status = "converted" /\ hold[k].order = q) \/ CarriesOn(k)
        /\ \A k \in Holds : hold'[k].event = hold[k].event
    BY <2>1, <2>4, ReleasedRows DEF CarriesOn
  <2>6. \A v \in Workers \ {w} : InHand(v) # None => worker[v].order # q
    BY <2>1 DEF OneAtATime, InHand
  <2> QED BY <1>1, <2>1, <2>3, <2>5, <2>6, UnwrittenCarryOn, FinishCarries, OrderGivesUp
<1>7. CASE Check(w) \/ PostAnswerLost(w) \/ Promote(w) \/ PromoteWithoutLink(w) \/ EventIsGone(w)
           \/ RecordFindsItChanged(w) \/ Cleanup(w) \/ CalendarFails(w) \/ WorkerCrashes(w)
  <2>1. UNCHANGED <<booking, hold>> /\ (Finish(w) \/ \E pc : Working(w) /\ Move(w, pc))
    BY <1>7 DEF Check, PostAnswerLost, Promote, PromoteWithoutLink, EventIsGone,
       RecordFindsItChanged, Cleanup, CalendarFails, WorkerCrashes, tableVars, tables, Working
  <2>2. EventsStay
    <3>1. CASE PostAnswerLost(w)
      BY <3>1, AddEventMakes DEF PostAnswerLost
    <3>2. CASE Promote(w) \/ PromoteWithoutLink(w) \/ Cleanup(w)
      BY <3>2, EventKept, UnwrittenCarryOn
         DEF Promote, PromoteWithoutLink, Cleanup, DropEvent, ConfirmationTypeOK
    <3>3. CASE UNCHANGED calendar
      BY <3>3, UnwrittenCarryOn
    <3> QED BY <1>7, <3>1, <3>2, <3>3
            DEF Check, EventIsGone, RecordFindsItChanged, CalendarFails, WorkerCrashes, tableVars
  <2> QED BY <1>1, <2>1, <2>2, UnwrittenCarryOn, MoveCarries, NothingCarried
<1> QED BY <1>2, <1>3, <1>4, <1>5, <1>6, <1>7 DEF ConfirmationStep

(***************************************************************************)
(* The key of a confirmer's event.                                         *)
(***************************************************************************)

\* No event that stands under a confirmer's key is new.
KeysKept ==
    \A e \in Events : Live(e)' /\ calendar'[e].maker = "confirmation" =>
        /\ Live(e) /\ calendar[e].maker = "confirmation"
        /\ calendar'[e].order = calendar[e].order /\ calendar'[e].slot = calendar[e].slot

\* Deleting an event, confirming one, and making one for a checkout or the
\* coach, puts none under a key.
LEMMA OtherKeys ==
    ASSUME TypeOK,
           \/ UNCHANGED calendar
           \/ \E e \in Events : DropEvent(e)
           \/ \E e \in Events : Live(e) /\ calendar' = [calendar EXCEPT ![e].status = "confirmed"]
           \/ \E e \in Events, s \in Slots, maker \in {"checkout", "coach"}, o \in Orders \cup {None} :
                AddEvent(e, s, maker, o)
    PROVE  KeysKept
<1> USE DEF TypeOK, TablesOK
<1>1. CASE UNCHANGED calendar
  BY <1>1 DEF KeysKept, Live
<1>2. CASE \E e \in Events : DropEvent(e)
  BY <1>2 DEF DropEvent, KeysKept, Live, EventRow
<1>3. CASE \E e \in Events : Live(e) /\ calendar' = [calendar EXCEPT ![e].status = "confirmed"]
  BY <1>3 DEF KeysKept, Live, EventRow
<1>4. CASE \E e \in Events, s \in Slots, maker \in {"checkout", "coach"}, o \in Orders \cup {None} :
             AddEvent(e, s, maker, o)
  BY <1>4 DEF AddEvent, KeysKept, Live
<1> QED BY <1>1, <1>2, <1>3, <1>4

\* So a confirmer that was about to make one still finds none.
LEMMA KeysStayFree ==
    ASSUME TypeOK, KeyIsFree, KeysKept, NEW w \in Workers, worker[w].pc = "post",
           worker'[w].order = worker[w].order, worker'[w].slot = worker[w].slot
    PROVE  Keyed(w)' = {}
BY DEF KeyIsFree, KeysKept, Keyed

\* A confirmer comes to its post by finding its time free on the calendar, and
\* until then only another confirmer of the same order could fill its key.
LEMMA ConfirmationKeys ==
    ASSUME TypeOK, OneAtATime, KeyIsFree, NEW v \in Workers, ConfirmationStep(v)
    PROVE  KeyIsFree'
<1> USE DEF TypeOK, TablesOK
<1> SUFFICES ASSUME NEW w \in Workers, worker'[w].pc = "post"
             PROVE  Keyed(w)' = {}
  BY DEF KeyIsFree
<1>1. CASE Check(v) /\ w = v
  <2>1. /\ UNCHANGED calendar /\ Bookable(worker[w].slot) /\ worker[w].slot \in Slots
        /\ worker'[w].order = worker[w].order /\ worker'[w].slot = worker[w].slot
    BY <1>1 DEF Check, Move, tableVars, ConfirmationTypeOK
  <2>2. <<worker[w].slot, worker[w].slot>> \in Near
    BY <2>1, OverlapAssumption
  <2>3. Keyed(w) = {}
    BY <2>1, <2>2 DEF Bookable, Busy, Keyed
  <2> QED BY <2>1, <2>3 DEF Keyed, Live
<1>2. CASE ~(Check(v) /\ w = v)
  <2>1. w # v
    BY <1>2 DEF ConfirmationStep, Begin, Check, Post, PostAnswerLost, Attach, Promote,
       PromoteWithoutLink, EventIsGone, Record, RecordFindsItChanged, Cleanup, ReturnToWaiting,
       CalendarFails, WorkerCrashes, Move, Finish, IdleWorker, ConfirmationTypeOK
  <2>2. worker'[w] = worker[w] /\ worker[w].pc = "post"
    BY <2>1 DEF ConfirmationStep, Begin, Check, Post, PostAnswerLost, Attach, Promote,
       PromoteWithoutLink, EventIsGone, Record, RecordFindsItChanged, Cleanup, ReturnToWaiting,
       CalendarFails, WorkerCrashes, Move, Finish, ConfirmationTypeOK
  <2>3. CASE Post(v) \/ PostAnswerLost(v)
    <3>1. worker[v].order # worker[w].order
      BY <2>1, <2>2, <2>3 DEF Post, PostAnswerLost, OneAtATime, Working
    <3>2. \/ UNCHANGED calendar
          \/ \E e \in Events : AddEvent(e, worker[v].slot, "confirmation", worker[v].order)
      BY <2>3 DEF Post, PostAnswerLost
    <3> QED BY <2>2, <3>1, <3>2 DEF AddEvent, KeyIsFree, Keyed, Live
  <2>4. CASE ~Post(v) /\ ~PostAnswerLost(v)
    <3>1. \/ UNCHANGED calendar
          \/ \E e \in Events : DropEvent(e)
          \/ \E e \in Events : Live(e) /\ calendar' = [calendar EXCEPT ![e].status = "confirmed"]
      BY <2>4 DEF ConfirmationStep, Begin, Check, Attach, Promote, PromoteWithoutLink, EventIsGone,
         Record, RecordFindsItChanged, Cleanup, ReturnToWaiting, CalendarFails, WorkerCrashes,
         tableVars, ConfirmationTypeOK
    <3>2. KeysKept
      BY <3>1, OtherKeys
    <3> QED BY <2>2, <3>2, KeysStayFree
  <2> QED BY <2>3, <2>4
<1> QED BY <1>1, <1>2

\* Nobody else fills one.
LEMMA OtherStepsKeys ==
    ASSUME TypeOK, KeyIsFree,
           \/ \E o \in Orders : OrderStep(o)
           \/ \E h \in Holds : HoldStep(h)
           \/ WorldStep
    PROVE  KeyIsFree'
<1> USE DEF TypeOK, TablesOK
<1>1. worker' = worker
  BY DEF OrderStep, ChooseTime, PlaceByHand, CancelBooking, RefundInFull, RefundInPart, HoldStep,
         LapseHold, ClaimExpiredHold, DeleteReleasedEvent, MarkCalendarReleased, WorldStep,
         TimePasses, CoachAdds, CoachDeletes, others
<1>2. KeysKept
  <2>1. ASSUME NEW o \in Orders, OrderStep(o)
        PROVE  KeysKept
    <3>1. CASE PostTentative(o) \/ CalendarAnswerLost(o)
      <4>1. HeldSlot(o) \in Slots
        BY <3>1 DEF PostTentative, CalendarAnswerLost, HeldSlot, CheckoutTypeOK, HoldRowsOK
      <4> QED BY <3>1, <4>1, OtherKeys DEF PostTentative, CalendarAnswerLost
    <3>2. CASE DropOrphan(o)
      BY <3>2, OtherKeys DEF DropOrphan, CheckoutTypeOK
    <3>3. CASE ~(PostTentative(o) \/ CalendarAnswerLost(o) \/ DropOrphan(o))
      <4>1. UNCHANGED calendar
        BY <2>1, <3>3 DEF OrderStep, CheckoutStep, HoldSlot, CalendarRefuses, CalendarUnreachable,
           AttachEvent, PersistOrder, HoldNoLongerLive, StartSession, LinkSession, CheckoutFails,
           ReleaseQuietly, CheckoutCrashes, EndCheckout, StripeMoves, SettlementStep,
           SettleOnHold, SettleOnRetakenTime, SettleWithoutTime, Paid, ReleaseFailedOrder,
           ChooseTime, PlaceByHand, CancelBooking, RefundInFull, RefundInPart, tableVars
      <4> QED BY <4>1, OtherKeys
    <3> QED BY <3>1, <3>2, <3>3
  <2>2. ASSUME NEW h \in Holds, HoldStep(h)
        PROVE  KeysKept
    <3>1. UNCHANGED calendar \/ \E e \in Events : DropEvent(e)
      BY <2>2 DEF HoldStep, LapseHold, ClaimExpiredHold, DeleteReleasedEvent, MarkCalendarReleased,
                  AwaitsCalendarRelease, HoldRowsOK, HoldRow
    <3> QED BY <3>1, OtherKeys
  <2>3. CASE WorldStep
    BY <2>3, OtherKeys DEF WorldStep, TimePasses, CoachAdds, CoachDeletes
  <2> QED BY <2>1, <2>2, <2>3
<1> QED BY <1>1, <1>2, KeysStayFree DEF KeyIsFree

(***************************************************************************)
(* The sweep deletes no open session's event.                              *)
(***************************************************************************)

EventInv == Carried /\ KeyIsFree

\* The countdown and the sweep change no event that is carried, and the world
\* carries none.
LEMMA SweepCarries ==
    ASSUME TypeOK, Carried, (\E h \in Holds : HoldStep(h)) \/ WorldStep
    PROVE  Carried'
<1> USE DEF TypeOK, TablesOK
<1>1. UNCHANGED <<booking, checkout, worker>>
  BY DEF HoldStep, LapseHold, ClaimExpiredHold, DeleteReleasedEvent, MarkCalendarReleased,
         WorldStep, TimePasses, CoachAdds, CoachDeletes, tables, others, checkoutVars
<1>2. ASSUME NEW h \in Holds, HoldStep(h)
      PROVE  HoldsCarryOn /\ EventsStay
  <2>1. CASE DeleteReleasedEvent(h)
    BY <2>1, UnwrittenCarryOn, EventKept
       DEF DeleteReleasedEvent, DropEvent, AwaitsCalendarRelease, tables, HoldRowsOK, HoldRow
  <2>2. CASE LapseHold(h) \/ ClaimExpiredHold(h) \/ MarkCalendarReleased(h)
    <3>1. UNCHANGED calendar
      BY <2>2 DEF LapseHold, ClaimExpiredHold, MarkCalendarReleased
    <3>2. PICK r : /\ hold' = [hold EXCEPT ![h] = r]
                   /\ \/ r = [hold[h] EXCEPT !.lapsed = TRUE]
                      \/ r = [hold[h] EXCEPT !.cleared = TRUE]
                      \/ r = [hold[h] EXCEPT !.status = "expired"] /\ hold[h].status = "held"
      BY <2>2 DEF LapseHold, ClaimExpiredHold, MarkCalendarReleased
    <3>3. /\ r.event = hold[h].event /\ r.order = hold[h].order
          /\ r.status = hold[h].status \/ hold[h].status = "held"
      BY <3>2 DEF HoldRowsOK, HoldRow
    <3>4. HoldsCarryOn
      BY <3>2, <3>3 DEF HoldsCarryOn, CarriesOn, HoldRowsOK
    <3> QED BY <3>1, <3>4, UnwrittenCarryOn
  <2> QED BY <1>2, <2>1, <2>2 DEF HoldStep
<1>3. ASSUME WorldStep
      PROVE  HoldsCarryOn /\ EventsStay
  <2>1. UNCHANGED hold
    BY <1>3 DEF WorldStep, TimePasses, CoachAdds, CoachDeletes, tables
  <2>2. EventsStay
    BY <1>3, UnwrittenCarryOn, AddEventMakes, EventKept
       DEF WorldStep, TimePasses, CoachAdds, CoachDeletes, DropEvent
  <2> QED BY <2>1, <2>2, UnwrittenCarryOn
<1> QED BY <1>1, <1>2, <1>3, UnwrittenCarryOn, NothingCarried

\* EventInv is inductive while no two confirmers work on one order.
LEMMA EventStep ==
    ASSUME TypeOK, UnsettledWaits, HoldsDoNotOverlap, OneAtATime, DiaryInv, EventInv, [Next]_vars
    PROVE  EventInv'
<1>1. CASE UNCHANGED vars
  <2>1. KeyIsFree'
    BY <1>1 DEF vars, tableVars, EventInv, KeyIsFree, Keyed, Live
  <2> QED BY <1>1, <2>1, UnwrittenCarryOn, NothingCarried DEF vars, tableVars, checkoutVars, EventInv
<1>2. ASSUME NEW o \in Orders, OrderStep(o)
      PROVE  Carried'
  <2>1. CASE StripeMoves(o) /\ UNCHANGED worker
    BY <2>1, UnwrittenCarryOn, NothingCarried DEF StripeMoves, tableVars, EventInv
  <2> QED BY <1>2, <2>1, CheckoutCarries, SettlementCarries, AfterSaleCarries DEF OrderStep, EventInv
<1>3. ASSUME NEW w \in Workers, ConfirmationStep(w), UNCHANGED checkoutVars
      PROVE  EventInv'
  BY <1>3, ConfirmationCarries, ConfirmationKeys DEF EventInv
<1> QED BY <1>1, <1>2, <1>3, SweepCarries, OtherStepsKeys DEF Next, EventInv

\* At first nothing is carried.
LEMMA EventInit == Init => EventInv
BY DEF Init, TablesInit, CheckoutInit, ConfirmationInit, IdleWorker, NoHold, NoBooking, EventInv,
       Carried, CarriedAreMade, HoldsCarryTheirOwn, PostedIsAlone, BookedIsBacked, InHandIsBacked,
       KeyIsFree, Booked, Timed, Posted, InHand, Working

\* So it holds always.
LEMMA EventAlways == Spec /\ []OneAtATime => []EventInv
BY EventInit, EventStep, TypeCorrect, UnsettledWaitsAlways, HoldsNeverOverlap, DiaryAlways, PTL
   DEF Spec

\* The release sweep deletes the event of a hold that was given up, and that is
\* never the event of a session somebody still has: not by a settlement that
\* took the hold over, not by a confirmer that attached it, not by a retry that
\* was given the event of an earlier attempt.
THEOREM SweepSparesSessions == Spec /\ []OneAtATime => []SweepDeletesNoOpenSession
<1>1. TypeOK /\ EventInv => SweepDeletesNoOpenSession
  BY DEF EventInv, Carried, BookedIsBacked, Booked, AwaitsCalendarRelease, SweepDeletesNoOpenSession
<1> QED BY <1>1, TypeCorrect, EventAlways, PTL

(***************************************************************************)
(* Every event has somebody who will delete it.                            *)
(***************************************************************************)

\* No process dies, no checkout throws, which may be between making its event and attaching
\* it, and the calendar answers every request, with its link.
NothingFails ==
    {"crash", "checkout_error", "lost_answer", "calendar_down", "no_link"} \cap Env = {}

\* A row nobody has used carries nothing, and an event recorded as deleted is.
HoldsTell == \A h \in Holds :
    /\ hold[h].status = "none" => hold[h].event = None
    /\ hold[h].cleared => hold[h].event # None /\ ~Live(hold[h].event)

\* No two requests have one hold, and the hold of a request that has not given
\* it an event yet has none.
RequestsTell ==
    /\ \A o, p \in Orders :
         o # p /\ checkout[o].pc # "idle" /\ checkout[p].pc # "idle" =>
           checkout[o].hold # checkout[p].hold
    /\ \A o \in Orders : checkout[o].pc \in {"held", "posted"} =>
         hold[checkout[o].hold].event = None /\ hold[checkout[o].hold].status # "converted"

\* A hold or a booking carries it.
OnRows(e) == (\E h \in Holds : hold[h].event = e) \/ (\E o \in Orders : Booked(o) = e)

\* A confirmer's booking has its event or none, and so has the hold behind it;
\* what it has in hand is gone when it is lost, and on a row when it is attached.
ConfirmerTells(w) ==
    LET b == booking[worker[w].order]
        e == worker[w].event
    IN  /\ b.event \in {None, e}
        /\ worker[w].pc \in {"check", "post"} => e = None
        /\ worker[w].pc = "lost" => e = None \/ ~Live(e)
        /\ worker[w].pc = "cleanup" => b.status = "cancelled"
        /\ worker[w].pc \in {"promote", "record"} /\ ~worker[w].unowned => OnRows(e) \/ ~Live(e)
        /\ \A h \in Holds :
             hold[h].status = "converted" /\ hold[h].order = worker[w].order =>
               hold[h].event \in {None, e}

ConfirmersTell == \A w \in Workers : Working(w) => ConfirmerTells(w)

\* A converted hold and its booking have one event, but while a confirmer is
\* between giving it to the one and to the other.
HoldAgrees(h) ==
    LET o == hold[h].order IN
    hold[h].status = "converted" /\ hold[h].event # None =>
        \/ Booked(o) = hold[h].event
        \/ /\ Booked(o) = None
           /\ \E w \in Workers :
                Working(w) /\ worker[w].order = o /\ worker[w].event = hold[h].event

HoldsAgree == \A h \in Holds : HoldAgrees(h)

SomebodyCarries ==
    \A e \in Events : Live(e) /\ calendar[e].maker # "coach" => ~NobodyCarries(e)

OwnInv == HoldsTell /\ RequestsTell /\ ConfirmersTell /\ HoldsAgree /\ SomebodyCarries

(***************************************************************************)
(* What a step does to the calendar and to the rows.                       *)
(***************************************************************************)

\* An event that was made and is gone stays so, and keeps its maker.
EventsFade ==
    \A e \in Made : Live(e)' => Live(e) /\ calendar'[e].maker = calendar[e].maker

\* A hold's event is written once, and its word that it is deleted is true; a
\* hold that was taken and not paid changes hands only as its request goes on.
RowMoves(h) ==
    /\ hold[h].event # None => hold'[h].event = hold[h].event
    /\ hold'[h].status = "none" => hold[h].status = "none" /\ hold'[h].event = hold[h].event
    /\ hold'[h].cleared => hold[h].cleared
                           \/ \E e \in Events : hold'[h].event = e /\ ~Live(e)'
    /\ /\ hold[h].status \notin {"none", "converted"}
       /\ hold'[h].event # hold[h].event \/ hold'[h].status = "converted"
       => \E p \in Orders : /\ checkout[p].hold = h /\ checkout[p].pc # "idle"
                            /\ checkout'[p].pc \notin {"held", "posted"}

\* A converted hold and its booking go on as they were, or come together.
StaysAgreed(h) ==
    hold'[h].status = "converted" =>
        \E o \in Orders :
            /\ hold'[h].order = o
            /\ \/ /\ StaysConverted(h) /\ hold'[h].event = hold[h].event
                  /\ Booked(o)' = Booked(o)
               \/ /\ booking[o].status = "awaiting_schedule"
                  /\ hold'[h].event \in {None, Booked(o)'}

\* A booking that a confirmer may be at work on keeps its event, called off or not.
BookingMoves(o) ==
    \/ booking'[o] = booking[o]
    \/ booking[o].status \in {"none", "awaiting_schedule"}
    \/ booking'[o].status = "cancelled" /\ booking'[o].event = booking[o].event

\* What a booking carries stays on a row, or is gone.
BookingsLeaveEvents ==
    \A o \in Orders, e \in Events : Booked(o) = e => OnRows(e)' \/ ~Live(e)'

RowsMove == \A h \in Holds : RowMoves(h)
QuietMove ==
    /\ \A h \in Holds : RowMoves(h) /\ StaysAgreed(h)
    /\ \A o \in Orders : BookingMoves(o)
    /\ BookingsLeaveEvents

\* What is on a row stays on one, or is gone.
RowsKeep == \A e \in Events : OnRows(e) => OnRows(e)' \/ ~Live(e)'

\* Holds keep their events, and bookings leave theirs on a row.
LEMMA RowsKept ==
    ASSUME RowsMove, BookingsLeaveEvents
    PROVE  RowsKeep
BY NullAssumption DEF RowsMove, RowMoves, BookingsLeaveEvents, RowsKeep, OnRows

\* Giving holds back tells nothing new of their events.
LEMMA ReleasedTells ==
    ASSUME HoldRowsOK, NEW hs
    PROVE  \A h \in Holds : Released(hs)[h].cleared = hold[h].cleared
BY DEF HoldRowsOK, HoldRow, Released

\* The calendar loses an event, confirms one, or gains one.
LEMMA EventsFadeAlways ==
    ASSUME TypeOK,
           \/ UNCHANGED calendar
           \/ \E e \in Events : DropEvent(e)
           \/ \E e \in Events : Live(e) /\ calendar' = [calendar EXCEPT ![e].status = "confirmed"]
           \/ \E e \in Events : \E s, maker, o : AddEvent(e, s, maker, o)
    PROVE  EventsFade
<1> USE DEF TypeOK, TablesOK
<1>1. CASE UNCHANGED calendar
  BY <1>1 DEF EventsFade, Live
<1>2. CASE \E e \in Events : DropEvent(e)
  BY <1>2 DEF DropEvent, EventsFade, Live, EventRow
<1>3. CASE \E e \in Events : Live(e) /\ calendar' = [calendar EXCEPT ![e].status = "confirmed"]
  BY <1>3 DEF EventsFade, Live, EventRow
<1>4. CASE \E e \in Events : \E s, maker, o : AddEvent(e, s, maker, o)
  BY <1>4 DEF AddEvent, FreshEvent, EventsFade, Live, Made
<1> QED BY <1>1, <1>2, <1>3, <1>4

(***************************************************************************)
(* Each step is one of these.                                              *)
(***************************************************************************)

\* Tables that nobody writes move quietly.
LEMMA UnwrittenMoves ==
    ASSUME TypeOK, DiaryInv, UNCHANGED <<booking, hold>>
    PROVE  QuietMove
<1>1. ASSUME NEW h \in Holds
      PROVE  RowMoves(h) /\ StaysAgreed(h)
  BY DEF RowMoves, StaysAgreed, StaysConverted, Booked, Timed, DiaryInv, Backs
<1>2. \A o \in Orders : BookingMoves(o)
  BY DEF BookingMoves
<1>3. BookingsLeaveEvents
  BY DEF BookingsLeaveEvents, OnRows, Booked, Timed
<1> QED BY <1>1, <1>2, <1>3 DEF QuietMove

\* Bookings that carry on where nothing is taken from them.
LEMMA BookingsStayOnRows ==
    ASSUME \A o \in Orders : Booked(o) # None => Booked(o)' = Booked(o)
    PROVE  BookingsLeaveEvents
BY NullAssumption DEF BookingsLeaveEvents, OnRows

\* A checkout request.
LEMMA CheckoutRows ==
    ASSUME TypeOK, DiaryInv, HoldsTell, RequestsTell, NEW o \in Orders, CheckoutStep(o)
    PROVE  QuietMove
<1> USE DEF TypeOK, TablesOK
<1>1. CASE HoldSlot(o)
  <2>1. PICK s \in Slots, h \in Holds :
           /\ hold[h].status = "none"
           /\ hold' = [Released(EarlierHolds(o)) EXCEPT ![h] =
                 [NoHold EXCEPT !.status = "held", !.slot = s, !.owner = Owner[o]]]
           /\ UNCHANGED booking
    BY <1>1 DEF HoldSlot, FreshHold
  <2>2. hold'[h].status = "held" /\ hold'[h].event = None /\ hold'[h].cleared = FALSE
    BY <2>1, ReleasedRows DEF NoHold
  <2>3. \A k \in Holds \ {h} : hold'[k] = Released(EarlierHolds(o))[k]
    BY <2>1, ReleasedRows
  <2>4. \A k \in Holds : k \in EarlierHolds(o) => hold[k].status = "held"
    BY DEF EarlierHolds
  <2>5. RowMoves(h) /\ StaysAgreed(h)
    BY <2>1, <2>2 DEF RowMoves, StaysAgreed, HoldsTell
  <2>6. ASSUME NEW k \in Holds, k # h
        PROVE  RowMoves(k) /\ StaysAgreed(k)
    <3>1. /\ hold'[k].event = hold[k].event /\ hold'[k].cleared = hold[k].cleared
          /\ hold'[k].order = hold[k].order /\ hold'[k].slot = hold[k].slot
          /\ \/ hold'[k].status = hold[k].status
             \/ hold[k].status = "held" /\ hold'[k].status = "released"
      BY <2>3, <2>4, <2>6, ReleasedRows, ReleasedTells
    <3> QED BY <2>1, <3>1 DEF RowMoves, StaysAgreed, StaysConverted, DiaryInv, Backs, Booked, Timed
  <2>7. (\A q \in Orders : BookingMoves(q)) /\ BookingsLeaveEvents
    BY <2>1, BookingsStayOnRows DEF BookingMoves, Booked, Timed
  <2> QED BY <2>5, <2>6, <2>7 DEF QuietMove
<1>2. CASE AttachEvent(o)
  <2> DEFINE h == checkout[o].hold
  <2>1. /\ h \in Holds /\ hold[h].status = "held" /\ hold[h].event = None /\ UNCHANGED booking
        /\ hold' = [hold EXCEPT ![h].event = checkout[o].event]
        /\ checkout[o].pc # "idle" /\ checkout'[o].pc = "blocked"
    BY <1>2 DEF AttachEvent, CheckoutTypeOK, RequestsTell, GoTo
  <2>2. /\ hold'[h].status = "held" /\ hold'[h].cleared = hold[h].cleared
        /\ \A k \in Holds \ {h} : hold'[k] = hold[k]
    BY <2>1 DEF HoldRowsOK, HoldRow
  <2>3. ASSUME NEW k \in Holds
        PROVE  RowMoves(k) /\ StaysAgreed(k)
    BY <2>1, <2>2 DEF RowMoves, StaysAgreed, StaysConverted, DiaryInv, Backs, Booked, Timed
  <2>4. (\A q \in Orders : BookingMoves(q)) /\ BookingsLeaveEvents
    BY <2>1, BookingsStayOnRows DEF BookingMoves, Booked, Timed
  <2> QED BY <2>3, <2>4 DEF QuietMove
<1>3. CASE PersistOrder(o)
  <2> DEFINE h == checkout[o].hold
  <2>1. /\ h \in Holds /\ hold[h].status = "held"
        /\ hold' = [hold EXCEPT ![h].order = o]
        /\ booking' = [booking EXCEPT ![o].status = "awaiting_schedule"]
        /\ booking[o].status = "none"
    BY <1>3 DEF PersistOrder, CheckoutTypeOK, OrderRowsOK
  <2>2. /\ hold'[h].status = "held" /\ hold'[h].cleared = hold[h].cleared
        /\ hold'[h].event = hold[h].event
        /\ \A k \in Holds \ {h} : hold'[k] = hold[k]
    BY <2>1 DEF HoldRowsOK, HoldRow
  <2>3. \A q \in Orders : Booked(q)' = Booked(q) /\ BookingMoves(q)
    BY <2>1 DEF Booked, Timed, BookingMoves, OrderRowsOK, BookingRow
  <2>4. ASSUME NEW k \in Holds
        PROVE  RowMoves(k) /\ StaysAgreed(k)
    BY <2>1, <2>2, <2>3 DEF RowMoves, StaysAgreed, StaysConverted, DiaryInv, Backs
  <2> QED BY <2>3, <2>4, BookingsStayOnRows DEF QuietMove
<1>4. CASE ReleaseQuietly(o)
  <2> DEFINE hs == {checkout[o].hold} \cap {h \in Holds : hold[h].status = "held"}
  <2>1. UNCHANGED booking /\ (hold' = Released(hs) \/ UNCHANGED hold)
    BY <1>4 DEF ReleaseQuietly
  <2>2. CASE hold' = Released(hs)
    <3>1. ASSUME NEW k \in Holds
          PROVE  RowMoves(k) /\ StaysAgreed(k)
      <4>1. /\ hold'[k].event = hold[k].event /\ hold'[k].cleared = hold[k].cleared
            /\ hold'[k].order = hold[k].order /\ hold'[k].slot = hold[k].slot
            /\ \/ hold'[k].status = hold[k].status
               \/ hold[k].status = "held" /\ hold'[k].status = "released"
        BY <2>2, ReleasedRows, ReleasedTells
      <4> QED BY <2>1, <4>1 DEF RowMoves, StaysAgreed, StaysConverted, DiaryInv, Backs, Booked, Timed
    <3>2. (\A q \in Orders : BookingMoves(q)) /\ BookingsLeaveEvents
      BY <2>1, BookingsStayOnRows DEF BookingMoves, Booked, Timed
    <3> QED BY <3>1, <3>2 DEF QuietMove
  <2> QED BY <2>1, <2>2, UnwrittenMoves
<1>5. CASE ~(HoldSlot(o) \/ AttachEvent(o) \/ PersistOrder(o) \/ ReleaseQuietly(o))
  <2>1. UNCHANGED <<booking, hold>>
    BY <1>5 DEF CheckoutStep, PostTentative, CalendarRefuses, CalendarUnreachable,
       CalendarAnswerLost, DropOrphan, HoldNoLongerLive, StartSession, LinkSession,
       CheckoutFails, CheckoutCrashes, EndCheckout, tableVars
  <2> QED BY <2>1, UnwrittenMoves
<1> QED BY <1>1, <1>2, <1>3, <1>4, <1>5

\* A settlement: a hold it converts agrees with the booking it gives a time.
LEMMA SettlementRows ==
    ASSUME TypeOK, UnsettledWaits, DiaryInv, HoldsTell, NEW o \in Orders, SettlementStep(o)
    PROVE  QuietMove
<1> USE DEF TypeOK, TablesOK
<1> DEFINE p == PaidHold(o)
<1>1. /\ session[o] # "none" /\ p \in Holds /\ booking[o].status = "awaiting_schedule"
      /\ UNCHANGED <<calendar, checkoutVars>>
  BY DEF SettlementStep, SettleOnHold, SettleOnRetakenTime, SettleWithoutTime, Paid, MaySettle,
         MayFail, ReleaseFailedOrder, CheckoutTypeOK, PaidHold, UnsettledWaits
<1>2. /\ checkout[o].pc \notin {"idle", "held", "posted"} /\ checkout'[o].pc = checkout[o].pc
      /\ checkout[o].hold = p
  BY <1>1 DEF CheckoutTypeOK, checkoutVars, PaidHold
<1>3. \A k \in Holds : hold[k].status = "converted" =>
        /\ hold[k].order # o /\ hold[k].order \in Orders
  BY <1>1 DEF DiaryInv, Backs, Timed
<1>4. ASSUME NEW s, NEW e, UNCHANGED booking \/ Schedule(o, s, e)
      PROVE  /\ \A q \in Orders : BookingMoves(q) /\ (Booked(q) # None => Booked(q)' = Booked(q))
             /\ \A q \in Orders \ {o} : Booked(q)' = Booked(q)
             /\ BookingsLeaveEvents
  <2>1. \A q \in Orders \ {o} : booking'[q] = booking[q]
    BY <1>4 DEF Schedule, OrderRowsOK
  <2>2. Booked(o) = None
    BY <1>1 DEF Booked, Timed
  <2>3. \A q \in Orders : BookingMoves(q) /\ (Booked(q) # None => Booked(q)' = Booked(q))
    BY <1>1, <2>1, <2>2 DEF BookingMoves, Booked, Timed
  <2> QED BY <2>1, <2>3, BookingsStayOnRows DEF Booked, Timed
<1>5. ASSUME NEW k \in Holds, hold'[k] = hold[k], \A q \in Orders \ {o} : Booked(q)' = Booked(q)
      PROVE  RowMoves(k) /\ StaysAgreed(k)
  BY <1>3, <1>5 DEF RowMoves, StaysAgreed, StaysConverted
<1>6. CASE SettleOnHold(o)
  <2> DEFINE claimed == [hold EXCEPT ![p].status = "converted"]
  <2>1. /\ hold[p].status = "held" /\ hold[p].order = o
        /\ Book(o, hold[p].slot, hold[p].event, claimed)
    BY <1>6 DEF SettleOnHold, MayConvert
  <2>2. /\ claimed \in [Holds -> HoldRow]
        /\ claimed[p].status = "converted" /\ claimed[p].order = o
        /\ claimed[p].event = hold[p].event /\ claimed[p].cleared = hold[p].cleared
        /\ \A k \in Holds \ {p} : claimed[k] = hold[k]
    BY <1>1, <2>1 DEF HoldRowsOK, HoldRow, HoldStatus
  <2>3. CASE BookingClash(o, hold[p].slot)
    <3>1. /\ UNCHANGED booking
          /\ \A k \in Holds : hold'[k] = claimed[k] \/ (claimed[k].status = "converted"
               /\ claimed[k].order = o /\ hold'[k] = [claimed[k] EXCEPT !.status = "released"])
          /\ hold'[p] = IF claimed[p].slot = hold[p].slot
                        THEN [claimed[p] EXCEPT !.status = "released"] ELSE claimed[p]
      BY <1>1, <2>1, <2>2, <2>3 DEF Book
    <3>2. claimed[p].slot = hold[p].slot
      BY <1>1, <2>1 DEF HoldRowsOK, HoldRow
    <3>3. /\ hold'[p].event = hold[p].event /\ hold'[p].cleared = hold[p].cleared
          /\ hold'[p].status = "released"
      BY <1>1, <2>2, <3>1, <3>2 DEF HoldRow
    <3> HIDE DEF claimed, p
    <3>4. \A k \in Holds \ {p} : hold'[k] = hold[k]
      BY <1>3, <2>2, <3>1
    <3>5. RowMoves(p) /\ StaysAgreed(p)
      BY <1>1, <2>1, <3>3 DEF RowMoves, StaysAgreed
    <3> QED BY <1>4, <1>5, <3>1, <3>4, <3>5 DEF QuietMove
  <2>4. CASE ~BookingClash(o, hold[p].slot)
    <3>1. hold' = claimed /\ Schedule(o, hold[p].slot, hold[p].event)
      BY <2>1, <2>4 DEF Book
    <3> HIDE DEF claimed, p
    <3>2. Booked(o)' = hold[p].event
      BY <3>1 DEF Schedule, Booked, Timed, OrderRowsOK
    <3>3. RowMoves(p) /\ StaysAgreed(p)
      BY <1>1, <1>2, <2>1, <2>2, <3>1, <3>2 DEF RowMoves, StaysAgreed
    <3> QED BY <1>4, <1>5, <2>2, <3>1, <3>3 DEF QuietMove
  <2> QED BY <2>3, <2>4
<1>7. CASE SettleOnRetakenTime(o)
  <2> DEFINE s == hold[p].slot
             r == [NoHold EXCEPT !.status = "converted", !.slot = s, !.order = o,
                                 !.lapsed = TRUE]
  <2>1. PICK h \in Holds : hold[h].status = "none" /\ Book(o, s, None, [hold EXCEPT ![h] = r])
    BY <1>7 DEF SettleOnRetakenTime, FreshHold
  <2> DEFINE claimed == [hold EXCEPT ![h] = r]
  <2>2. s \in Slots
    BY <1>1, <1>7 DEF SettleOnRetakenTime, MayRetake, HoldRowsOK
  <2>3. /\ claimed \in [Holds -> HoldRow]
        /\ claimed[h].event = None /\ claimed[h].cleared = FALSE
        /\ claimed[h].status = "converted" /\ claimed[h].order = o
        /\ \A k \in Holds \ {h} : claimed[k] = hold[k]
    BY <2>2 DEF HoldRowsOK, HoldRow, HoldStatus, NoHold
  <2>4. \A k \in Holds : hold'[k] = claimed[k] \/ (claimed[k].status = "converted"
             /\ claimed[k].order = o /\ hold'[k] = [claimed[k] EXCEPT !.status = "released"])
    BY <2>1 DEF Book
  <2>5. UNCHANGED booking \/ Schedule(o, s, None)
    BY <2>1 DEF Book
  <2> HIDE DEF claimed, s
  <2>6. \A k \in Holds \ {h} : hold'[k] = hold[k]
    BY <1>3, <2>3, <2>4
  <2>7. /\ hold'[h].event = None /\ hold'[h].cleared = FALSE /\ hold'[h].order = o
        /\ hold'[h].status \in {"converted", "released"}
    <3>1. claimed[h] \in HoldRow
      BY <2>3
    <3>2. /\ [claimed[h] EXCEPT !.status = "released"].event = claimed[h].event
          /\ [claimed[h] EXCEPT !.status = "released"].cleared = claimed[h].cleared
          /\ [claimed[h] EXCEPT !.status = "released"].order = claimed[h].order
          /\ [claimed[h] EXCEPT !.status = "released"].status = "released"
      BY <3>1 DEF HoldRow
    <3> QED BY <2>3, <2>4, <3>2
  <2>8. RowMoves(h) /\ StaysAgreed(h)
    BY <1>1, <2>1, <2>7 DEF RowMoves, StaysAgreed, HoldsTell
  <2> QED BY <1>4, <1>5, <2>5, <2>6, <2>8 DEF QuietMove
<1>8. CASE SettleWithoutTime(o)
  BY <1>8, UnwrittenMoves DEF SettleWithoutTime
<1>9. CASE ReleaseFailedOrder(o)
  <2> DEFINE hs == {p} \cap {k \in Holds : hold[k].status = "held" /\ hold[k].order = o}
  <2>1. UNCHANGED booking /\ hold' = Released(hs)
    BY <1>9 DEF ReleaseFailedOrder
  <2>2. ASSUME NEW k \in Holds
        PROVE  RowMoves(k) /\ StaysAgreed(k)
    <3>1. /\ hold'[k].event = hold[k].event /\ hold'[k].cleared = hold[k].cleared
          /\ hold'[k].order = hold[k].order /\ hold'[k].slot = hold[k].slot
          /\ \/ hold'[k].status = hold[k].status
             \/ hold[k].status = "held" /\ hold'[k].status = "released"
      BY <2>1, ReleasedRows, ReleasedTells
    <3> QED BY <2>1, <3>1 DEF RowMoves, StaysAgreed, StaysConverted, DiaryInv, Backs, Booked, Timed
  <2> QED BY <1>4, <2>1, <2>2 DEF QuietMove
<1> QED BY <1>6, <1>7, <1>8, <1>9 DEF SettlementStep

\* Choosing a time, placing one, calling off and refunding: a session that is
\* called off leaves its event to a hold that is given back.
LEMMA AfterSaleRows ==
    ASSUME TypeOK, DiaryInv, HoldsTell, HoldsAgree, NEW o \in Orders,
           \/ ChooseTime(o) \/ PlaceByHand(o)
           \/ CancelBooking(o) \/ RefundInFull(o) \/ RefundInPart(o)
    PROVE  QuietMove
<1> USE DEF TypeOK, TablesOK
<1>1. CASE ChooseTime(o) \/ PlaceByHand(o)
  <2>1. /\ booking[o].status = "awaiting_schedule"
        /\ \E s \in Slots : Schedule(o, s, None)
    BY <1>1 DEF ChooseTime, PlaceByHand
  <2>2. /\ Booked(o) = None /\ Booked(o)' = None
        /\ \A q \in Orders \ {o} : booking'[q] = booking[q]
    BY <2>1 DEF Schedule, Booked, Timed, OrderRowsOK
  <2>3. \A q \in Orders : BookingMoves(q) /\ Booked(q)' = Booked(q)
    BY <2>1, <2>2 DEF BookingMoves, Booked, Timed
  <2>4. ASSUME NEW k \in Holds, hold'[k] = hold[k]
        PROVE  RowMoves(k) /\ StaysAgreed(k)
    BY <2>3, <2>4 DEF RowMoves, StaysAgreed, StaysConverted, DiaryInv, Backs
  <2>5. CASE ChooseTime(o)
    <3>1. PICK h \in Holds, s \in Slots :
             /\ hold[h].status = "none"
             /\ hold' = [hold EXCEPT ![h] = [NoHold EXCEPT
                  !.status = "converted", !.slot = s, !.order = o, !.lapsed = TRUE]]
      BY <2>5 DEF ChooseTime, FreshHold
    <3>2. /\ hold'[h].event = None /\ hold'[h].cleared = FALSE /\ hold'[h].order = o
          /\ hold'[h].status = "converted"
          /\ \A k \in Holds \ {h} : hold'[k] = hold[k]
      BY <3>1 DEF HoldRowsOK, NoHold
    <3>3. RowMoves(h) /\ StaysAgreed(h)
      BY <2>1, <3>1, <3>2 DEF RowMoves, StaysAgreed, HoldsTell
    <3> QED BY <2>3, <2>4, <3>2, <3>3, BookingsStayOnRows DEF QuietMove
  <2>6. CASE PlaceByHand(o)
    BY <2>3, <2>4, <2>6, BookingsStayOnRows DEF PlaceByHand, QuietMove
  <2> QED BY <1>1, <2>5, <2>6
<1>2. CASE CancelOpenBooking(o)
  <2> DEFINE b == booking[o]
             backing == ConvertedHolds(o, b.slot)
             given(h) == [hold[h] EXCEPT !.status = "released",
                                         !.event = IF @ = None THEN b.event ELSE @]
  <2>1. /\ booking'[o].status = "cancelled" /\ booking'[o].event = booking[o].event
        /\ \A q \in Orders \ {o} : booking'[q] = booking[q]
    BY <1>2 DEF CancelOpenBooking, OrderRowsOK, BookingRow
  <2>2. \A q \in Orders : BookingMoves(q)
    BY <2>1 DEF BookingMoves
  <2>3. b.event = Booked(o) /\ \A q \in Orders \ {o} : Booked(q)' = Booked(q)
    BY <1>2, <2>1 DEF CancelOpenBooking, Booked, Timed, OrderRowsOK
  <2>4. \A k \in Holds : hold[k].status = "converted" /\ hold[k].order = o => k \in backing
    BY DEF DiaryInv, Backs, ConvertedHolds
  <2>5. ASSUME NEW k \in Holds, hold'[k] = hold[k], k \notin backing
        PROVE  RowMoves(k) /\ StaysAgreed(k)
    BY <2>3, <2>4, <2>5 DEF RowMoves, StaysAgreed, StaysConverted, DiaryInv, Backs
  <2>6. CASE backing = {} /\ b.event # None
    <3>1. PICK h \in Holds :
             /\ hold[h].status = "none"
             /\ hold' = [hold EXCEPT ![h] = [NoHold EXCEPT
                  !.status = "released", !.slot = b.slot, !.order = o,
                  !.event = b.event, !.lapsed = TRUE]]
      BY <1>2, <2>6 DEF CancelOpenBooking, FreshHold
    <3>2. /\ hold'[h].status = "released" /\ hold'[h].event = b.event /\ hold'[h].cleared = FALSE
          /\ \A k \in Holds \ {h} : hold'[k] = hold[k]
      BY <3>1 DEF NoHold, HoldRowsOK
    <3> HIDE DEF b, backing
    <3>3. RowMoves(h) /\ StaysAgreed(h)
      BY <3>1, <3>2 DEF RowMoves, StaysAgreed, HoldsTell
    <3>4. BookingsLeaveEvents
      BY <2>3, <3>2, NullAssumption DEF BookingsLeaveEvents, OnRows
    <3> QED BY <2>2, <2>5, <2>6, <3>2, <3>3, <3>4 DEF QuietMove
  <2>7. CASE ~(backing = {} /\ b.event # None)
    <3>1. hold' = [h \in Holds |-> IF h \in backing THEN given(h) ELSE hold[h]]
      BY <1>2, <2>7 DEF CancelOpenBooking
    <3>2. \A h \in Holds : /\ given(h).status = "released" /\ given(h).cleared = hold[h].cleared
                           /\ given(h).event = IF hold[h].event = None THEN b.event
                                                                      ELSE hold[h].event
      BY DEF HoldRowsOK, HoldRow
    <3>3. \A h \in backing : h \in Holds /\ hold[h].status = "converted" /\ hold[h].order = o
      BY DEF ConvertedHolds
    <3> HIDE DEF given, backing, b
    <3>4. ASSUME NEW h \in backing
          PROVE  RowMoves(h) /\ StaysAgreed(h)
      BY <3>1, <3>2, <3>3 DEF RowMoves, StaysAgreed
    <3>5. \A k \in Holds : RowMoves(k) /\ StaysAgreed(k)
      BY <2>5, <3>1, <3>4
    <3>6. ASSUME NEW e \in Events, Booked(o) = e
          PROVE  OnRows(e)'
      <4>1. e # None
        BY NullAssumption
      <4>2. PICK h \in backing : TRUE
        BY <2>3, <2>7, <3>6, <4>1
      <4>3. hold[h].event \in {None, e}
        BY <3>3, <3>6, <4>1, <4>2 DEF HoldsAgree, HoldAgrees
      <4>4. hold'[h].event = e
        BY <2>3, <3>1, <3>2, <3>3, <3>6, <4>2, <4>3
      <4> QED BY <3>3, <4>2, <4>4 DEF OnRows
    <3>7. BookingsLeaveEvents
      BY <2>3, <3>6 DEF BookingsLeaveEvents, OnRows
    <3> QED BY <2>2, <3>5, <3>7 DEF QuietMove
  <2> QED BY <2>6, <2>7
<1>3. CASE UNCHANGED <<booking, hold>>
  BY <1>3, UnwrittenMoves
<1> QED BY <1>1, <1>2, <1>3 DEF CancelBooking, RefundInFull, RefundInPart

\* The countdown, the sweep and the world.
LEMMA SweepRows ==
    ASSUME TypeOK, DiaryInv, (\E h \in Holds : HoldStep(h)) \/ WorldStep
    PROVE  QuietMove
<1> USE DEF TypeOK, TablesOK
<1>1. ASSUME NEW h \in Holds, LapseHold(h) \/ ClaimExpiredHold(h) \/ MarkCalendarReleased(h)
      PROVE  QuietMove
  <2>1. PICK r : /\ hold' = [hold EXCEPT ![h] = r] /\ UNCHANGED <<booking, calendar>>
                 /\ \/ r = [hold[h] EXCEPT !.lapsed = TRUE] /\ hold[h].status = "held"
                    \/ r = [hold[h] EXCEPT !.cleared = TRUE] /\ AwaitsCalendarRelease(h)
                       /\ ~Live(hold[h].event)
                    \/ r = [hold[h] EXCEPT !.status = "expired"] /\ hold[h].status = "held"
    BY <1>1 DEF LapseHold, ClaimExpiredHold, MarkCalendarReleased
  <2>2. /\ r.event = hold[h].event
        /\ r.status \in {hold[h].status, "expired"} /\ r.status \notin {"none", "converted"}
        /\ r.cleared => hold[h].cleared \/ (hold[h].event \in Events /\ ~Live(hold[h].event))
    BY <2>1 DEF HoldRowsOK, HoldRow, AwaitsCalendarRelease
  <2>3. hold'[h] = r /\ \A k \in Holds \ {h} : hold'[k] = hold[k]
    BY <2>1 DEF HoldRowsOK
  <2>4. RowMoves(h)
    <3>1. PICK e : e = hold[h].event
      OBVIOUS
    <3>2. e \in Events => (Live(e)' <=> Live(e))
      BY <2>1 DEF Live
    <3> QED BY <2>2, <2>3, <3>1, <3>2 DEF RowMoves
  <2>5. StaysAgreed(h)
    BY <2>2, <2>3 DEF StaysAgreed
  <2>6. ASSUME NEW k \in Holds, k # h
        PROVE  RowMoves(k) /\ StaysAgreed(k)
    BY <2>1, <2>3, <2>6 DEF RowMoves, StaysAgreed, StaysConverted, DiaryInv, Backs, Booked, Timed
  <2>7. (\A q \in Orders : BookingMoves(q)) /\ BookingsLeaveEvents
    BY <2>1, BookingsStayOnRows DEF BookingMoves, Booked, Timed
  <2> QED BY <2>4, <2>5, <2>6, <2>7 DEF QuietMove
<1>2. CASE UNCHANGED <<booking, hold>>
  BY <1>2, UnwrittenMoves
<1> QED BY <1>1, <1>2 DEF HoldStep, DeleteReleasedEvent, WorldStep, TimePasses, CoachAdds,
                          CoachDeletes, tables

\* A confirmer: it gives its event to a hold that has none, and to a booking
\* that has none or has that one, and takes from a booking only what is gone.
LEMMA ConfirmationRows ==
    ASSUME TypeOK, DiaryInv, HoldsTell, ConfirmersTell, NEW w \in Workers, ConfirmationStep(w)
    PROVE  RowsMove /\ BookingsLeaveEvents
<1> USE DEF TypeOK, TablesOK
<1>1. CASE Attach(w)
  <2> DEFINE e == worker[w].event
             open == {h \in ConvertedHolds(worker[w].order, worker[w].slot) : hold[h].event = None}
  <2>1. /\ hold' = [h \in Holds |-> IF h \in open THEN [hold[h] EXCEPT !.event = e] ELSE hold[h]]
        /\ UNCHANGED booking
    BY <1>1 DEF Attach
  <2>2. \A h \in open : hold[h].status = "converted" /\ hold[h].event = None
    BY DEF ConvertedHolds
  <2>3. \A h \in Holds : /\ [hold[h] EXCEPT !.event = e].status = hold[h].status
                         /\ [hold[h] EXCEPT !.event = e].cleared = hold[h].cleared
    BY DEF HoldRowsOK, HoldRow
  <2> HIDE DEF open, e
  <2>4. RowsMove
    BY <2>1, <2>2, <2>3 DEF RowsMove, RowMoves
  <2> QED BY <2>1, <2>4, BookingsStayOnRows DEF Booked, Timed
<1>2. CASE Record(w)
  <2>0. PICK q \in Orders : q = worker[w].order
    BY <1>2 DEF Record, ConfirmationTypeOK
  <2>1. /\ UNCHANGED hold /\ booking[q].status = "scheduled" /\ Working(w)
        /\ booking'[q].status = "confirmed" /\ booking'[q].event = worker[w].event
        /\ \A p \in Orders \ {q} : booking'[p] = booking[p]
    BY <1>2, <2>0 DEF Record, Working, OrderRowsOK, BookingRow
  <2>2. Booked(q) \in {None, worker[w].event} /\ Booked(q)' = worker[w].event
    BY <2>0, <2>1 DEF ConfirmersTell, ConfirmerTells, Booked, Timed
  <2>3. BookingsLeaveEvents
    BY <2>1, <2>2, BookingsStayOnRows DEF Booked, Timed
  <2> QED BY <2>1, <2>3 DEF RowsMove, RowMoves
<1>3. CASE ReturnToWaiting(w)
  <2>0. PICK q \in Orders : q = worker[w].order
    BY <1>3 DEF ReturnToWaiting, ConfirmationTypeOK
  <2>1. /\ Working(w) /\ worker[w].pc = "lost" /\ UNCHANGED calendar
        /\ hold' = Released(ConvertedHolds(q, worker[w].slot))
        /\ \A p \in Orders \ {q} : booking'[p] = booking[p]
        /\ booking[q].status # "scheduled" => booking'[q] = booking[q]
    BY <1>3, <2>0 DEF ReturnToWaiting, Working, OrderRowsOK
  <2>2. ASSUME NEW h \in Holds
        PROVE  RowMoves(h)
    <3>1. /\ hold'[h].event = hold[h].event /\ hold'[h].cleared = hold[h].cleared
          /\ \/ hold'[h].status = hold[h].status
             \/ hold[h].status = "converted" /\ hold'[h].status = "released"
      BY <2>1, ReleasedRows, ReleasedTells DEF ConvertedHolds
    <3> QED BY <3>1 DEF RowMoves
  <2>3. Booked(q) # None => Booked(q) = worker[w].event /\ ~Live(worker[w].event)
    <3>1. booking[q].event \in {None, worker[w].event}
      BY <2>0, <2>1 DEF ConfirmersTell, ConfirmerTells
    <3>2. worker[w].event = None \/ ~Live(worker[w].event)
      BY <2>1 DEF ConfirmersTell, ConfirmerTells
    <3> QED BY <3>1, <3>2 DEF Booked
  <2>4. ASSUME NEW p \in Orders, NEW e \in Events, Booked(p) = e
        PROVE  OnRows(e)' \/ ~Live(e)'
    <3>1. CASE p = q
      BY <2>1, <2>3, <2>4, <3>1, NullAssumption DEF Live
    <3>2. CASE p # q
      BY <2>1, <2>4, <3>2 DEF OnRows, Booked, Timed
    <3> QED BY <3>1, <3>2
  <2> QED BY <2>2, <2>4 DEF RowsMove, BookingsLeaveEvents
<1>4. CASE ~(Attach(w) \/ Record(w) \/ ReturnToWaiting(w))
  <2>1. UNCHANGED <<booking, hold>>
    BY <1>4 DEF ConfirmationStep, Begin, Check, Post, PostAnswerLost, Promote,
       PromoteWithoutLink, EventIsGone, RecordFindsItChanged, Cleanup, CalendarFails,
       WorkerCrashes, tableVars, tables
  <2> QED BY <2>1, UnwrittenMoves DEF QuietMove, RowsMove
<1> QED BY <1>1, <1>2, <1>3, <1>4

\* No step brings an event back.
LEMMA StepFades ==
    ASSUME TypeOK, [Next]_vars
    PROVE  EventsFade
<1> USE DEF TypeOK, TablesOK
<1>1. ASSUME NEW o \in Orders, OrderStep(o)
      PROVE  EventsFade
  <2>1. CASE PostTentative(o) \/ CalendarAnswerLost(o)
    BY <2>1, EventsFadeAlways DEF PostTentative, CalendarAnswerLost
  <2>2. CASE DropOrphan(o)
    BY <2>2, EventsFadeAlways DEF DropOrphan, CheckoutTypeOK
  <2>3. CASE ~(PostTentative(o) \/ CalendarAnswerLost(o) \/ DropOrphan(o))
    <3>1. UNCHANGED calendar
      BY <1>1, <2>3 DEF OrderStep, CheckoutStep, HoldSlot, CalendarRefuses, CalendarUnreachable,
         AttachEvent, PersistOrder, HoldNoLongerLive, StartSession, LinkSession, CheckoutFails,
         ReleaseQuietly, CheckoutCrashes, EndCheckout, StripeMoves, SettlementStep,
         SettleOnHold, SettleOnRetakenTime, SettleWithoutTime, Paid, ReleaseFailedOrder,
         ChooseTime, PlaceByHand, CancelBooking, RefundInFull, RefundInPart, tableVars
    <3> QED BY <3>1, EventsFadeAlways
  <2> QED BY <2>1, <2>2, <2>3
<1>2. ASSUME NEW h \in Holds, HoldStep(h)
      PROVE  EventsFade
  <2>1. UNCHANGED calendar \/ \E e \in Events : DropEvent(e)
    BY <1>2 DEF HoldStep, LapseHold, ClaimExpiredHold, DeleteReleasedEvent, MarkCalendarReleased,
                AwaitsCalendarRelease, HoldRowsOK, HoldRow
  <2> QED BY <2>1, EventsFadeAlways
<1>3. CASE WorldStep
  BY <1>3, EventsFadeAlways DEF WorldStep, TimePasses, CoachAdds, CoachDeletes
<1>4. ASSUME NEW w \in Workers, ConfirmationStep(w)
      PROVE  EventsFade
  <2>1. CASE Post(w) \/ PostAnswerLost(w)
    BY <2>1, EventsFadeAlways DEF Post, PostAnswerLost
  <2>2. CASE ~(Post(w) \/ PostAnswerLost(w))
    <3>1. \/ UNCHANGED calendar
          \/ \E e \in Events : DropEvent(e)
          \/ \E e \in Events : Live(e) /\ calendar' = [calendar EXCEPT ![e].status = "confirmed"]
      BY <1>4, <2>2 DEF ConfirmationStep, Begin, Check, Attach, Promote, PromoteWithoutLink,
         EventIsGone, Record, RecordFindsItChanged, Cleanup, ReturnToWaiting, CalendarFails,
         WorkerCrashes, tableVars, ConfirmationTypeOK
    <3> QED BY <3>1, EventsFadeAlways
  <2> QED BY <2>1, <2>2
<1>5. CASE UNCHANGED vars
  BY <1>5, EventsFadeAlways DEF vars, tableVars
<1> QED BY <1>1, <1>2, <1>3, <1>4, <1>5 DEF Next

(***************************************************************************)
(* What is told stays true.                                                *)
(***************************************************************************)

\* Of the holds.
LEMMA HoldsTellOn ==
    ASSUME TypeOK, CarriedAreMade, HoldsTell, RowsMove, EventsFade
    PROVE  HoldsTell'
<1> SUFFICES ASSUME NEW h \in Holds
             PROVE  /\ hold'[h].status = "none" => hold'[h].event = None
                    /\ hold'[h].cleared => hold'[h].event # None /\ ~Live(hold[h].event)'
  BY DEF HoldsTell
<1>1. RowMoves(h)
  BY DEF RowsMove
<1>2. hold'[h].status = "none" => hold'[h].event = None
  BY <1>1 DEF RowMoves, HoldsTell
<1>3. ASSUME hold'[h].cleared
      PROVE  \E e \in Events : hold'[h].event = e /\ ~Live(e)'
  <2>1. CASE hold[h].cleared
    <3>1. PICK e : e = hold[h].event
      OBVIOUS
    <3>2. e # None /\ ~Live(e) /\ e \in Made /\ hold'[h].event = e
      BY <1>1, <2>1, <3>1 DEF HoldsTell, CarriedAreMade, RowMoves
    <3> QED BY <3>2 DEF EventsFade, Made
  <2>2. CASE ~hold[h].cleared
    BY <1>1, <1>3, <2>2 DEF RowMoves
  <2> QED BY <2>1, <2>2
<1>4. ASSUME NEW e \in Events, hold'[h].event = e, ~Live(e)'
      PROVE  hold'[h].event # None /\ ~Live(hold[h].event)'
  BY <1>4, NullAssumption DEF Live
<1> QED BY <1>2, <1>3, <1>4

\* Of the requests: a new one takes a row nobody has used.
LEMMA RequestsTellOn ==
    ASSUME TypeOK, RequestsTell, RowsMove, [Next]_vars
    PROVE  RequestsTell'
<1> USE DEF TypeOK, TablesOK
<1> DEFINE GoesOn(p) == /\ checkout'[p].hold = checkout[p].hold
                        /\ checkout'[p].pc # "idle" => checkout[p].pc # "idle"
                        /\ checkout'[p].pc \in {"held", "posted"} =>
                             checkout[p].pc \in {"held", "posted"}
<1>1. ASSUME NEW p \in Orders, GoesOn(p), checkout'[p].pc \in {"held", "posted"}
      PROVE  /\ hold'[checkout'[p].hold].event = None
             /\ hold'[checkout'[p].hold].status # "converted"
  <2>1. PICK h \in Holds : h = checkout[p].hold
    BY <1>1 DEF CheckoutTypeOK
  <2>2. /\ hold[h].event = None /\ hold[h].status \notin {"none", "converted"}
        /\ checkout[p].pc # "idle"
    BY <1>1, <2>1 DEF RequestsTell, CheckoutTypeOK
  <2>3. ~\E q \in Orders : /\ checkout[q].hold = h /\ checkout[q].pc # "idle"
                           /\ checkout'[q].pc \notin {"held", "posted"}
    BY <1>1, <2>1, <2>2 DEF RequestsTell
  <2> QED BY <1>1, <2>1, <2>2, <2>3 DEF RowsMove, RowMoves
<1>2. CASE \A p \in Orders : GoesOn(p)
  <2>1. \A o, p \in Orders : o # p /\ checkout'[o].pc # "idle" /\ checkout'[p].pc # "idle" =>
          checkout'[o].hold # checkout'[p].hold
    BY <1>2 DEF RequestsTell
  <2> HIDE DEF GoesOn
  <2> QED BY <1>1, <1>2, <2>1 DEF RequestsTell
<1>3. ASSUME NEW o \in Orders, HoldSlot(o)
      PROVE  RequestsTell'
  <2>1. PICK s \in Slots, h \in Holds :
           /\ hold[h].status = "none"
           /\ hold' = [Released(EarlierHolds(o)) EXCEPT ![h] =
                 [NoHold EXCEPT !.status = "held", !.slot = s, !.owner = Owner[o]]]
           /\ checkout' = [checkout EXCEPT ![o] = [pc |-> "held", hold |-> h, event |-> None]]
    BY <1>3 DEF HoldSlot, FreshHold
  <2>2. /\ hold'[h].event = None /\ hold'[h].status = "held"
        /\ checkout'[o].hold = h
        /\ \A p \in Orders \ {o} : checkout'[p] = checkout[p]
    BY <2>1, ReleasedRows DEF NoHold, CheckoutTypeOK
  <2>3. \A p \in Orders \ {o} : checkout[p].pc # "idle" => checkout[p].hold # h
    BY <2>1 DEF CheckoutTypeOK
  <2>4. \A p \in Orders \ {o} : GoesOn(p)
    BY <2>2
  <2>5. \A p, q \in Orders : p # q /\ checkout'[p].pc # "idle" /\ checkout'[q].pc # "idle" =>
          checkout'[p].hold # checkout'[q].hold
    BY <2>2, <2>3 DEF RequestsTell
  <2> HIDE DEF GoesOn
  <2> QED BY <1>1, <2>2, <2>4, <2>5 DEF RequestsTell
<1>4. ASSUME NEW o \in Orders, OrderStep(o), ~HoldSlot(o)
      PROVE  \A p \in Orders : GoesOn(p)
  <2>1. CASE PostTentative(o)
    BY <2>1 DEF PostTentative, CheckoutTypeOK
  <2>2. CASE ~PostTentative(o)
    <3>1. \/ UNCHANGED checkout
          \/ checkout[o].pc # "idle" /\ \E pc \in CheckoutPC \ {"idle", "held", "posted"} : GoTo(o, pc)
      BY <1>4, <2>2 DEF OrderStep, CheckoutStep, CalendarRefuses, CalendarUnreachable, CheckoutPC,
         CalendarAnswerLost, AttachEvent, DropOrphan, PersistOrder, HoldNoLongerLive,
         StartSession, LinkSession, CheckoutFails, ReleaseQuietly, CheckoutCrashes, EndCheckout,
         StripeMoves, SettlementStep, SettleOnHold, SettleOnRetakenTime, SettleWithoutTime, Paid,
         ReleaseFailedOrder, ChooseTime, PlaceByHand, CancelBooking, RefundInFull, RefundInPart,
         others, checkoutVars
    <3> QED BY <3>1 DEF GoTo, CheckoutTypeOK
  <2> QED BY <2>1, <2>2
<1>5. CASE UNCHANGED checkout
  BY <1>2, <1>5
<1>6. (\E h \in Holds : HoldStep(h)) \/ WorldStep \/ UNCHANGED vars => UNCHANGED checkout
  BY DEF HoldStep, LapseHold, ClaimExpiredHold, DeleteReleasedEvent, MarkCalendarReleased,
         WorldStep, TimePasses, CoachAdds, CoachDeletes, others, vars, checkoutVars
<1> HIDE DEF GoesOn
<1> QED BY <1>2, <1>3, <1>4, <1>5, <1>6 DEF Next, checkoutVars

\* Of a confirmer and a converted hold, by a step of somebody else.
LEMMA QuietTells ==
    ASSUME TypeOK, DiaryInv, CarriedAreMade, ConfirmersTell, HoldsAgree, QuietMove, EventsFade,
           UNCHANGED worker
    PROVE  ConfirmersTell' /\ HoldsAgree'
<1> USE DEF TypeOK
<1>1. RowsKeep
  BY RowsKept DEF QuietMove, RowsMove
<1>2. ASSUME NEW w \in Workers, Working(w)'
      PROVE  ConfirmerTells(w)'
  <2>0. PICK e : e = worker[w].event
    OBVIOUS
  <2>1. PICK o \in Orders : o = worker[w].order /\ e = worker[w].event
    BY <1>2, <2>0 DEF Working, ConfirmationTypeOK
  <2>2. Working(w) /\ worker'[w] = worker[w] /\ ConfirmerTells(w)
    BY <1>2 DEF Working, ConfirmersTell
  <2>3. e \in Made \cup {None}
    BY <2>1, <2>2 DEF CarriedAreMade, InHand
  <2>4. /\ booking'[o].event = booking[o].event
        /\ booking[o].status = "cancelled" => booking'[o].status = "cancelled"
        /\ booking[o].status # "awaiting_schedule"
    BY <2>1, <2>2 DEF QuietMove, BookingMoves, DiaryInv, Unmoved
  <2>5. e # None /\ ~Live(e) => ~Live(e)'
    BY <2>3 DEF EventsFade
  <2>6. e # None /\ OnRows(e) => OnRows(e)' \/ ~Live(e)'
    BY <1>1, <2>3 DEF RowsKeep, Made
  <2>7. ASSUME NEW h \in Holds, hold'[h].status = "converted", hold'[h].order = o
        PROVE  hold'[h].event \in {None, e}
    <3>1. StaysConverted(h) /\ hold'[h].event = hold[h].event
      BY <2>4, <2>7 DEF QuietMove, StaysAgreed
    <3> QED BY <2>1, <2>2, <2>7, <3>1 DEF StaysConverted, ConfirmerTells
  <2>8. worker[w].pc \in {"promote", "record"} => e # None
    BY <2>1, NullAssumption DEF ConfirmationTypeOK
  <2> QED BY <2>1, <2>2, <2>4, <2>5, <2>6, <2>7, <2>8 DEF ConfirmerTells
<1>3. ASSUME NEW h \in Holds
      PROVE  HoldAgrees(h)'
  <2>1. SUFFICES ASSUME hold'[h].status = "converted", hold'[h].event # None,
                        NEW o \in Orders, hold'[h].order = o
                 PROVE  \/ Booked(o)' = hold'[h].event
                        \/ /\ Booked(o)' = None
                           /\ \E w \in Workers : Working(w) /\ worker[w].order = o
                                                 /\ worker[w].event = hold'[h].event
    BY DEF HoldAgrees, Working, QuietMove, StaysAgreed
  <2>2. CASE StaysConverted(h) /\ hold'[h].event = hold[h].event /\ Booked(o)' = Booked(o)
    <3>1. hold[h].status = "converted" /\ hold[h].event # None /\ hold[h].order = o
      BY <2>1, <2>2 DEF StaysConverted
    <3>2. \/ Booked(o) = hold[h].event
          \/ /\ Booked(o) = None
             /\ \E w \in Workers : Working(w) /\ worker[w].order = o
                                   /\ worker[w].event = hold[h].event
      BY <3>1 DEF HoldsAgree, HoldAgrees
    <3> QED BY <2>2, <3>2
  <2>3. CASE hold'[h].event \in {None, Booked(o)'}
    BY <2>1, <2>3
  <2> QED BY <2>1, <2>2, <2>3 DEF QuietMove, StaysAgreed
<1> QED BY <1>2, <1>3 DEF ConfirmersTell, HoldsAgree

\* A confirmer's step is about one order: others, and others' holds, go on.
LEMMA OthersTell ==
    ASSUME TypeOK, DiaryInv, CarriedAreMade, ConfirmersTell, HoldsAgree, RowsKeep, EventsFade,
           NEW w \in Workers, NEW o \in Orders, OthersBookings(o),
           Working(w) => worker[w].order = o,
           \A v \in Workers \ {w} : worker'[v] = worker[v] /\ (Working(v) => worker[v].order # o),
           \A h \in Holds : hold'[h].status = "converted" /\ hold'[h].order # o =>
              StaysConverted(h) /\ hold'[h].event = hold[h].event
    PROVE  /\ \A v \in Workers \ {w} : Working(v)' => ConfirmerTells(v)'
           /\ \A h \in Holds : hold'[h].order # o => HoldAgrees(h)'
<1> USE DEF TypeOK
<1>1. ASSUME NEW v \in Workers, v # w, Working(v)'
      PROVE  ConfirmerTells(v)'
  <2>0. PICK e : e = worker[v].event
    OBVIOUS
  <2>1. PICK p \in Orders : p = worker[v].order /\ e = worker[v].event
    BY <1>1, <2>0 DEF Working, ConfirmationTypeOK
  <2>2. Working(v) /\ worker'[v] = worker[v] /\ ConfirmerTells(v) /\ p # o
    BY <1>1, <2>1 DEF Working, ConfirmersTell
  <2>3. e \in Made \cup {None}
    BY <2>1, <2>2 DEF CarriedAreMade, InHand
  <2>4. booking'[p] = booking[p]
    BY <2>2 DEF OthersBookings
  <2>5. e # None /\ ~Live(e) => ~Live(e)'
    BY <2>3 DEF EventsFade
  <2>6. e # None /\ OnRows(e) => OnRows(e)' \/ ~Live(e)'
    BY <2>3 DEF RowsKeep, Made
  <2>7. ASSUME NEW h \in Holds, hold'[h].status = "converted", hold'[h].order = p
        PROVE  hold'[h].event \in {None, e}
    BY <2>1, <2>2, <2>7 DEF StaysConverted, ConfirmerTells
  <2>8. worker[v].pc \in {"promote", "record"} => e # None
    BY <2>1, NullAssumption DEF ConfirmationTypeOK
  <2> QED BY <2>1, <2>2, <2>4, <2>5, <2>6, <2>7, <2>8 DEF ConfirmerTells
<1>2. ASSUME NEW h \in Holds, hold'[h].order # o
      PROVE  HoldAgrees(h)'
  <2>1. CASE hold'[h].status = "converted" /\ hold'[h].event # None
    <3>0. PICK p : p = hold[h].order
      OBVIOUS
    <3>1. /\ hold[h].status = "converted" /\ hold'[h].event = hold[h].event
          /\ hold'[h].order = p /\ p # o
      BY <1>2, <2>1, <3>0 DEF StaysConverted
    <3>2. \/ Booked(p) = hold[h].event
          \/ /\ Booked(p) = None
             /\ \E v \in Workers : Working(v) /\ worker[v].order = p
                                   /\ worker[v].event = hold[h].event
      BY <2>1, <3>0, <3>1 DEF HoldsAgree, HoldAgrees
    <3>3. p \in Orders /\ booking'[p] = booking[p]
      BY <2>1, <3>0, <3>1 DEF OthersBookings, DiaryInv, Backs
    <3>4. Booked(p)' = Booked(p)
      BY <3>3 DEF Booked, Timed
    <3>5. \A v \in Workers : Working(v) /\ worker[v].order = p => worker'[v] = worker[v]
      BY <3>1
    <3> QED BY <3>1, <3>2, <3>4, <3>5 DEF HoldAgrees, Working
  <2> QED BY <2>1 DEF HoldAgrees
<1> QED BY <1>1, <1>2

\* What a confirmer's own step has to leave behind.
OwnTells(w, o) ==
    /\ Working(w)' => ConfirmerTells(w)'
    /\ \A h \in Holds : hold'[h].order = o => HoldAgrees(h)'

\* A confirmer that begins reads the event that its booking and the hold behind
\* it have, as no other one is at work on that order.
LEMMA BeginTells ==
    ASSUME TypeOK, DiaryInv, HoldsAgree, NEW w \in Workers, NEW q \in Orders, Begin(w, q),
           \A v \in Workers \ {w} : Working(v) => worker[v].order # q
    PROVE  OwnTells(w, q)
<1> USE DEF TypeOK, TablesOK
<1>1. PICK e : e = booking[q].event
  OBVIOUS
<1>2. /\ worker'[w].pc = IF e = None THEN "check" ELSE "promote"
      /\ worker'[w].order = q /\ worker'[w].event = e /\ worker'[w].unowned = FALSE
      /\ worker[w].pc = "idle" /\ UNCHANGED <<booking, hold, calendar>>
      /\ \A v \in Workers \ {w} : worker'[v] = worker[v]
      /\ Booked(q) = e
  BY <1>1 DEF Begin, tableVars, ConfirmationTypeOK, Booked, Timed
<1>3. ASSUME NEW h \in Holds, hold[h].status = "converted", hold[h].order = q, hold[h].event # None
      PROVE  Booked(q) = hold[h].event
  BY <1>2, <1>3 DEF HoldsAgree, HoldAgrees, Working
<1>4. e # None => OnRows(e)'
  BY <1>2 DEF OnRows, Booked, Timed
<1>5. ConfirmerTells(w)'
  BY <1>1, <1>2, <1>3, <1>4 DEF ConfirmerTells
<1>6. \A h \in Holds : hold'[h].order = q => HoldAgrees(h)'
  BY <1>2, <1>3 DEF HoldAgrees, Booked, Timed
<1> QED BY <1>5, <1>6 DEF OwnTells

\* A hold that nobody writes goes on agreeing with a confirmer that goes on.
LEMMA UnwrittenAgree ==
    ASSUME HoldsAgree, UNCHANGED <<booking, hold>>, NEW w \in Workers, NEW o,
           Working(w) /\ worker[w].order = o => Working(w)' /\ worker'[w].order = o
                                               /\ worker'[w].event = worker[w].event,
           \A v \in Workers \ {w} : worker'[v] = worker[v]
    PROVE  \A h \in Holds : hold'[h].order = o => HoldAgrees(h)'
<1> SUFFICES ASSUME NEW h \in Holds, hold[h].order = o, hold[h].status = "converted",
                    hold[h].event # None
             PROVE  HoldAgrees(h)'
  BY DEF HoldAgrees
<1>1. CASE Booked(o) = hold[h].event
  BY <1>1 DEF HoldAgrees, Booked, Timed
<1>2. CASE Booked(o) # hold[h].event
  <2>1. PICK v \in Workers : Working(v) /\ worker[v].order = o /\ worker[v].event = hold[h].event
    BY <1>2 DEF HoldsAgree, HoldAgrees
  <2>2. Booked(o) = None
    BY <1>2 DEF HoldsAgree, HoldAgrees
  <2>3. Working(v)' /\ worker'[v].order = o /\ worker'[v].event = hold[h].event
    BY <2>1 DEF Working
  <2> QED BY <2>2, <2>3 DEF HoldAgrees, Booked, Timed
<1> QED BY <1>1, <1>2

\* No converted hold of an order is left to agree with anything.
LEMMA NoneToAgree ==
    ASSUME NEW o, \A h \in Holds : hold'[h].order = o => hold'[h].status # "converted"
    PROVE  \A h \in Holds : hold'[h].order = o => HoldAgrees(h)'
BY DEF HoldAgrees

\* A confirmer at work goes on to its next step, or is finished with its event
\* on a row, deleted, or found gone.
LEMMA WorkTells ==
    ASSUME TypeOK, NothingFails, DiaryInv, Carried, ConfirmersTell, HoldsAgree, RowsKeep,
           EventsFade, NEW w \in Workers, Working(w), ConfirmationStep(w),
           NEW o \in Orders, o = worker[w].order
    PROVE  OwnTells(w, o)
<1> USE DEF TypeOK, TablesOK
<1>0. PICK e : e = worker[w].event
  OBVIOUS
<1>1. /\ booking[o].event \in {None, e}
      /\ worker[w].pc \in {"check", "post"} => e = None
      /\ worker[w].pc = "lost" => e = None \/ ~Live(e)
      /\ worker[w].pc = "cleanup" => booking[o].status = "cancelled"
      /\ worker[w].pc \in {"promote", "record"} /\ ~worker[w].unowned => OnRows(e) \/ ~Live(e)
      /\ \A h \in Holds : hold[h].status = "converted" /\ hold[h].order = o =>
           hold[h].event \in {None, e}
      /\ booking[o].status = "scheduled" \/ booking[o].status = "cancelled"
      /\ booking[o].status = "scheduled" => booking[o].slot = worker[w].slot
      /\ worker[w] \in [pc : WorkerPC, order : Orders \cup {None}, slot : Slots \cup {None},
                        event : Events \cup {None}, unowned : BOOLEAN]
      /\ e \in Made \cup {None}
  BY <1>0 DEF ConfirmersTell, ConfirmerTells, DiaryInv, Unmoved, ConfirmationTypeOK, Carried,
              CarriedAreMade, InHand
<1>2. booking[o].status = "cancelled" =>
        \A h \in Holds : hold[h].order = o => hold[h].status # "converted"
  BY DEF DiaryInv, Backs, Timed
<1>3. CASE Check(w) \/ EventIsGone(w) \/ Promote(w)
  <2>1. PICK pc : /\ Move(w, pc) /\ UNCHANGED <<booking, hold>>
                  /\ \/ pc = "post" /\ worker[w].pc = "check"
                     \/ pc = "lost" /\ worker[w].pc = "check" 
                     \/ pc = "lost" /\ ~Live(e)
                     \/ pc = "record" /\ worker[w].pc = "promote" /\ Live(e)
    BY <1>0, <1>3 DEF Check, EventIsGone, Promote, tableVars, tables
  <2>2. /\ worker'[w].pc = pc /\ worker'[w].order = o /\ worker'[w].event = e
        /\ worker'[w].unowned = worker[w].unowned /\ Working(w)'
        /\ \A v \in Workers \ {w} : worker'[v] = worker[v]
    BY <1>0, <2>1 DEF Move, ConfirmationTypeOK, Working
  <2>3. \A h \in Holds : hold'[h].order = o => HoldAgrees(h)'
    BY <1>0, <2>1, <2>2, UnwrittenAgree
  <2>4. pc = "lost" => e = None \/ ~Live(e)'
    BY <1>1, <2>1 DEF EventsFade
  <2>5. pc = "record" /\ ~worker[w].unowned => OnRows(e)' \/ ~Live(e)'
    BY <1>1, <2>1, NullAssumption DEF RowsKeep, Made, Live, OnRows, Booked, Timed
  <2>6. ConfirmerTells(w)'
    BY <1>1, <2>1, <2>2, <2>4, <2>5 DEF ConfirmerTells
  <2> QED BY <2>3, <2>6 DEF OwnTells
<1>4. CASE Post(w)
  <2>1. PICK f \in Events : worker' = [worker EXCEPT ![w].pc = "attach", ![w].event = f]
    BY <1>4 DEF Post
  <2>2. /\ worker'[w].pc = "attach" /\ worker'[w].order = o /\ worker'[w].event = f
        /\ worker[w].pc = "post" /\ UNCHANGED <<booking, hold>>
    BY <1>0, <1>4, <2>1 DEF Post, tables, ConfirmationTypeOK
  <2>3. ConfirmerTells(w)'
    BY <1>1, <2>2 DEF ConfirmerTells
  <2>4. \A h \in Holds : hold'[h].order = o => HoldAgrees(h)'
    BY <1>1, <2>2 DEF HoldAgrees
  <2> QED BY <2>3, <2>4 DEF OwnTells
<1>5. CASE Attach(w)
  <2> DEFINE open == {h \in ConvertedHolds(o, worker[w].slot) : hold[h].event = None}
  <2>1. /\ hold' = [h \in Holds |-> IF h \in open THEN [hold[h] EXCEPT !.event = e] ELSE hold[h]]
        /\ UNCHANGED booking
        /\ worker' = [worker EXCEPT ![w].pc = "promote", ![w].unowned = (open = {})]
        /\ e \in Events
    BY <1>0, <1>5 DEF Attach, ConfirmationTypeOK
  <2>2. /\ worker'[w].pc = "promote" /\ worker'[w].order = o /\ worker'[w].event = e
        /\ worker'[w].unowned <=> open = {}
    BY <1>0, <2>1 DEF ConfirmationTypeOK
  <2>3. \A h \in open : h \in Holds
    BY DEF ConvertedHolds
  <2>4. \A h \in Holds : [hold[h] EXCEPT !.event = e].event = e
                         /\ [hold[h] EXCEPT !.event = e].status = hold[h].status
                         /\ [hold[h] EXCEPT !.event = e].order = hold[h].order
    BY DEF HoldRowsOK, HoldRow
  <2> HIDE DEF open
  <2>5. \A h \in Holds : hold'[h].status = "converted" /\ hold'[h].order = o =>
          hold'[h].event \in {None, e}
    BY <1>1, <2>1, <2>4
  <2>6. open # {} => OnRows(e)'
    BY <2>1, <2>3, <2>4 DEF OnRows
  <2>7. ConfirmerTells(w)'
    BY <1>1, <2>1, <2>2, <2>5, <2>6 DEF ConfirmerTells
  <2>8. Booked(o)' \in {None, e} /\ Working(w)'
    BY <1>1, <2>1, <2>2 DEF Booked, Working
  <2>9. \A h \in Holds : hold'[h].order = o => HoldAgrees(h)'
    BY <2>2, <2>5, <2>8 DEF HoldAgrees
  <2> QED BY <2>7, <2>9 DEF OwnTells
<1>6. CASE Record(w)
  <2>1. /\ UNCHANGED hold /\ Booked(o)' = e /\ ~Working(w)'
    BY <1>0, <1>6 DEF Record, Finish, IdleWorker, Working, Booked, Timed, OrderRowsOK, BookingRow,
                      ConfirmationTypeOK
  <2>2. \A h \in Holds : hold'[h].order = o => HoldAgrees(h)'
    BY <1>1, <2>1 DEF HoldAgrees
  <2> QED BY <2>1, <2>2 DEF OwnTells
<1>7. CASE RecordFindsItChanged(w) \/ Cleanup(w)
  <2>1. /\ UNCHANGED <<booking, hold>> /\ booking[o].status = "cancelled"
        /\ Finish(w) \/ Move(w, "cleanup")
    BY <1>0, <1>1, <1>7 DEF RecordFindsItChanged, Cleanup, tableVars, tables
  <2>2. \A h \in Holds : hold'[h].order = o => HoldAgrees(h)'
    BY <1>2, <2>1, NoneToAgree
  <2>3. Working(w)' => /\ worker'[w].pc = "cleanup" /\ worker'[w].order = o
                       /\ worker'[w].event = e
    BY <1>0, <2>1 DEF Finish, Move, IdleWorker, Working, ConfirmationTypeOK
  <2>4. Working(w)' => ConfirmerTells(w)'
    BY <1>1, <2>1, <2>3 DEF ConfirmerTells
  <2> QED BY <2>2, <2>4 DEF OwnTells
<1>8. CASE ReturnToWaiting(w)
  <2>1. hold' = Released(ConvertedHolds(o, worker[w].slot)) /\ ~Working(w)'
    BY <1>0, <1>8 DEF ReturnToWaiting, Finish, IdleWorker, Working, ConfirmationTypeOK
  <2>2. \A h \in Holds : hold[h].order = o /\ hold[h].status = "converted" =>
          h \in ConvertedHolds(o, worker[w].slot)
    BY <1>1, <1>2 DEF DiaryInv, Backs, ConvertedHolds
  <2>3. \A h \in Holds : hold'[h].order = o => hold'[h].status # "converted"
    BY <2>1, <2>2, ReleasedRows
  <2> QED BY <2>1, <2>3, NoneToAgree DEF OwnTells
<1> QED BY <1>3, <1>4, <1>5, <1>6, <1>7, <1>8
        DEF ConfirmationStep, Begin, Working, NothingFails, PostAnswerLost, PromoteWithoutLink,
            CalendarFails, WorkerCrashes


\* So a confirmer's step leaves every confirmer and every converted hold in order.
LEMMA ConfirmersTellOn ==
    ASSUME TypeOK, OneAtATime, OneAtATime', NothingFails, DiaryInv, Carried, ConfirmersTell,
           HoldsAgree, RowsKeep, EventsFade, NEW w \in Workers, ConfirmationStep(w)
    PROVE  ConfirmersTell' /\ HoldsAgree'
<1> USE DEF TypeOK, TablesOK
<1>1. ASSUME NEW o \in Orders, OthersBookings(o), OwnTells(w, o), Working(w) => worker[w].order = o,
             \A v \in Workers \ {w} : worker'[v] = worker[v] /\ (Working(v) => worker[v].order # o),
             \A h \in Holds : hold'[h].status = "converted" /\ hold'[h].order # o =>
                StaysConverted(h) /\ hold'[h].event = hold[h].event
      PROVE  ConfirmersTell' /\ HoldsAgree'
  BY <1>1, OthersTell DEF Carried, OwnTells, ConfirmersTell, HoldsAgree
<1>2. ASSUME NEW q \in Orders, Begin(w, q)
      PROVE  ConfirmersTell' /\ HoldsAgree'
  <2>1. /\ worker[w].pc = "idle" /\ worker'[w].pc # "idle" /\ worker'[w].order = q
        /\ \A v \in Workers \ {w} : worker'[v] = worker[v]
        /\ UNCHANGED <<booking, hold>>
    BY <1>2 DEF Begin, ConfirmationTypeOK, tableVars
  <2>2. \A v \in Workers \ {w} : Working(v) => worker[v].order # q
    BY <2>1 DEF OneAtATime, Working
  <2>3. OwnTells(w, q)
    BY <1>2, <2>2, BeginTells
  <2>4. OthersBookings(q) /\ ~Working(w)
    BY <2>1 DEF OthersBookings, Working
  <2>5. \A h \in Holds : hold'[h].status = "converted" /\ hold'[h].order # q =>
          StaysConverted(h) /\ hold'[h].event = hold[h].event
    BY <2>1 DEF StaysConverted
  <2> QED BY <1>1, <2>1, <2>2, <2>3, <2>4, <2>5
<1>3. ASSUME Working(w)
      PROVE  ConfirmersTell' /\ HoldsAgree'
  <2>1. PICK o \in Orders : o = worker[w].order
    BY <1>3 DEF ConfirmationTypeOK, Working
  <2>2. OwnTells(w, o)
    BY <1>3, <2>1, WorkTells
  <2>3. \A v \in Workers \ {w} : worker'[v] = worker[v]
    BY DEF ConfirmationStep, Begin, Check, Post, PostAnswerLost, Attach, Promote,
       PromoteWithoutLink, EventIsGone, Record, RecordFindsItChanged, Cleanup, ReturnToWaiting,
       CalendarFails, WorkerCrashes, Move, Finish, ConfirmationTypeOK
  <2>4. \A v \in Workers \ {w} : Working(v) => worker[v].order # o
    BY <1>3, <2>1 DEF OneAtATime
  <2>5. OthersBookings(o)
    BY <2>1 DEF OthersBookings, OrderRowsOK, ConfirmationStep, Begin, Check, Post, PostAnswerLost,
       Attach, Promote, PromoteWithoutLink, EventIsGone, Record, RecordFindsItChanged, Cleanup,
       ReturnToWaiting, CalendarFails, WorkerCrashes, tableVars, tables
  <2>6. ASSUME NEW h \in Holds, hold'[h].status = "converted", hold'[h].order # o
        PROVE  StaysConverted(h) /\ hold'[h].event = hold[h].event
    <3>1. CASE Attach(w)
      <4> DEFINE open == {k \in ConvertedHolds(o, worker[w].slot) : hold[k].event = None}
      <4>1. hold' = [k \in Holds |-> IF k \in open THEN [hold[k] EXCEPT !.event = worker[w].event]
                                                  ELSE hold[k]]
        BY <2>1, <3>1 DEF Attach
      <4>2. h \in open => hold[h].order = o
        BY DEF ConvertedHolds
      <4>3. [hold[h] EXCEPT !.event = worker[w].event].order = hold[h].order
        BY DEF HoldRowsOK, HoldRow
      <4> HIDE DEF open
      <4>4. hold'[h] = hold[h]
        BY <2>6, <4>1, <4>2, <4>3
      <4> QED BY <2>6, <4>4 DEF StaysConverted
    <3>2. CASE ReturnToWaiting(w)
      <4>1. hold' = Released(ConvertedHolds(o, worker[w].slot))
        BY <2>1, <3>2 DEF ReturnToWaiting
      <4> QED BY <2>6, <4>1, ReleasedRows DEF StaysConverted
    <3>3. CASE ~(Attach(w) \/ ReturnToWaiting(w))
      <4>1. UNCHANGED hold
        BY <3>3 DEF ConfirmationStep, Begin, Check, Post, PostAnswerLost, Promote,
           PromoteWithoutLink, EventIsGone, Record, RecordFindsItChanged, Cleanup, CalendarFails,
           WorkerCrashes, tableVars, tables
      <4> QED BY <2>6, <4>1 DEF StaysConverted
    <3> QED BY <3>1, <3>2, <3>3
  <2> QED BY <1>1, <2>1, <2>2, <2>3, <2>4, <2>5, <2>6
<1> QED BY <1>2, <1>3 DEF ConfirmationStep, Working, Check, Post, PostAnswerLost, Attach, Promote,
       PromoteWithoutLink, EventIsGone, Record, RecordFindsItChanged, Cleanup, ReturnToWaiting,
       CalendarFails, WorkerCrashes

(***************************************************************************)
(* What leaves a hand is on a row, or gone.                                *)
(***************************************************************************)

\* A request gives the event it made to its hold, or deletes it.
LEMMA RequestsHandOn ==
    ASSUME TypeOK, NothingFails, [Next]_vars,
           NEW o \in Orders, NEW e \in Events, Posted(o) = e
    PROVE  Posted(o)' = e \/ OnRows(e)' \/ ~Live(e)'
<1> USE DEF TypeOK, TablesOK
<1>1. checkout[o].pc = "posted" /\ checkout[o].event = e
  BY NullAssumption DEF Posted
<1>2. CASE AttachEvent(o)
  <2>1. PICK h \in Holds : h = checkout[o].hold
    BY <1>1 DEF CheckoutTypeOK
  <2>2. hold'[h].event = e
    BY <1>1, <1>2, <2>1 DEF AttachEvent, HoldRowsOK, HoldRow
  <2> QED BY <2>2 DEF OnRows
<1>3. CASE DropOrphan(o)
  BY <1>1, <1>3 DEF DropOrphan, DropEvent, NothingFails, Live, EventRow
<1>4. ASSUME NEW p \in Orders, OrderStep(p), ~AttachEvent(o), ~DropOrphan(o)
      PROVE  checkout'[o] = checkout[o]
  <2>1. CASE CheckoutStep(p)
    BY <1>1, <1>4, <2>1 DEF CheckoutStep, HoldSlot, PostTentative, CalendarRefuses,
       CalendarUnreachable, CalendarAnswerLost, AttachEvent, DropOrphan, PersistOrder,
       HoldNoLongerLive, StartSession, LinkSession, CheckoutFails, ReleaseQuietly,
       CheckoutCrashes, EndCheckout, NothingFails, GoTo, CheckoutTypeOK
  <2>2. CASE ~CheckoutStep(p)
    BY <1>4, <2>2 DEF OrderStep, StripeMoves, SettlementStep, SettleOnHold, SettleOnRetakenTime,
       SettleWithoutTime, Paid, ReleaseFailedOrder, ChooseTime, PlaceByHand, CancelBooking,
       RefundInFull, RefundInPart, others, checkoutVars
  <2> QED BY <2>1, <2>2
<1>5. ~(\E p \in Orders : OrderStep(p)) => UNCHANGED checkout
  BY DEF Next, HoldStep, LapseHold, ClaimExpiredHold, DeleteReleasedEvent, MarkCalendarReleased,
         WorldStep, TimePasses, CoachAdds, CoachDeletes, others, vars, checkoutVars
<1> QED BY <1>2, <1>3, <1>4, <1>5 DEF Posted

\* A confirmer gives its event to its booking, or knows it on a hold, deleted or gone.
LEMMA ConfirmersHandOn ==
    ASSUME TypeOK, NothingFails, DiaryInv, CarriedAreMade, ConfirmersTell, RowsKeep, EventsFade,
           [Next]_vars, NEW w \in Workers, NEW e \in Events, InHand(w) = e
    PROVE  InHand(w)' = e \/ OnRows(e)' \/ ~Live(e)'
<1> USE DEF TypeOK, TablesOK
<1>0. PICK o \in Orders : o = worker[w].order
  BY NullAssumption DEF InHand, Working, ConfirmationTypeOK
<1>1. /\ Working(w) /\ worker[w].event = e /\ e # None /\ e \in Made
      /\ worker[w].pc \notin {"check", "post"}
      /\ worker[w].pc = "lost" => ~Live(e)
      /\ worker[w].pc = "record" /\ ~worker[w].unowned => OnRows(e) \/ ~Live(e)
      /\ booking[o].status \in {"scheduled", "cancelled"}
  BY <1>0, NullAssumption DEF InHand, CarriedAreMade, ConfirmersTell, ConfirmerTells, DiaryInv, Unmoved
<1>2. OnRows(e) \/ ~Live(e) => OnRows(e)' \/ ~Live(e)'
  BY <1>1 DEF RowsKeep, EventsFade
<1>3. CASE Attach(w) \/ Promote(w) \/ EventIsGone(w)
  <2>1. /\ worker'[w].event = worker[w].event /\ worker'[w].pc # "idle"
    BY <1>3 DEF Attach, Promote, EventIsGone, Move, ConfirmationTypeOK
  <2> QED BY <1>1, <2>1 DEF InHand, Working
<1>4. CASE Record(w)
  <2>1. Booked(o)' = e
    BY <1>0, <1>1, <1>4 DEF Record, Booked, Timed, OrderRowsOK, BookingRow
  <2> QED BY <2>1 DEF OnRows
<1>5. CASE RecordFindsItChanged(w)
  <2>1. CASE Move(w, "cleanup")
    BY <1>1, <2>1 DEF Move, InHand, Working, ConfirmationTypeOK
  <2>2. CASE ~Move(w, "cleanup")
    <3>1. worker[w].pc = "record" /\ ~worker[w].unowned
      BY <1>0, <1>1, <1>5, <2>2 DEF RecordFindsItChanged
    <3> QED BY <1>1, <1>2, <3>1
  <2> QED BY <2>1, <2>2
<1>6. CASE Cleanup(w)
  BY <1>1, <1>6 DEF Cleanup, DropEvent, NothingFails, Live, EventRow
<1>7. CASE ReturnToWaiting(w)
  BY <1>1, <1>2, <1>7 DEF ReturnToWaiting
<1>8. ASSUME NEW v \in Workers, v # w, ConfirmationStep(v)
      PROVE  worker'[w] = worker[w]
  BY <1>8 DEF ConfirmationStep, Begin, Check, Post, PostAnswerLost, Attach, Promote,
     PromoteWithoutLink, EventIsGone, Record, RecordFindsItChanged, Cleanup, ReturnToWaiting,
     CalendarFails, WorkerCrashes, Move, Finish, ConfirmationTypeOK
<1>9. ~(\E v \in Workers : ConfirmationStep(v)) => UNCHANGED worker
  BY DEF Next, OrderStep, ChooseTime, PlaceByHand, CancelBooking, RefundInFull, RefundInPart,
         HoldStep, LapseHold, ClaimExpiredHold, DeleteReleasedEvent, MarkCalendarReleased,
         WorldStep, TimePasses, CoachAdds, CoachDeletes, others, vars
<1>10. worker'[w] = worker[w] => InHand(w)' = e
  BY DEF InHand, Working
<1>11. ConfirmationStep(w) => Attach(w) \/ Promote(w) \/ EventIsGone(w) \/ Record(w)
                              \/ RecordFindsItChanged(w) \/ Cleanup(w) \/ ReturnToWaiting(w)
  BY <1>1 DEF ConfirmationStep, Working, Begin, Check, Post, PostAnswerLost, PromoteWithoutLink,
              CalendarFails, WorkerCrashes, NothingFails
<1> QED BY <1>3, <1>4, <1>5, <1>6, <1>7, <1>8, <1>9, <1>10, <1>11

\* An event the code makes is in the hand of the request or the confirmer that made it.
LEMMA MakersHaveInHand ==
    ASSUME TypeOK, NothingFails, [Next]_vars,
           NEW e \in Events \ Made, Live(e)', calendar'[e].maker # "coach"
    PROVE  (\E o \in Orders : Posted(o)' = e) \/ (\E w \in Workers : InHand(w)' = e)
<1> USE DEF TypeOK, TablesOK
<1>1. /\ calendar[e].status = "none" /\ ~UNCHANGED calendar
      /\ \A f \in Events, st \in {"confirmed", "gone"} :
           calendar' = [calendar EXCEPT ![f].status = st] => f = e
  BY DEF Made, Live, EventRow
<1>2. \A f \in Events : \A s, maker, o : AddEvent(f, s, maker, o) =>
        f = e /\ calendar'[e].maker = maker
  BY <1>1 DEF AddEvent, Live, EventRow
<1>3. ASSUME NEW o \in Orders, PostTentative(o)
      PROVE  Posted(o)' = e
  BY <1>2, <1>3 DEF PostTentative, Posted, CheckoutTypeOK
<1>4. ASSUME NEW w \in Workers, Post(w)
      PROVE  InHand(w)' = e
  <2>1. PICK f \in Events :
           /\ worker' = [worker EXCEPT ![w].pc = "attach", ![w].event = f]
           /\ UNCHANGED calendar \/ \E s, maker, o : AddEvent(f, s, maker, o)
    BY <1>4 DEF Post
  <2>2. f = e
    BY <1>1, <1>2, <2>1
  <2> QED BY <2>1, <2>2 DEF InHand, Working, ConfirmationTypeOK
<1>5. ASSUME NEW f \in Events, Live(f) \/ f \in Made
      PROVE  ~DropEvent(f) /\ calendar' # [calendar EXCEPT ![f].status = "confirmed"]
  BY <1>1, <1>5 DEF DropEvent, Live, Made
<1>6. ASSUME NEW o \in Orders, OrderStep(o), ~PostTentative(o)
      PROVE  FALSE
  <2>1. CASE DropOrphan(o)
    BY <1>1, <2>1 DEF DropOrphan, DropEvent, CheckoutTypeOK, NothingFails, Live, EventRow
  <2>2. CASE ~DropOrphan(o)
    BY <1>1, <1>6, <2>2 DEF OrderStep, CheckoutStep, HoldSlot, CalendarRefuses,
       CalendarUnreachable, CalendarAnswerLost, NothingFails,
       AttachEvent, PersistOrder, HoldNoLongerLive, StartSession, LinkSession, CheckoutFails,
       ReleaseQuietly, CheckoutCrashes, EndCheckout, StripeMoves, SettlementStep,
       SettleOnHold, SettleOnRetakenTime, SettleWithoutTime, Paid, ReleaseFailedOrder,
       ChooseTime, PlaceByHand, CancelBooking, RefundInFull, RefundInPart, tableVars
  <2> QED BY <2>1, <2>2
<1>7. ~\E h \in Holds : HoldStep(h)
  BY <1>1, <1>5 DEF HoldStep, LapseHold, ClaimExpiredHold, DeleteReleasedEvent,
     MarkCalendarReleased, AwaitsCalendarRelease, HoldRowsOK, HoldRow
<1>8. ~WorldStep
  BY <1>1, <1>2, <1>5 DEF WorldStep, TimePasses, CoachAdds, CoachDeletes
<1>9. ASSUME NEW w \in Workers, ConfirmationStep(w), ~Post(w)
      PROVE  FALSE
  <2>1. CASE Cleanup(w)
    BY <1>1, <2>1 DEF Cleanup, DropEvent, ConfirmationTypeOK, Live, EventRow
  <2>2. CASE ~Cleanup(w)
    BY <1>1, <1>5, <1>9, <2>2 DEF ConfirmationStep, Begin, Check, PostAnswerLost, Attach, Promote,
       PromoteWithoutLink, EventIsGone, Record, RecordFindsItChanged, ReturnToWaiting,
       CalendarFails, WorkerCrashes, NothingFails, tableVars, ConfirmationTypeOK
  <2> QED BY <2>1, <2>2
<1> QED BY <1>1, <1>3, <1>4, <1>6, <1>7, <1>8, <1>9 DEF Next, vars, tableVars

(***************************************************************************)
(* Every event has its owner.                                              *)
(***************************************************************************)

\* A live event somebody carries is carried on, and a new one is in hand.
LEMMA SomebodyCarriesOn ==
    ASSUME TypeOK, NothingFails, DiaryInv, CarriedAreMade, ConfirmersTell, SomebodyCarries,
           RowsKeep, EventsFade, [Next]_vars
    PROVE  SomebodyCarries'
<1> SUFFICES ASSUME NEW e \in Events, Live(e)', calendar'[e].maker # "coach"
             PROVE  \/ OnRows(e)'
                    \/ \E o \in Orders : Posted(o)' = e
                    \/ \E w \in Workers : InHand(w)' = e
  BY DEF SomebodyCarries, NobodyCarries, OnRows, Live
<1>1. CASE e \notin Made
  BY <1>1, MakersHaveInHand
<1>2. CASE e \in Made
  <2>1. Live(e) /\ calendar[e].maker # "coach"
    BY <1>2 DEF EventsFade
  <2>2. OnRows(e) \/ (\E o \in Orders : Posted(o) = e) \/ (\E w \in Workers : InHand(w) = e)
    BY <2>1 DEF SomebodyCarries, NobodyCarries, OnRows
  <2>3. OnRows(e) => OnRows(e)'
    BY DEF RowsKeep
  <2> QED BY <2>2, <2>3, RequestsHandOn, ConfirmersHandOn
<1> QED BY <1>1, <1>2

\* OwnInv is inductive while the calendar answers and no two confirmers work on
\* one order.
LEMMA OwnStep ==
    ASSUME NothingFails, TypeOK, UnsettledWaits, OneAtATime, OneAtATime', DiaryInv, EventInv,
           OwnInv, [Next]_vars
    PROVE  OwnInv'
<1> USE DEF OwnInv
<1>1. EventsFade
  BY StepFades
<1>2. Carried /\ CarriedAreMade
  BY DEF EventInv, Carried
<1>3. CASE QuietMove /\ UNCHANGED worker
  <2>1. RowsMove /\ RowsKeep
    BY <1>3, RowsKept DEF QuietMove, RowsMove
  <2>2. ConfirmersTell' /\ HoldsAgree'
    BY <1>1, <1>2, <1>3, QuietTells
  <2> QED BY <1>1, <1>2, <2>1, <2>2, HoldsTellOn, RequestsTellOn, SomebodyCarriesOn
<1>4. ASSUME NEW w \in Workers, ConfirmationStep(w)
      PROVE  OwnInv'
  <2>1. RowsMove /\ RowsKeep
    BY <1>4, ConfirmationRows, RowsKept
  <2>2. ConfirmersTell' /\ HoldsAgree'
    BY <1>1, <1>2, <1>4, <2>1, ConfirmersTellOn
  <2> QED BY <1>1, <1>2, <2>1, <2>2, HoldsTellOn, RequestsTellOn, SomebodyCarriesOn
<1>5. ASSUME NEW o \in Orders, OrderStep(o)
      PROVE  QuietMove /\ UNCHANGED worker
  <2>1. UNCHANGED worker
    BY <1>5 DEF OrderStep, ChooseTime, PlaceByHand, CancelBooking, RefundInFull, RefundInPart, others
  <2>2. CASE StripeMoves(o)
    <3>1. UNCHANGED <<booking, hold>>
      BY <2>2 DEF StripeMoves, tableVars
    <3> QED BY <2>1, <3>1, UnwrittenMoves
  <2>3. CASE CheckoutStep(o)
    BY <2>1, <2>3, CheckoutRows
  <2>4. CASE SettlementStep(o)
    BY <2>1, <2>4, SettlementRows
  <2> QED BY <1>5, <2>1, <2>2, <2>3, <2>4, AfterSaleRows DEF OrderStep
<1>6. CASE (\E h \in Holds : HoldStep(h)) \/ WorldStep
  <2>1. UNCHANGED worker
    BY <1>6 DEF HoldStep, LapseHold, ClaimExpiredHold, DeleteReleasedEvent, MarkCalendarReleased,
                WorldStep, TimePasses, CoachAdds, CoachDeletes, others
  <2> QED BY <1>3, <1>6, <2>1, SweepRows
<1>7. CASE UNCHANGED vars
  BY <1>3, <1>7, UnwrittenMoves DEF vars, tableVars
<1> QED BY <1>3, <1>4, <1>5, <1>6, <1>7 DEF Next

\* At first there is nothing to own.
LEMMA OwnInit == Init => OwnInv
BY DEF Init, TablesInit, CheckoutInit, ConfirmationInit, IdleWorker, NoHold, NoEvent, OwnInv,
       HoldsTell, RequestsTell, ConfirmersTell, HoldsAgree, HoldAgrees, SomebodyCarries, Working, Live

\* So it holds always.
LEMMA OwnAlways ==
    ASSUME NothingFails
    PROVE  Spec /\ []OneAtATime => []OwnInv
<1>1. TypeOK /\ UnsettledWaits /\ OneAtATime /\ OneAtATime' /\ DiaryInv /\ EventInv /\ OwnInv
        /\ [Next]_vars => OwnInv'
  BY OwnStep
<1> QED BY <1>1, OwnInit, TypeCorrect, UnsettledWaitsAlways, DiaryAlways, EventAlways, PTL DEF Spec

\* No event the code has put on the coach's calendar is left there with nobody
\* to delete it: a hold that has not been cleared or a booking carries it, or
\* the request that made it is still running.  So it is while the calendar
\* answers every request and no process dies: an answer that is lost leaves an
\* event that nobody knows of.
THEOREM EventsAlwaysOwned ==
    ASSUME NothingFails
    PROVE  Spec /\ []OneAtATime => []EventsAreOwned
<1>1. TypeOK /\ OwnInv => EventsAreOwned
  <2> SUFFICES ASSUME TypeOK, OwnInv, NEW e \in Events, Live(e), calendar[e].maker # "coach"
               PROVE  \/ \E h \in Holds : hold[h].event = e /\ ~hold[h].cleared
                      \/ \E o \in Orders : Timed(o) /\ booking[o].event = e
                      \/ \E o \in Orders : checkout[o].pc = "posted" /\ checkout[o].event = e
                      \/ \E w \in Workers : worker[w].pc # "idle" /\ worker[w].event = e
    BY DEF EventsAreOwned
  <2>1. ~NobodyCarries(e)
    BY DEF OwnInv, SomebodyCarries
  <2>2. \A h \in Holds : hold[h].event = e => ~hold[h].cleared
    BY DEF OwnInv, HoldsTell
  <2> QED BY <2>1, <2>2, NullAssumption DEF NobodyCarries, Booked, Posted, InHand, Working
<1> QED BY <1>1, TypeCorrect, OwnAlways, PTL
=============================================================================
