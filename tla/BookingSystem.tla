--------------------------- MODULE BookingSystem ---------------------------
(***************************************************************************)
(* The core of the booking system put together: checkouts, Stripe,         *)
(* settlement, calendar confirmation, the five-minute sweep, the customer  *)
(* choosing a new time, cancellations and refunds, and the coach's own     *)
(* hand on the calendar.                                                   *)
(***************************************************************************)
EXTENDS Settlement, Confirmation

vars == <<tableVars, checkoutVars, worker>>

others == <<checkoutVars, worker>>

Init == TablesInit /\ CheckoutInit /\ ConfirmationInit

(***************************************************************************)
(* The clock.                                                              *)
(***************************************************************************)

\* A held hold's countdown runs out; nothing has swept it yet.
LapseHold(h) ==
    /\ hold[h].status = "held" /\ ~hold[h].lapsed
    /\ hold' = [hold EXCEPT ![h].lapsed = TRUE]
    /\ UNCHANGED <<order, booking, calendar, phase, others>>

\* A time comes inside the minimum notice, and then begins.
TimePasses(s) ==
    /\ "time" \in Env
    /\ phase' = [phase EXCEPT ![s] = CASE @ = "open" -> "notice" [] OTHER -> "started"]
    /\ phase[s] # "started"
    /\ UNCHANGED <<tables, calendar, others>>

(***************************************************************************)
(* The sweep.  Its retried confirmations are Confirmation!Begin, its       *)
(* reconciliation is Settlement's actions, its ending of abandoned         *)
(* checkouts is Checkout!EndCheckout.                                      *)
(***************************************************************************)

\* Mutation: the countdown is read without the status.
ClaimLapsedHold(h) ==
    /\ hold[h].status \in {"held", "converted"} /\ hold[h].lapsed
    /\ hold' = [hold EXCEPT ![h].status = "expired"]
    /\ UNCHANGED <<order, booking, calendar, phase, others>>

ClaimExpiredHold(h) ==
    /\ hold[h].status = "held" /\ hold[h].lapsed
    /\ hold' = [hold EXCEPT ![h].status = "expired"]
    /\ UNCHANGED <<order, booking, calendar, phase, others>>

AwaitsCalendarRelease(h) ==
    /\ hold[h].status \in {"expired", "released"}
    /\ hold[h].event # None
    /\ ~hold[h].cleared

\* Mutation: only the sweep's own expired holds are cleaned up after.
DeleteExpiredEvent(h) ==
    /\ AwaitsCalendarRelease(h) /\ hold[h].status = "expired"
    /\ Live(hold[h].event)
    /\ DropEvent(hold[h].event)
    /\ UNCHANGED <<tables, phase, others>>

\* provider.releaseSlot: an event already gone is the state we wanted.
DeleteReleasedEvent(h) ==
    /\ AwaitsCalendarRelease(h)
    /\ Live(hold[h].event)
    /\ DropEvent(hold[h].event)
    /\ UNCHANGED <<tables, phase, others>>

\* Mutation: recorded as gone before the calendar has answered.
MarkBeforeAnswer(h) ==
    /\ AwaitsCalendarRelease(h)
    /\ hold' = [hold EXCEPT ![h].cleared = TRUE]
    /\ UNCHANGED <<order, booking, calendar, phase, others>>

\* Only once the calendar has answered; a crash in between repeats the delete.
MarkCalendarReleased(h) ==
    /\ AwaitsCalendarRelease(h)
    /\ ~Live(hold[h].event)
    /\ hold' = [hold EXCEPT ![h].cleared = TRUE]
    /\ UNCHANGED <<order, booking, calendar, phase, others>>

(***************************************************************************)
(* After the sale.                                                         *)
(***************************************************************************)

Kept(o) == order[o] \in {"paid", "partially_refunded"}

\* Mutation: a session that has begun is called off like any other.
ToComeAlways(o) == booking[o].slot \in Slots \cup {None}

ToCome(o) == IF booking[o].slot = None THEN TRUE ELSE phase[booking[o].slot] # "started"

\* scheduleWaitingBooking, from the customer's link, under both constraints.
ChooseTime(o) ==
    /\ booking[o].status = "awaiting_schedule" /\ order[o] = "paid"
    /\ \E s \in Slots, h \in Holds :
         /\ Offered(s) /\ ~HoldClash(s) /\ ~BookingClash(o, s)
         /\ FreshHold(h)
         /\ hold' = [hold EXCEPT ![h] = [NoHold EXCEPT
               !.status = "converted", !.slot = s, !.order = o, !.lapsed = TRUE]]
         /\ Schedule(o, s, None)
    /\ UNCHANGED <<order, calendar, phase, others>>

\* The desk gives a waiting customer a time in the database: no hold, no event.
PlaceByHand(o) ==
    /\ "by_hand" \in Env
    /\ booking[o].status = "awaiting_schedule" /\ Kept(o)
    /\ \E s \in Slots : phase[s] # "started" /\ ~BookingClash(o, s) /\ Schedule(o, s, None)
    /\ UNCHANGED <<order, hold, calendar, phase, others>>

\* A withdrawal that is refunded automatically, or a dispute: the money
\* follows later, the session is called off now.
CancelBooking(o) ==
    /\ "cancel" \in Env
    /\ Kept(o) /\ ToCome(o)
    /\ CancelOpenBooking(o)
    /\ UNCHANGED <<order, calendar, phase, others>>

\* Mutation: the money goes back and the session stays.
RefundInFullOnly(o) ==
    /\ "refund" \in Env
    /\ Kept(o)
    /\ order' = [order EXCEPT ![o] = "refunded"]
    /\ UNCHANGED <<booking, hold, calendar, phase, others>>

\* The last of the money has gone back: a session still to come is cancelled
\* in the same transaction, one that has begun is left as it is.
RefundInFull(o) ==
    /\ "refund" \in Env
    /\ Kept(o)
    /\ order' = [order EXCEPT ![o] = "refunded"]
    /\ \/ ToCome(o) /\ CancelOpenBooking(o)
       \/ ~(ToCome(o) /\ booking[o].status # "cancelled") /\ UNCHANGED <<booking, hold>>
    /\ UNCHANGED <<calendar, phase, others>>

\* A goodwill gesture: the booking stays as it is.
RefundInPart(o) ==
    /\ "part_refund" \in Env
    /\ order[o] = "paid"
    /\ order' = [order EXCEPT ![o] = "partially_refunded"]
    /\ UNCHANGED <<booking, hold, calendar, phase, others>>

(***************************************************************************)
(* The coach, in Outlook.                                                  *)
(***************************************************************************)

CoachAdds(s) ==
    /\ "coach_adds" \in Env
    /\ \E e \in Events : AddEvent(e, s, "coach", None)
    /\ UNCHANGED <<tables, phase, others>>

CoachDeletes(e) ==
    /\ "coach_deletes" \in Env
    /\ Live(e)
    /\ DropEvent(e)
    /\ UNCHANGED <<tables, phase, others>>

(***************************************************************************)
(* The specification.                                                      *)
(***************************************************************************)

OrderStep(o) ==
    \/ (CheckoutStep(o) \/ StripeMoves(o) \/ SettlementStep(o)) /\ UNCHANGED worker
    \/ ChooseTime(o) \/ PlaceByHand(o)
    \/ CancelBooking(o) \/ RefundInFull(o) \/ RefundInPart(o)

HoldStep(h) ==
    LapseHold(h) \/ ClaimExpiredHold(h) \/ DeleteReleasedEvent(h) \/ MarkCalendarReleased(h)

WorldStep ==
    \/ \E s \in Slots : TimePasses(s) \/ CoachAdds(s)
    \/ \E e \in Events : CoachDeletes(e)

Next ==
    \/ \E o \in Orders : OrderStep(o)
    \/ \E h \in Holds : HoldStep(h)
    \/ \E w \in Workers : ConfirmationStep(w) /\ UNCHANGED checkoutVars
    \/ WorldStep

Spec == Init /\ [][Next]_vars

(***************************************************************************)
(* Fairness.  The sweep runs every five minutes and retries everything     *)
(* left undone, so what it does happens in the end if it stays possible.   *)
(* The steps of a confirmation that a calendar error or a dying process    *)
(* can cut short get strong fairness: repeated by every sweep, they are    *)
(* not cut short every time.  Stripe, the customer and the coach owe       *)
(* nothing, and a checkout request may stop anywhere.                      *)
(***************************************************************************)

Sweeping(h) ==
    /\ WF_vars(ClaimExpiredHold(h))
    /\ WF_vars(DeleteReleasedEvent(h))
    /\ WF_vars(MarkCalendarReleased(h))

Settling(o) == WF_vars(SettlementStep(o) /\ UNCHANGED worker)

Retrying(o) == SF_vars((\E w \in Workers : Begin(w, o)) /\ UNCHANGED checkoutVars)

Confirming(w) ==
    /\ SF_vars(Check(w) /\ UNCHANGED checkoutVars)
    /\ SF_vars(Post(w) /\ UNCHANGED checkoutVars)
    /\ SF_vars(Promote(w) /\ UNCHANGED checkoutVars)
    /\ SF_vars(EventIsGone(w) /\ UNCHANGED checkoutVars)
    /\ SF_vars(Record(w) /\ UNCHANGED checkoutVars)
    /\ SF_vars(ReturnToWaiting(w) /\ UNCHANGED checkoutVars)
    /\ WF_vars((Attach(w) \/ RecordFindsItChanged(w) \/ Cleanup(w)) /\ UNCHANGED checkoutVars)

Fairness ==
    /\ \A h \in Holds : Sweeping(h)
    /\ \A o \in Orders : Settling(o) /\ Retrying(o)
    /\ \A w \in Workers : Confirming(w)

FairSpec == Spec /\ Fairness

(***************************************************************************)
(* Safety.                                                                 *)
(***************************************************************************)

\* The rows and the requests have the shapes the code reads them as having.
TypeOK == TablesOK /\ CheckoutTypeOK /\ ConfirmationTypeOK

\* Two live claims on overlapping times never exist: the exclusion constraint
\* on slot_holds is never asked to refuse a settlement that took a lapsed time.
HoldsDoNotOverlap ==
    \A h, k \in Holds : h # k /\ Blocking(h) /\ Blocking(k) => ~Clash(hold[h].slot, hold[k].slot)

\* Two customers never have overlapping sessions, and no settlement dies on
\* the bookings' own exclusion constraint: settlePaidOrder looked first.
BookingsDoNotOverlap ==
    \A o, p \in Orders :
        o # p /\ Timed(o) /\ Timed(p) => ~Clash(booking[o].slot, booking[p].slot)

\* A session with a time has been paid for; one whose money all went back
\* keeps its time only because it had begun.
NoSessionUnpaid ==
    \A o \in Orders : Timed(o) =>
        \/ Kept(o)
        \/ order[o] = "refunded" /\ phase[booking[o].slot] = "started"

\* A paid time waiting for the calendar is off sale: its converted hold is there.
ScheduledIsBacked ==
    \A o \in Orders :
        booking[o].status = "scheduled" => ConvertedHolds(o, booking[o].slot) # {}

\* And so is a confirmed one: nothing a late confirmer does may give it away.
ConfirmedIsBacked ==
    \A o \in Orders :
        booking[o].status = "confirmed" => ConvertedHolds(o, booking[o].slot) # {}

\* A converted hold blocks its time with no countdown, so each one backs a
\* session that will happen: no permanent hole is left in the diary.
NoHoleInDiary ==
    \A h \in Holds : hold[h].status = "converted" =>
        /\ Timed(hold[h].order)
        /\ booking[hold[h].order].slot = hold[h].slot

\* What the release sweep is about to delete is never an open session's event.
SweepDeletesNoOpenSession ==
    \A h \in Holds, o \in Orders :
        AwaitsCalendarRelease(h) /\ Timed(o) => booking[o].event # hold[h].event

\* Every event we made is somebody's to delete: a hold or a booking still
\* carries it, or the request that made it is still running.
EventsAreOwned ==
    \A e \in Events : Live(e) /\ calendar[e].maker # "coach" =>
        \/ \E h \in Holds : hold[h].event = e /\ ~hold[h].cleared
        \/ \E o \in Orders : Timed(o) /\ booking[o].event = e
        \/ \E o \in Orders : checkout[o].pc = "posted" /\ checkout[o].event = e
        \/ \E w \in Workers : worker[w].pc # "idle" /\ worker[w].event = e

(***************************************************************************)
(* What a step may never do.                                               *)
(***************************************************************************)

LosesTime(o) == booking[o].status = "scheduled" /\ booking'[o].status = "awaiting_schedule"

\* A customer's paid time is given up only because the calendar lost it:
\* never while the event we made for it still stands there.
LostOnlyWhenCalendarLostIt ==
    [][\A o \in Orders : LosesTime(o) =>
         ~\E e \in Events : /\ Live(e)
                            /\ calendar[e].order = o
                            /\ calendar[e].slot = booking[o].slot]_vars

(***************************************************************************)
(* Liveness.                                                               *)
(***************************************************************************)

\* A payment Stripe took is settled, whatever was lost on the way.
PaymentIsSettled ==
    \A o \in Orders : session[o] = "complete" ~> order[o] \notin {"pending", "failed"}

\* A paid and scheduled booking does not stay in between for ever.
ScheduledIsResolved ==
    \A o \in Orders : booking[o].status = "scheduled" ~> booking[o].status # "scheduled"

\* The event of a time given back leaves the real calendar.
ReleasedEventGoes ==
    \A h \in Holds :
        AwaitsCalendarRelease(h) ~> hold[h].event # None /\ ~Live(hold[h].event)

(***************************************************************************)
(* The promise, as seen from here.                                         *)
(***************************************************************************)

\* The two words for an order without a seat are not times.
ASSUME SeatAssumption == "waiting" \notin Slots /\ "over" \notin Slots

SaleMoney == [o \in Orders |->
    CASE order[o] \in {"none", "pending", "failed"} -> "unpaid"
      [] Kept(o) -> "paid"
      [] OTHER -> "returned"]

SaleSeat == [o \in Orders |->
    CASE Timed(o) -> booking[o].slot
      [] booking[o].status = "cancelled" -> "over"
      [] OTHER -> "waiting"]

SalePast == {s \in Slots : phase[s] = "started"}

Sale == INSTANCE SlotSale WITH money <- SaleMoney, seat <- SaleSeat, past <- SalePast

\* Everything above, seen as orders and seats, is the promise of SlotSale.
KeepsThePromise == Sale!Spec
=============================================================================
