----------------------------- MODULE Settlement -----------------------------
(***************************************************************************)
(* applyCheckoutOutcome: what a checkout's result does to its order, its   *)
(* hold and its booking, in one transaction under the order's row lock.    *)
(*                                                                         *)
(* A result reaches it from Stripe's event, from any number of             *)
(* redeliveries of that event, or from the sweep asking Stripe.  All of    *)
(* them are the same step here: it can be taken at any moment after Stripe *)
(* reached the result, as often as the world likes, and the second time it *)
(* must change nothing.                                                    *)
(*                                                                         *)
(* The exclusion constraints are NOT guards of these actions.  The code    *)
(* promises to look before it writes, so that no delivery ever dies on a   *)
(* constraint; the invariants check that promise.                          *)
(***************************************************************************)
EXTENDS Checkout

\* PAYMENT_TRANSITIONS, the moves to paid and to failed.
MaySettle(o) == order[o] \in {"pending", "failed"}
MayFail(o) == order[o] = "pending"

\* The hold the session was started for: it travels in the session's metadata.
PaidHold(o) == checkout[o].hold

\* A hold still held by this order is converted, whatever its expiry.
MayConvert(o) == hold[PaidHold(o)].status = "held" /\ hold[PaidHold(o)].order = o

\* A hold the sweep expired may be taken again if nobody has the time now
\* and the calendar would still accept it.
MayRetake(o) ==
    LET s == hold[PaidHold(o)].slot IN
    /\ hold[PaidHold(o)].status = "expired" /\ hold[PaidHold(o)].order = o
    /\ phase[s] = "open"
    /\ ~HoldClash(s)
    /\ ~\E p \in Orders : Timed(p) /\ Clash(booking[p].slot, s)

Schedule(o, s, e) ==
    booking' = [booking EXCEPT ![o] = [status |-> "scheduled", slot |-> s, event |-> e]]

\* Mutation: the bookings placed by hand are not asked.
BookUnchecked(o, s, e, claimed) == hold' = claimed /\ Schedule(o, s, e)

\* Mutation: the clash is seen, but the time just claimed is kept.
BookKeepsHold(o, s, e, claimed) ==
    /\ hold' = claimed
    /\ IF BookingClash(o, s) THEN UNCHANGED booking ELSE Schedule(o, s, e)

\* The booking placed by hand over this time while the customer was paying
\* is seen, and the time just claimed goes back.
Book(o, s, e, claimed) ==
    IF BookingClash(o, s)
    THEN hold' = [h \in Holds |-> IF claimed[h].status = "converted" /\ claimed[h].order = o
                                       /\ claimed[h].slot = s
                                  THEN [claimed[h] EXCEPT !.status = "released"]
                                  ELSE claimed[h]]
         /\ UNCHANGED booking
    ELSE hold' = claimed /\ Schedule(o, s, e)

\* The money is in: the order is paid whatever happens to the time.
Paid(o) ==
    /\ session[o] = "complete"
    /\ MaySettle(o)
    /\ order' = [order EXCEPT ![o] = "paid"]
    /\ UNCHANGED <<calendar, phase, checkoutVars>>

\* claimPaidHold, first case.
SettleOnHold(o) ==
    LET h == PaidHold(o) IN
    /\ Paid(o)
    /\ MayConvert(o)
    /\ Book(o, hold[h].slot, hold[h].event, [hold EXCEPT ![h].status = "converted"])

\* Second case: expired by the sweep and still free, taken again as a new row.
SettleOnRetakenTime(o) ==
    /\ Paid(o)
    /\ MayRetake(o)
    /\ \E h \in Holds :
         /\ FreshHold(h)
         /\ LET s == hold[PaidHold(o)].slot
                row == [NoHold EXCEPT !.status = "converted", !.slot = s, !.order = o,
                                      !.lapsed = TRUE]
            IN  Book(o, s, None, [hold EXCEPT ![h] = row])

\* Mutation: an expired hold whose time is taken settles nothing.
SettleWithoutTimeReleased(o) ==
    /\ Paid(o)
    /\ hold[PaidHold(o)].status = "released"
    /\ UNCHANGED <<booking, hold>>

\* Otherwise paid_without_slot: the booking stays waiting.
SettleWithoutTime(o) ==
    /\ Paid(o)
    /\ ~MayConvert(o) /\ ~MayRetake(o)
    /\ UNCHANGED <<booking, hold>>

\* releaseFailedOrder: the time is sellable again at once, the booking is kept.
ReleaseFailedOrder(o) ==
    LET h == PaidHold(o) IN
    /\ session[o] \in {"expired", "bounced"}
    /\ MayFail(o)
    /\ order' = [order EXCEPT ![o] = "failed"]
    /\ hold' = Released({h} \cap {k \in Holds : hold[k].status = "held" /\ hold[k].order = o})
    /\ UNCHANGED <<booking, calendar, phase, checkoutVars>>

SettlementStep(o) ==
    \/ SettleOnHold(o) \/ SettleOnRetakenTime(o) \/ SettleWithoutTime(o)
    \/ ReleaseFailedOrder(o)
=============================================================================
