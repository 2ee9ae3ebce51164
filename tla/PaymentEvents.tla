--------------------------- MODULE PaymentEvents ---------------------------
(***************************************************************************)
(* What Stripe says of a payment other than that it was made: a dispute,   *)
(* whose status changes for months, and an early fraud warning.  Events    *)
(* come late, twice, out of order and before the payment's own.            *)
(*                                                                         *)
(* A handler is one delivery being answered, or the settlement of the      *)
(* payment.  A dispute's handler asks Stripe for the dispute first, with   *)
(* nothing locked.  Then comes one transaction: claim the event, take the  *)
(* payment's lock, find the order by its payment, and write.  Finding and  *)
(* writing are two steps, for a transaction sees nothing of another that   *)
(* has not ended; only the lock keeps them apart.                          *)
(***************************************************************************)
EXTENDS CareTables

CONSTANTS
    Handlers,   \* deliveries answered at once
    FraudLead,  \* FRAUD_CANCEL_LEAD_MINUTES
    Warnings,   \* the events that carry the one warning
    MaxUnheard  \* events of Stripe's that may be unhandled at once


VARIABLES
    claim,      \* the dispute's status at Stripe
    sent,       \* the events Stripe has sent: a dispute's by the status it carries
    ledger,     \* webhook_events
    dispute,    \* the row of payment_disputes
    warning,    \* the row of fraud_warnings
    refundDue,  \* the refund the warning queued is in the table
    handler     \* what each delivery's handler is doing

paymentVars == <<claim, sent, ledger, dispute, warning, refundDue, handler>>

NoClaim == "none"

\* The processor's words, and the order in which Stripe says them.  A world names the
\* statuses and the warnings that occur in it.
Later ==
    [none                   |-> {"warning_needs_response", "needs_response"},
     warning_needs_response |-> {"warning_under_review", "needs_response", "prevented"},
     warning_under_review   |-> {"warning_closed", "needs_response"},
     needs_response         |-> {"under_review", "lost"},
     under_review           |-> {"won", "lost"},
     warning_closed         |-> {},
     won                    |-> {},
     lost                   |-> {"won"},
     prevented              |-> {}]
Statuses == DOMAIN Later

ASSUME EventAssumption == FraudLead \in Nat /\ Warnings \cap (Statuses \cup {"paid"}) = {}

\* The state of a delivery that is answered.
NoHandler == [step |-> "answered"]

\* A delivery just heard: what its transaction will see, it has not looked at yet.
Heard(kind, e, s) ==
    [step |-> "read", kind |-> kind, event |-> e, status |-> s,
     sees |-> [order |-> FALSE, dispute |-> FALSE, warning |-> FALSE]]

Answered(h) == handler[h] = NoHandler
Writing(h) == ~Answered(h) /\ handler[h].step = "writing"

\* Without lockPayment, a transaction waits only for one that claims the same event.
NoLockPayment(e) == \A h \in Handlers : Writing(h) => handler[h].event # e

\* lockPayment: one transaction about the payment at a time.
LockPayment(e) == \A h \in Handlers : ~Writing(h)

(***************************************************************************)
(* Stripe.                                                                 *)
(***************************************************************************)
MayTell == Cardinality(sent \ ledger) < MaxUnheard

StripeMovesOn ==
    /\ MayTell
    /\ \E s \in Later[claim] : Here(s) /\ claim' = s /\ sent' = sent \cup {s}
    /\ UNCHANGED <<ledger, dispute, warning, refundDue, handler>>

StripeWarns(w) ==
    /\ Here(w) /\ MayTell /\ w \notin sent
    /\ sent' = sent \cup {w}
    /\ UNCHANGED <<claim, ledger, dispute, warning, refundDue, handler>>

(***************************************************************************)
(* What a dispute does: disputeCancels and applyDisputeEffects.            *)
(***************************************************************************)
MoneyGone(d) == d.linked /\ d.status \in {"lost", "prevented"}
StolenCard(d) ==
    d.linked /\ d.status \in {"needs_response", "under_review"} /\ Here("stolen_card")

Open == booking.status \in Ongoing
StartsAfter(t) == booking.time = None \/ booking.time > t

\* ordersWithDisputeWork asks the same of every order.
Stops(d) ==
    /\ Open
    /\ \/ MoneyGone(d) /\ StartsAfter(hour)
       \/ StolenCard(d) /\ StartsAfter(hour + FraudLead)

ApplyDisputeEffects(d) ==
    IF Stops(d) THEN CancelOpenBooking ELSE UNCHANGED <<booking, holds, log>>

(***************************************************************************)
(* A dispute's delivery.                                                   *)
(***************************************************************************)

\* getDispute, or the event's own copy when Stripe refuses to say.  A delivery may
\* come twice at once; one that comes after its event was handled does nothing.
ReadDispute(h, e) ==
    /\ Answered(h) /\ e \in (sent \cap Statuses) \ ledger
    /\ \E s \in {claim, e} : handler' = [handler EXCEPT ![h] = Heard("dispute", e, s)]
    /\ UNCHANGED <<claim, sent, ledger, dispute, warning, refundDue>>

HearWarning(h, w) ==
    /\ Answered(h) /\ w \in (sent \cap Warnings) \ ledger
    /\ handler' = [handler EXCEPT ![h] = Heard("warning", w, NoClaim)]
    /\ UNCHANGED <<claim, sent, ledger, dispute, warning, refundDue>>

\* settlePaidOrder's delivery: the payment's own event, or the sweep asking Stripe.
HearPayment(h) ==
    /\ Answered(h) /\ payment = "pending"
    /\ handler' = [handler EXCEPT ![h] = Heard("payment", "paid", NoClaim)]
    /\ UNCHANGED <<claim, sent, ledger, dispute, warning, refundDue>>

\* claimWebhookEvent, the lock, and what the transaction then sees.
BeginTransaction(h) ==
    /\ ~Answered(h) /\ handler[h].step = "read"
    /\ LockPayment(handler[h].event)
    /\ handler' = [handler EXCEPT ![h] =
          IF handler[h].event \in ledger THEN NoHandler
          ELSE [@ EXCEPT !.step = "writing",
                         !.sees = [order   |-> payment # "pending",
                                   dispute |-> dispute.status # NoClaim,
                                   warning |-> warning.stored]]]
    /\ UNCHANGED <<claim, sent, ledger, dispute, warning, refundDue>>

Commit(h) ==
    /\ handler' = [handler EXCEPT ![h] = NoHandler]
    /\ ledger' = ledger \cup {handler[h].event}

\* The transaction fails: nothing is written, and Stripe delivers again.
RollBack(h) ==
    /\ Here("crash") /\ mishaps < MaxMishaps
    /\ Writing(h)
    /\ mishaps' = mishaps + 1
    /\ handler' = [handler EXCEPT ![h] = NoHandler]
    /\ UNCHANGED <<claim, sent, ledger, dispute, warning, refundDue>>

Rank == [warning_needs_response |-> 1, warning_under_review |-> 2, needs_response |-> 3,
         under_review |-> 4, warning_closed |-> 5, won |-> 5, lost |-> 5, prevented |-> 5]

\* A version in which the last read to be stored stands.
MayReplaceAny(stored, next) == TRUE

\* mayReplaceStatus: only forward, but a loss may turn into a win.
MayReplace(stored, next) ==
    \/ stored = NoClaim
    \/ stored = "lost" /\ next = "won"
    \/ stored = next
    \/ Rank[stored] < 5 /\ Rank[next] >= Rank[stored]

\* recordDispute and applyDisputeEffects.
RecordDispute(h) ==
    /\ Writing(h) /\ handler[h].kind = "dispute"
    /\ Commit(h)
    /\ LET read == [status |-> handler[h].status, linked |-> dispute.linked \/ handler[h].sees.order]
       IN  dispute' = IF MayReplace(dispute.status, read.status) THEN read ELSE dispute
    /\ disputed' = (disputed \/ dispute'.linked)
    /\ ApplyDisputeEffects(dispute')
    /\ UNCHANGED <<claim, sent, warning, refundDue, payment>>

\* disputeStep: the sweep finds an order whose dispute still stops a session, and
\* applies it under the order's lock, which a handler that found the order holds.
SweepAppliesDispute ==
    /\ \A h \in Handlers : ~Writing(h)
    /\ ApplyDisputeEffects(dispute)
    /\ UNCHANGED <<paymentVars, payment, disputed>>

(***************************************************************************)
(* A fraud warning: stored once, and a full refund queued when every       *)
(* session is well ahead and nothing else is being done about the money.   *)
(***************************************************************************)
Busy == refundDue \/ dispute.linked

RefundAtOnce(actionable) ==
    actionable /\ payment = "paid" /\ ~Busy /\ Open /\ StartsAfter(hour + FraudLead)

RecordWarning(h) ==
    /\ Writing(h) /\ handler[h].kind = "warning"
    /\ Commit(h)
    /\ \E actionable \in BOOLEAN :
         LET first == ~warning.stored
             refund == first /\ handler[h].sees.order /\ RefundAtOnce(actionable)
         IN  /\ warning' = IF first THEN [stored |-> TRUE, linked |-> handler[h].sees.order] ELSE warning
             /\ disputed' = (disputed \/ warning'.linked)
             /\ refundDue' = (refundDue \/ refund)
             /\ IF refund THEN CancelOpenBooking ELSE UNCHANGED <<booking, holds, log>>
    /\ UNCHANGED <<claim, sent, dispute, payment>>

(***************************************************************************)
(* Settlement: the booking is made, with its time or without, and what     *)
(* came before the payment is given its order.                             *)
(***************************************************************************)

\* linkDisputesAtSettlement applies what a dispute it links says; a booking that is
\* cancelled at once never had an event or a message.
EffectsAtSettlement(d, b) ==
    IF \/ MoneyGone(d)
       \/ StolenCard(d) /\ (b.time = None \/ b.time > hour + FraudLead)
    THEN [b EXCEPT !.status = "cancelled"] ELSE b

Settle(h) ==
    /\ Writing(h) /\ handler[h].kind = "payment"
    /\ Commit(h)
    /\ payment' = "paid"
    /\ dispute' = [dispute EXCEPT !.linked = @ \/ handler[h].sees.dispute]
    /\ warning' = [warning EXCEPT !.linked = @ \/ handler[h].sees.warning]
    /\ disputed' = (dispute'.linked \/ warning'.linked)
    /\ \E kept \in BOOLEAN :
         LET made == IF kept /\ FirstTime > hour
                     THEN [WaitingBooking EXCEPT !.status = "scheduled", !.time = FirstTime]
                     ELSE WaitingBooking
         IN  /\ booking' = IF dispute'.linked THEN EffectsAtSettlement(dispute', made) ELSE made
             /\ holds' = IF made.time = None THEN {}
                         ELSE {[status |-> IF booking'.status = "cancelled" THEN "released"
                                                                            ELSE "converted",
                                time |-> FirstTime, event |-> None]}
    /\ UNCHANGED <<claim, sent, refundDue, log>>

PaymentInit ==
    /\ claim = NoClaim /\ sent = {} /\ ledger = {}
    /\ dispute = [status |-> NoClaim, linked |-> FALSE]
    /\ warning = [stored |-> FALSE, linked |-> FALSE]
    /\ refundDue = FALSE
    /\ handler = [h \in Handlers |-> NoHandler]

HandlerReads(h) ==
    \/ \E e \in sent : ReadDispute(h, e) \/ HearWarning(h, e)
    \/ HearPayment(h) \/ BeginTransaction(h)

HandlerWrites(h) == RecordDispute(h) \/ RecordWarning(h) \/ Settle(h)
=============================================================================
