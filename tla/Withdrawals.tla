---------------------------- MODULE Withdrawals ----------------------------
(***************************************************************************)
(* A customer's notice of withdrawal, the desk's decision on it, and what  *)
(* the rest of the world may do to the order meanwhile: refunds made by    *)
(* hand, and a dispute.                                                    *)
(*                                                                         *)
(* Every notice goes to the desk: it is kept and acknowledged, and the     *)
(* booking stays as it was until a person declines it or refunds the       *)
(* payment in full.  The form looks the booking up; pressed, it asks       *)
(* Stripe for the card's country with no lock held, and decides again      *)
(* under the lock.  Notices of the days when a card decided are not here:  *)
(* their bookings were cancelled with them.                                *)
(***************************************************************************)
EXTENDS Communications

CONSTANTS
    WithdrawalDays,     \* cancellationDays and the day of grace, from the booking's making
    DeskDecisionDays,   \* how long a notice stays on the desk's list
    Tabs                \* pages of the form the customer has open

ASSUME DeskAssumption == DeskDecisionDays \in Nat

VARIABLES
    notice,     \* the row of withdrawal_requests, and of withdrawal_decisions
    form,       \* each page: where it is, and when its request began
    deskLink    \* when the decline link the desk was sent last runs out

noticeVars == <<notice, form, deskLink>>

NoNotice == [kept |-> FALSE, at |-> 0, declined |-> FALSE]
BlankForm == [step |-> "blank", now |-> 0]

\* decideWithdrawal as of an instant, the order holding one booking made at the start.
MayWithdraw(now) ==
    /\ payment = "paid" /\ booking.status \in Ongoing
    /\ now < WithdrawalDays
    /\ booking.time # None => now < booking.time

\* deskStateOf: what a customer is told of a notice kept.
DeskState ==
    CASE payment = "refunded" -> "refunded"
      [] notice.declined      -> "declined"
      [] OTHER                -> "reviewing"

\* lookUpWithdrawal: the notice kept before, or what withdrawing would mean, or a
\* refusal.
LookUp(p) ==
    /\ Here(p) /\ form[p].step = "blank"
    /\ \/ notice.kept /\ form' = [form EXCEPT ![p].step = DeskState]
       \/ ~notice.kept /\ MayWithdraw(hour) /\ form' = [form EXCEPT ![p].step = "shown"]
    /\ UNCHANGED <<notice, deskLink, log>>

\* confirmWithdrawal up to its transaction: what is read first only saves Stripe the
\* question of the card's country, whose answer decides nothing.
AskForCountry(p) ==
    /\ form[p].step = "shown"
    /\ form' = [form EXCEPT ![p] = [step |-> "asked", now |-> hour]]
    /\ UNCHANGED <<notice, deskLink, log>>

\* recordWithdrawal, by the route to the desk: the notice, and its acknowledgement
\* queued to go now.
RecordWithdrawal(now) ==
    /\ notice' = [NoNotice EXCEPT !.kept = TRUE, !.at = now]
    /\ log' = QueueForBooking(log, [t \in {"withdrawal_acknowledgement"} |-> now])

\* confirmWithdrawal's transaction, under the order's lock: decided again as of the
\* request's start, and kept once; a notice kept before stands.
KeepNotice(p) ==
    /\ form[p].step = "asked"
    /\ CASE notice.kept ->
             /\ form' = [form EXCEPT ![p] = [BlankForm EXCEPT !.step = DeskState]]
             /\ UNCHANGED <<notice, log>>
         [] ~notice.kept /\ MayWithdraw(form[p].now) ->
             /\ RecordWithdrawal(form[p].now)
             /\ form' = [form EXCEPT ![p] = [BlankForm EXCEPT !.step = "kept"]]
         [] OTHER ->
             /\ form' = [form EXCEPT ![p] = BlankForm]
             /\ UNCHANGED <<notice, log>>
    /\ UNCHANGED deskLink

\* sendQueuedMessageNow, after the response: the form claims its own acknowledgement,
\* as the job would, or finds nothing to claim.
SendAcknowledgementNow(p, s) ==
    /\ form[p].step = "kept" /\ Here(s) /\ Idle(s)
    /\ form' = [form EXCEPT ![p].step = "reviewing"]
    /\ IF Claimable("withdrawal_acknowledgement")
       THEN Take(s, "withdrawal_acknowledgement")
       ELSE UNCHANGED <<log, mailVars>>
    /\ UNCHANGED <<notice, deskLink>>

\* The page is closed, or the request fails before its transaction or its sending.
LeaveForm(p) ==
    /\ form[p].step # "blank"
    /\ form' = [form EXCEPT ![p] = BlankForm]
    /\ UNCHANGED <<notice, deskLink, log>>

\* A version that lists only bookings still to come.
WaitsForDeskToCome(n) ==
    /\ n.kept /\ ~n.declined
    /\ payment \in {"paid", "partially_refunded"}
    /\ ToCome
    /\ n.at + DeskDecisionDays > hour

\* listWithdrawalsForDesk: the session starting does not take a notice off it.
WaitsForDesk(n) ==
    /\ n.kept /\ ~n.declined
    /\ payment \in {"paid", "partially_refunded"}
    /\ booking.status \in Ongoing
    /\ n.at + DeskDecisionDays > hour

\* withdrawalDecisionAlerts: every reminder's link outlives the alert.
TellDesk ==
    /\ WaitsForDesk(notice)
    /\ deskLink' = hour + DeskDecisionDays
    /\ UNCHANGED <<notice, form, log>>

\* declineWithdrawal, under the order's lock: once, while not refunded in full.
DeclineWithdrawal ==
    /\ notice.kept /\ payment # "refunded"
    /\ notice' = [notice EXCEPT !.declined = TRUE]

\* confirmDecline: the press on the page of a link still valid.
Decline ==
    /\ hour < deskLink
    /\ DeclineWithdrawal
    /\ UNCHANGED <<form, deskLink, log>>

\* A refund made in the dashboard, as its event is recorded: part of the payment
\* leaves the booking alone, all of it cancels what is still to come.
RefundInPart ==
    /\ payment = "paid"
    /\ payment' = "partially_refunded"
    /\ UNCHANGED <<booking, holds, log, disputed>>

RefundInFull ==
    /\ payment \in {"paid", "partially_refunded"}
    /\ payment' = "refunded"
    /\ CancelBookings
    /\ UNCHANGED disputed

\* A dispute or a fraud warning is recorded, all of PaymentEvents in one step: the
\* booking is frozen, and cancelled or not as the dispute says.  Nobody is told.
DisputeLands ==
    /\ payment # "pending" /\ ~disputed
    /\ disputed' = TRUE
    /\ \/ ToCome /\ CancelOpenBooking
       \/ UNCHANGED <<booking, holds, log>>
    /\ UNCHANGED payment

WithdrawalStep ==
    \/ \E p \in Tabs : LookUp(p) \/ AskForCountry(p) \/ KeepNotice(p) \/ LeaveForm(p)
    \/ TellDesk \/ Decline

NoticeInit == notice = NoNotice /\ form = [p \in Tabs |-> BlankForm] /\ deskLink = 0
=============================================================================
