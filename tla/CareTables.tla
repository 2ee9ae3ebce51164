---------------------------- MODULE CareTables -----------------------------
(***************************************************************************)
(* What happens to a booking after it is paid and confirmed: the rows one  *)
(* booking leaves in the database, the coach's calendar, and the queue of  *)
(* emails owed to its customer.                                            *)
(*                                                                         *)
(* Communications, Rescheduling, Withdrawals and CalendarWatch act on      *)
(* these variables; CustomerCare composes them.  A database transaction is *)
(* one step, and so is a call to the calendar or to the email service.     *)
(*                                                                         *)
(* An instant is a whole number, and one unit stands for the day before a  *)
(* session in which it may no longer be moved and its reminder goes: both  *)
(* are 24 hours in the code.  The minutes the code counts (the lease, the  *)
(* backoff) are steps that may happen at any moment.                       *)
(***************************************************************************)
EXTENDS Integers, FiniteSets

CONSTANTS
    None,           \* the database's null
    Times,          \* the instants a session may start
    LastHour,       \* the clock stops here
    Notice,         \* moveNoticeHours, and the reminder's lead
    MovesPerBooking,
    EventIds,       \* ids of calendar events, used in increasing order
    Worlds,         \* who is at work, what may go wrong, which emails are followed
    MaxMishaps      \* how many mishaps one behaviour may hold

ASSUME InstantAssumption ==
    /\ LastHour \in Nat /\ Notice \in Nat /\ MovesPerBooking \in Nat /\ MaxMishaps \in Nat
    /\ Times \subseteq 1 .. LastHour
    /\ EventIds \subseteq Nat
    /\ None \notin Times \cup EventIds

ASSUME FirstAssumption ==
    /\ \E t \in Times : \A u \in Times : t <= u
    /\ \E e \in EventIds : \A f \in EventIds : e <= f

VARIABLES
    world,      \* the world this behaviour is in
    hour,       \* the time
    booking,    \* the row of bookings
    payment,    \* orders.payment_status
    disputed,   \* the order has a dispute or a fraud warning on record
    holds,      \* the order's rows of slot_holds
    taken,      \* times other people hold or have booked
    calendar,   \* events on the coach's calendar
    log,        \* communication_log: one row per template
    customer,   \* the customer's row, as far as consent goes
    mishaps     \* mishaps so far

careVars ==
    <<world, hour, booking, payment, disputed, holds, taken, calendar, log, customer, mishaps>>

Here(actor) == actor \in world

\* The templates a booking's life queues; reminder_3h and the second nudge go
\* through the same lines as the ones kept here, and refund_issued is queued by
\* the rows Refunds models.
Reminders == {"reminder_24h"}
FollowingTheSession == Reminders \cup {"follow_up", "next_session_nudge_1"}
AboutWithdrawal == {"withdrawal_acknowledgement", "cancellation_confirmation"}
Templates ==
    {"booking_confirmation", "reschedule_confirmation", "choose_new_time"}
        \cup FollowingTheSession \cup AboutWithdrawal

\* TEMPLATE_KINDS: what needs the customer's consent.
Marketing == {"next_session_nudge_1"}

Row == [status   : {"none", "queued", "sent", "failed", "cancelled"},
        at       : Nat,         \* scheduled_for
        attempts : Nat,
        leased   : BOOLEAN]     \* last_attempt_at is less than the lease ago

NoRow == [status |-> "none", at |-> 0, attempts |-> 0, leased |-> FALSE]
Queued(at) == [NoRow EXCEPT !.status = "queued", !.at = at]

Ongoing == {"awaiting_schedule", "scheduled", "confirmed"}

(***************************************************************************)
(* What is queued, and when.                                               *)
(***************************************************************************)

\* messagesOnConfirmation: a reminder whose moment has passed is not owed.
Moment(t, time, now) ==
    CASE t = "booking_confirmation" -> now
      [] t \in Reminders            -> time - Notice
      [] OTHER                      -> time + 1

MessagesOnConfirmation(time, now) ==
    [t \in {"booking_confirmation"} \cup {u \in FollowingTheSession :
              u \in Reminders => time - Notice > now} |-> Moment(t, time, now)]

\* queueForBooking: one row per booking and template, the first one stands.  A world
\* names the emails it follows.
QueueForBooking(l, due) ==
    [t \in Templates |-> IF t \in DOMAIN due /\ l[t].status = "none" /\ Here(t)
                         THEN Queued(due[t]) ELSE l[t]]

\* A version that forgets to look at the row's status.
WithdrawEverything(l, ts) ==
    [t \in Templates |-> IF t \in ts /\ l[t].status # "none"
                         THEN [l[t] EXCEPT !.status = "cancelled"] ELSE l[t]]

\* Withdraw what is still queued among ts.  A claimed row is still queued.
WithdrawQueued(l, ts) ==
    [t \in Templates |-> IF t \in ts /\ l[t].status = "queued"
                         THEN [l[t] EXCEPT !.status = "cancelled"] ELSE l[t]]

(***************************************************************************)
(* Cancelling a booking: its time is released with its event on the hold   *)
(* for the sweep to delete, and its session's messages are withdrawn.      *)
(* cancelOpenBookingsOnOrder does it to the bookings still to come, and    *)
(* tells the customer.                                                     *)
(***************************************************************************)
ToCome == booking.status \in Ongoing /\ (booking.time = None \/ booking.time > hour)

ReleaseTime(b) ==
    LET backing == {h \in holds : h.status = "converted" /\ h.time = b.time}
        carried == {[h EXCEPT !.status = "released",
                              !.event = IF @ = None THEN b.event ELSE @] : h \in backing}
        byHand  == IF backing = {} /\ b.event # None
                   THEN {[status |-> "released", time |-> b.time, event |-> b.event]} ELSE {}
    IN  IF b.time = None THEN holds ELSE (holds \ backing) \cup carried \cup byHand

\* cancelOpenBooking: nothing is said to the customer.
CancelOpenBooking ==
    /\ booking' = [booking EXCEPT !.status = "cancelled"]
    /\ holds' = ReleaseTime(booking)
    /\ log' = WithdrawQueued(log, Templates \ AboutWithdrawal)

CancelBookings ==
    IF ToCome
    THEN /\ booking' = [booking EXCEPT !.status = "cancelled"]
         /\ holds' = ReleaseTime(booking)
         /\ log' = QueueForBooking(WithdrawQueued(log, Templates \ AboutWithdrawal),
                                   [t \in {"cancellation_confirmation"} |-> hour])
    ELSE UNCHANGED <<booking, holds, log>>

(***************************************************************************)
(* The start: a booking confirmed for the earliest time, with its event    *)
(* and its messages queued; or a paid one whose time was lost and about    *)
(* which nothing has been sent; or a payment still under way.              *)
(***************************************************************************)
FirstTime == CHOOSE t \in Times : \A u \in Times : t <= u
FirstEvent == CHOOSE e \in EventIds : \A f \in EventIds : e <= f

NoEvent == [status |-> "none", time |-> None]

NewBooking == [status |-> "confirmed", time |-> FirstTime, event |-> FirstEvent,
               moves |-> 0, moveDue |-> FALSE]
WaitingBooking == [status |-> "awaiting_schedule", time |-> None, event |-> None,
                   moves |-> 0, moveDue |-> FALSE]

Confirmed ==
    /\ booking = NewBooking
    /\ holds = {[status |-> "converted", time |-> FirstTime, event |-> FirstEvent]}
    /\ calendar = [e \in EventIds |-> IF e = FirstEvent
                      THEN [status |-> "live", time |-> FirstTime] ELSE NoEvent]
    /\ log = QueueForBooking([t \in Templates |-> NoRow], MessagesOnConfirmation(FirstTime, 0))

Waiting ==
    /\ booking = WaitingBooking
    /\ holds = {}
    /\ calendar = [e \in EventIds |-> NoEvent]
    /\ log = [t \in Templates |-> NoRow]

\* The payment is under way: there is no booking yet.
Unsettled ==
    /\ booking = [WaitingBooking EXCEPT !.status = "none"]
    /\ holds = {}
    /\ calendar = [e \in EventIds |-> NoEvent]
    /\ log = [t \in Templates |-> NoRow]

CareInit ==
    /\ world \in Worlds
    /\ hour = 0 /\ mishaps = 0
    /\ payment = (IF Here("unsettled") THEN "pending" ELSE "paid")
    /\ disputed = FALSE /\ taken = {}
    /\ customer = [consents |-> Here("consent"), confirmed |-> FALSE, unsubscribed |-> FALSE]
    /\ IF Here("unsettled") THEN Unsettled
       ELSE IF Here("waiting") THEN Waiting ELSE Confirmed

(***************************************************************************)
(* The types, and the shape of the booking's row.                          *)
(***************************************************************************)
CareTypeOK ==
    /\ world \in Worlds /\ hour \in 0 .. LastHour /\ mishaps \in 0 .. MaxMishaps
    /\ booking \in [status : Ongoing \cup {"none", "cancelled"}, time : Times \cup {None},
                    event : EventIds \cup {None}, moves : 0 .. MovesPerBooking,
                    moveDue : BOOLEAN]
    /\ payment \in {"pending", "paid", "partially_refunded", "refunded"} /\ disputed \in BOOLEAN
    /\ holds \subseteq [status : {"converted", "released", "cleared"}, time : Times,
                        event : EventIds \cup {None}]
    /\ taken \subseteq Times
    /\ calendar \in [EventIds -> [status : {"none", "live", "gone"}, time : Times \cup {None}]]
    /\ log \in [Templates -> Row]
    /\ customer \in [consents : BOOLEAN, confirmed : BOOLEAN, unsubscribed : BOOLEAN]
    /\ booking.status = "confirmed" => booking.time \in Times /\ booking.event \in EventIds
=============================================================================
