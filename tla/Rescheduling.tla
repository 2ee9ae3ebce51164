---------------------------- MODULE Rescheduling ---------------------------
(***************************************************************************)
(* The customer's page about a booking: moving a confirmed session once,   *)
(* and choosing a time for a paid booking whose own was lost.              *)
(*                                                                         *)
(* A move commits in the database first and flags the booking; the event   *)
(* follows, by the request itself or by the sweep, until the calendar has  *)
(* answered.  A process is the request or the sweep: the database before   *)
(* the calendar call, the call, and the database after it are steps.       *)
(***************************************************************************)
EXTENDS Communications

CONSTANTS
    Movers      \* "form" is the customer's request, "sweep" the five-minute job

ASSUME MoverAssumption == Movers \subseteq {"form", "sweep"}

VARIABLE
    mover       \* what each process is doing

\* The state of a process that is moving nothing.
NoMover == [step |-> "idle"]

MoverIdle(m) == mover[m] = NoMover

HeldBySelf(t) == \E h \in holds : h.status = "converted" /\ h.time = t

\* Free in the database: nobody's live hold, nobody's booked session.
Free(t) == t \notin taken /\ ~HeldBySelf(t)

\* offered: still to come, free, and nothing else on the calendar then.
OfferedTime(t) ==
    /\ t > hour /\ Free(t)
    /\ \A e \in EventIds : ~(calendar[e].status = "live" /\ calendar[e].time = t)

\* A version that does not count the moves already made.
MayMoveAgain(t, now) ==
    /\ booking.status = "confirmed" /\ booking.time # None
    /\ now <= booking.time - Notice
    /\ t # booking.time

\* decideReschedule, the new time's length and window apart: every time of the
\* model is one session long and inside the 90 days.
MayMove(t, now) ==
    /\ booking.status = "confirmed" /\ booking.time # None
    /\ booking.moves < MovesPerBooking
    /\ now <= booking.time - Notice
    /\ t # booking.time

\* confirmMove and confirmNewTime up to their transaction: the booking read, the time one
\* that would be offered right now.  The page may be an old one: what the booking has
\* become since is refused here or under the lock.
Asks(m, step, t) ==
    /\ m = "form" /\ MoverIdle(m) /\ ~disputed
    /\ OfferedTime(t)
    /\ mover' = [mover EXCEPT ![m] = [step |-> step, time |-> t, event |-> None, now |-> hour]]
    /\ UNCHANGED <<booking, holds, log, calendar>>

AskToMove(m, t) == booking.time \notin {None, t} /\ Asks(m, "moving", t)

AskForNewTime(m, t) ==
    /\ booking.status = "awaiting_schedule" /\ payment = "paid"
    /\ Asks(m, "choosing", t)

\* retimeMessages: what is still queued follows the session, or is withdrawn
\* when its new moment has passed; what was never queued is added.
RetimeMessages(l, t, now) ==
    LET due == [u \in FollowingTheSession \cap DOMAIN MessagesOnConfirmation(t, now) |->
                  Moment(u, t, now)]
        followed == [u \in Templates |->
                       IF u \in DOMAIN due /\ l[u].status = "queued"
                       THEN [l[u] EXCEPT !.at = due[u]] ELSE l[u]]
    IN  QueueForBooking(WithdrawQueued(followed, FollowingTheSession \ DOMAIN due), due)

\* A version that only gives the time back.
OldHoldWithEvent(h) == [h EXCEPT !.status = "released"]

\* The old time's hold gives up its event with the time: the sweep deletes the
\* events of released holds.
OldHold(h) == [h EXCEPT !.status = "released", !.event = None]

\* moveBooking: one transaction, under the order's and the booking's locks, at the
\* time the request began.
MoveBooking(m) ==
    /\ ~MoverIdle(m) /\ mover[m].step = "moving"
    /\ LET t == mover[m].time
           now == mover[m].now
           old == {h \in holds : h.status = "converted" /\ h.time = booking.time}
           new == [status |-> "converted", time |-> t, event |-> booking.event]
       IN  IF ~disputed /\ MayMove(t, now) /\ Free(t)
           THEN /\ holds' = (holds \ old) \cup {OldHold(h) : h \in old} \cup {new}
                /\ booking' = [booking EXCEPT !.time = t, !.moves = @ + 1,
                                              !.moveDue = (booking.event # None)]
                /\ log' = QueueForBooking(RetimeMessages(log, t, now),
                                          [u \in {"reschedule_confirmation"} |-> now])
                /\ mover' = [mover EXCEPT ![m].step = "due"]
           ELSE /\ mover' = [mover EXCEPT ![m] = NoMover]
                /\ UNCHANGED <<booking, holds, log>>
    /\ UNCHANGED calendar

\* scheduleWaitingBooking: one transaction, under the same locks.
ScheduleWaiting(m) ==
    /\ ~MoverIdle(m) /\ mover[m].step = "choosing"
    /\ LET t == mover[m].time IN
       IF booking.status = "awaiting_schedule" /\ payment = "paid" /\ ~disputed /\ Free(t)
       THEN /\ holds' = holds \cup {[status |-> "converted", time |-> t, event |-> None]}
            /\ booking' = [booking EXCEPT !.status = "scheduled", !.time = t, !.event = None]
       ELSE UNCHANGED <<booking, holds>>
    /\ mover' = [mover EXCEPT ![m] = NoMover]
    /\ UNCHANGED <<log, calendar>>

(***************************************************************************)
(* syncCalendarMove: by the request that moved the session, and by the     *)
(* sweep for every booking still flagged.                                  *)
(***************************************************************************)
MoveIsDue == booking.moveDue /\ booking.status = "confirmed" /\ booking.event # None

ReadMove(m) ==
    /\ \/ ~MoverIdle(m) /\ mover[m].step = "due"
       \/ MoverIdle(m) /\ m = "sweep" /\ MoveIsDue
    /\ mover' = [mover EXCEPT ![m] =
          IF MoveIsDue THEN [step |-> "calling", time |-> booking.time,
                             event |-> booking.event, now |-> hour]
                       ELSE NoMover]
    /\ UNCHANGED <<booking, holds, log, calendar>>

\* moveEvent: done, or there is no such event, which is not retried.
CallCalendar(m) ==
    /\ ~MoverIdle(m) /\ mover[m].step = "calling"
    /\ calendar' = IF calendar[mover[m].event].status = "live"
                   THEN [calendar EXCEPT ![mover[m].event].time = mover[m].time] ELSE calendar
    /\ mover' = [mover EXCEPT ![m].step = "answered"]
    /\ UNCHANGED <<booking, holds, log>>

\* An outage throws: nothing more is written, and the flag stands.
CalendarDown(m) ==
    /\ Here("calendar_down") /\ mishaps < MaxMishaps
    /\ ~MoverIdle(m) /\ mover[m].step = "calling"
    /\ mishaps' = mishaps + 1
    /\ mover' = [mover EXCEPT ![m] = NoMover]
    /\ UNCHANGED <<booking, holds, log, calendar>>

\* The flag goes only if the times are still the ones just written.
ClearFlag(m) ==
    /\ ~MoverIdle(m) /\ mover[m].step = "answered"
    /\ booking' = [booking EXCEPT !.moveDue = @ /\ booking.time # mover[m].time]
    /\ mover' = [mover EXCEPT ![m] = NoMover]
    /\ UNCHANGED <<holds, log, calendar>>

MoverCrashes(m) ==
    /\ Here("crash") /\ mishaps < MaxMishaps /\ ~MoverIdle(m)
    /\ mishaps' = mishaps + 1
    /\ mover' = [mover EXCEPT ![m] = NoMover]
    /\ UNCHANGED <<booking, holds, log, calendar>>

(***************************************************************************)
(* What else happens to a time.  Confirmation models the calendar's side   *)
(* of a confirmation step by step; here it queues the messages.            *)
(***************************************************************************)
Confirm(e) ==
    /\ booking.status = "scheduled"
    /\ calendar[e].status = "none" /\ \A f \in EventIds : calendar[f].status = "none" => e <= f
    /\ calendar' = [calendar EXCEPT ![e] = [status |-> "live", time |-> booking.time]]
    /\ booking' = [booking EXCEPT !.status = "confirmed", !.event = e]
    /\ holds' = {IF h.status = "converted" /\ h.time = booking.time
                 THEN [h EXCEPT !.event = e] ELSE h : h \in holds}
    /\ log' = QueueForBooking(log, MessagesOnConfirmation(booking.time, hour))
    /\ UNCHANGED mover

\* returnToWaiting: the calendar refuses the time, and the booking waits again.
ReturnToWaiting ==
    /\ Here("calendar_refuses")
    /\ booking.status = "scheduled"
    /\ booking' = [booking EXCEPT !.status = "awaiting_schedule", !.time = None]
    /\ holds' = {IF h.status = "converted" /\ h.time = booking.time
                 THEN [h EXCEPT !.status = "released"] ELSE h : h \in holds}
    /\ linkDead' = (linkDead \/ log["choose_new_time"].status # "none")
    /\ UNCHANGED <<log, calendar, mover, sender, inbox, untold, file, links, token>>

\* The sweep deletes the event of a released hold, and marks the hold.
SweepDeletes ==
    \E h \in holds :
      /\ h.status = "released" /\ h.event # None
      /\ calendar' = [calendar EXCEPT ![h.event].status = "gone"]
      /\ holds' = (holds \ {h}) \cup {[h EXCEPT !.status = "cleared"]}
      /\ UNCHANGED <<booking, log, mover>>

MoverInit == mover = [m \in Movers |-> NoMover]

MoverStep(m) ==
    \/ MoveBooking(m) \/ ScheduleWaiting(m) \/ ReadMove(m) \/ CallCalendar(m) \/ ClearFlag(m)
=============================================================================
