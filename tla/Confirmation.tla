---------------------------- MODULE Confirmation ----------------------------
(***************************************************************************)
(* confirmBookingOnCalendar: from paid and scheduled to confirmed, on the  *)
(* calendar, with a join link.                                             *)
(*                                                                         *)
(* One worker is one run of that function: the webhook's work after its    *)
(* answer, the sweep's retry, or the customer's own request after choosing *)
(* a new time.  A worker reads the booking once and then works from what   *)
(* it read: its order, its time and its event.  Each call to the calendar  *)
(* and each transaction is a step, so two workers, a cancellation or the   *)
(* release sweep may act between any two of them.                          *)
(***************************************************************************)
EXTENDS BookingTables

CONSTANT Workers

VARIABLE worker

\* check -> post -> attach -> promote -> record (-> cleanup), or -> lost
WorkerPC == {"idle", "check", "post", "attach", "promote", "record", "cleanup", "lost"}

IdleWorker == [pc |-> "idle", order |-> None, slot |-> None, event |-> None, unowned |-> FALSE]

\* A working worker knows its order and its time, and its event once it has one.
ConfirmationTypeOK ==
    /\ worker \in [Workers -> [pc : WorkerPC, order : Orders \cup {None},
                               slot : Slots \cup {None}, event : Events \cup {None},
                               unowned : BOOLEAN]]
    /\ \A w \in Workers :
         /\ worker[w].pc # "idle" => worker[w].order \in Orders /\ worker[w].slot \in Slots
         /\ worker[w].pc \in {"attach", "promote", "record", "cleanup"} =>
              worker[w].event \in Events

ConfirmationInit == worker = [w \in Workers |-> IdleWorker]

Move(w, pc) == worker' = [worker EXCEPT ![w].pc = pc]
Finish(w) == worker' = [worker EXCEPT ![w] = IdleWorker]

\* Mutation: only a booking whose event is known is tried again.
BeginWithEvent(w, o) ==
    LET b == booking[o] IN
    /\ worker[w].pc = "idle"
    /\ b.status = "scheduled" /\ order[o] = "paid" /\ b.event # None
    /\ worker' = [worker EXCEPT ![w] =
          [pc |-> "promote", order |-> o, slot |-> b.slot, event |-> b.event, unowned |-> FALSE]]
    /\ UNCHANGED tableVars

\* Paid, exactly paid, and scheduled.  The event decides where it starts.
Begin(w, o) ==
    LET b == booking[o] IN
    /\ worker[w].pc = "idle"
    /\ b.status = "scheduled" /\ order[o] = "paid"
    /\ worker' = [worker EXCEPT ![w] =
          [pc |-> IF b.event = None THEN "check" ELSE "promote",
           order |-> o, slot |-> b.slot, event |-> b.event, unowned |-> FALSE]]
    /\ UNCHANGED tableVars

\* provider.holdSlot, first request: is the time still free on the calendar?
Check(w) ==
    /\ worker[w].pc = "check"
    /\ Move(w, IF Bookable(worker[w].slot) THEN "post" ELSE "lost")
    /\ UNCHANGED tableVars

\* The event already made under this booking and start, if it is still there.
Keyed(w) ==
    {e \in Events : /\ Live(e)
                    /\ calendar[e].maker = "confirmation"
                    /\ calendar[e].order = worker[w].order
                    /\ calendar[e].slot = worker[w].slot}

\* Second request: create it, or be given the one with the same key.
Post(w) ==
    /\ worker[w].pc = "post"
    /\ \E e \in Events :
         /\ IF Keyed(w) = {}
            THEN AddEvent(e, worker[w].slot, "confirmation", worker[w].order)
            ELSE e \in Keyed(w) /\ UNCHANGED calendar
         /\ worker' = [worker EXCEPT ![w].pc = "attach", ![w].event = e]
    /\ UNCHANGED <<tables, phase>>

\* It was created, but the answer never came: the attempt throws.
PostAnswerLost(w) ==
    /\ "lost_answer" \in Env
    /\ worker[w].pc = "post"
    /\ Keyed(w) = {}
    /\ \E e \in Events : AddEvent(e, worker[w].slot, "confirmation", worker[w].order)
    /\ Finish(w)
    /\ UNCHANGED <<tables, phase>>

\* Mutation: any hold of the order for this time learns the event.
AttachToAnyHold(w) ==
    LET open == {h \in Holds : /\ hold[h].order = worker[w].order
                               /\ hold[h].slot = worker[w].slot
                               /\ hold[h].event = None}
    IN  /\ worker[w].pc = "attach"
        /\ hold' = [h \in Holds |-> IF h \in open
                                    THEN [hold[h] EXCEPT !.event = worker[w].event]
                                    ELSE hold[h]]
        /\ worker' = [worker EXCEPT ![w].pc = "promote", ![w].unowned = (open = {})]
        /\ UNCHANGED <<order, booking, calendar, phase>>

\* The paid hold for this time learns its event, unless it has one.
Attach(w) ==
    LET open == {h \in ConvertedHolds(worker[w].order, worker[w].slot) : hold[h].event = None}
    IN  /\ worker[w].pc = "attach"
        /\ hold' = [h \in Holds |-> IF h \in open
                                    THEN [hold[h] EXCEPT !.event = worker[w].event]
                                    ELSE hold[h]]
        /\ worker' = [worker EXCEPT ![w].pc = "promote", ![w].unowned = (open = {})]
        /\ UNCHANGED <<order, booking, calendar, phase>>

\* provider.confirmSlot: the event becomes the session.
Promote(w) ==
    LET e == worker[w].event IN
    /\ worker[w].pc = "promote"
    /\ Live(e)
    /\ calendar' = [calendar EXCEPT ![e].status = "confirmed"]
    /\ Move(w, "record")
    /\ UNCHANGED <<tables, phase>>

\* The event is patched, but Teams has issued no link yet: the attempt throws.
PromoteWithoutLink(w) ==
    LET e == worker[w].event IN
    /\ "no_link" \in Env
    /\ worker[w].pc = "promote"
    /\ Live(e)
    /\ calendar' = [calendar EXCEPT ![e].status = "confirmed"]
    /\ Finish(w)
    /\ UNCHANGED <<tables, phase>>

\* EventNotFoundError.
EventIsGone(w) ==
    /\ worker[w].pc = "promote"
    /\ ~Live(worker[w].event)
    /\ Move(w, "lost")
    /\ UNCHANGED tableVars

\* Mutation: the update has lost its guard.
RecordUnguarded(w) ==
    /\ worker[w].pc = "record"
    /\ booking' = [booking EXCEPT ![worker[w].order].status = "confirmed",
                                  ![worker[w].order].event = worker[w].event]
    /\ Finish(w)
    /\ UNCHANGED <<order, hold, calendar, phase>>

\* The booking update, guarded on its status and on nothing else.
Record(w) ==
    LET o == worker[w].order IN
    /\ worker[w].pc = "record"
    /\ booking[o].status = "scheduled"
    /\ booking' = [booking EXCEPT ![o].status = "confirmed", ![o].event = worker[w].event]
    /\ Finish(w)
    /\ UNCHANGED <<order, hold, calendar, phase>>

\* The guard matched no row.  An event no hold took is deleted, unless
\* another confirmer won, which has the same event by its key.
RecordFindsItChanged(w) ==
    LET b == booking[worker[w].order] IN
    /\ worker[w].pc = "record"
    /\ b.status # "scheduled"
    /\ IF worker[w].unowned /\ b.status # "confirmed" THEN Move(w, "cleanup") ELSE Finish(w)
    /\ UNCHANGED tableVars

\* Best effort: a failure is logged and the event stays.
Cleanup(w) ==
    /\ worker[w].pc = "cleanup"
    /\ \/ DropEvent(worker[w].event)
       \/ "calendar_down" \in Env /\ UNCHANGED calendar
    /\ Finish(w)
    /\ UNCHANGED <<tables, phase>>

\* Mutation: the status goes back to waiting and the times stay.
ReturnToWaitingKeepsTimes(w) ==
    LET o == worker[w].order IN
    /\ worker[w].pc = "lost"
    /\ booking' = IF booking[o].status = "scheduled"
                  THEN [booking EXCEPT ![o].status = "awaiting_schedule"]
                  ELSE booking
    /\ hold' = Released(ConvertedHolds(o, worker[w].slot))
    /\ Finish(w)
    /\ UNCHANGED <<order, calendar, phase>>

\* returnToWaiting.  The booking moves only if it is still scheduled; the
\* converted hold for the time that was READ is released either way.
ReturnToWaiting(w) ==
    LET o == worker[w].order IN
    /\ worker[w].pc = "lost"
    /\ booking' = IF booking[o].status = "scheduled"
                  THEN [booking EXCEPT ![o] = [status |-> "awaiting_schedule",
                                               slot |-> None, event |-> None]]
                  ELSE booking
    /\ hold' = Released(ConvertedHolds(o, worker[w].slot))
    /\ Finish(w)
    /\ UNCHANGED <<order, calendar, phase>>

\* A calendar request fails and the attempt throws, before it had any effect.
CalendarFails(w) ==
    /\ "calendar_down" \in Env
    /\ worker[w].pc \in {"check", "post", "promote"}
    /\ Finish(w)
    /\ UNCHANGED tableVars

\* The process dies, or a transaction fails and the attempt throws.
WorkerCrashes(w) ==
    /\ "crash" \in Env
    /\ worker[w].pc # "idle"
    /\ Finish(w)
    /\ UNCHANGED tableVars

ConfirmationStep(w) ==
    \/ \E o \in Orders : Begin(w, o)
    \/ Check(w) \/ Post(w) \/ PostAnswerLost(w) \/ Attach(w)
    \/ Promote(w) \/ PromoteWithoutLink(w) \/ EventIsGone(w)
    \/ Record(w) \/ RecordFindsItChanged(w) \/ Cleanup(w) \/ ReturnToWaiting(w)
    \/ CalendarFails(w) \/ WorkerCrashes(w)
=============================================================================
