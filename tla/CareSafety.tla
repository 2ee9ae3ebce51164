----------------------------- MODULE CareSafety -----------------------------
(***************************************************************************)
(* Proofs about a paid booking's life after its confirmation: its emails,  *)
(* the file in the customer's calendar, the watch on the calendar event,   *)
(* disputes and fraud warnings, the desk's alerts and its list of notices, *)
(* the order rows wait in for the sweep, and the types of all of it.       *)
(*                                                                         *)
(* They hold in every world, for any number of senders, deliveries, runs,  *)
(* form pages and mishaps.  Each part has an inductive invariant of its    *)
(* own, proved on top of BaseInv, which says what the rows and the workers *)
(* look like; what any step may do to the booking is said once, by         *)
(* BookingMove, and what any step may do to the queue of emails once, by   *)
(* LogMove.                                                                *)
(*                                                                         *)
(* Two theorems assume that a booking is moved once at most, which is what *)
(* the code sells: a time moved away and back again between two looks      *)
(* deceives the watch.                                                     *)
(***************************************************************************)
EXTENDS CustomerCare, FiniteSetTheorems, SequenceTheorems, TLAPS

(***************************************************************************)
(* Rows and workers.                                                       *)
(***************************************************************************)

\* The rows of bookings there may be.
BookingRow == [status : Ongoing \cup {"none", "cancelled"}, time : Times \cup {None},
               event : EventIds \cup {None}, moves : 0 .. MovesPerBooking, moveDue : BOOLEAN]

\* The order and its booking: a booking appears with the payment, has a time from when
\* it is scheduled and an event from when it is confirmed.
RowsOK ==
    /\ booking \in BookingRow /\ disputed \in BOOLEAN /\ hour \in 0 .. LastHour
    /\ payment \in {"pending", "paid", "partially_refunded", "refunded"}
    /\ booking.status \in {"scheduled", "confirmed"} => booking.time \in Times
    /\ booking.status = "confirmed" => booking.event \in EventIds
    /\ payment = "pending" <=> booking.status = "none"

\* What a request to move, or the sweep for it, may be doing.
MoverState ==
    {NoMover} \cup [step : {"moving", "choosing", "due", "calling", "answered"}, time : Times,
                    event : EventIds \cup {None}, now : 0 .. LastHour]

\* What the watch reads of a booking, and what it may be doing.
WatchRead == [status : {"confirmed"}, event : EventIds, time : Times, moveDue : BOOLEAN]
WatchState ==
    {NotWatching} \cup [step : {"listed"}, read : WatchRead]
        \cup [step : {"read"}, read : WatchRead,
              found : [kind : {"fine", "moved", "restored", "gone"}, as : EventIds \cup {None}]]

\* The movers and the watch.
WorkersOK ==
    /\ mover \in [Movers -> MoverState]
    /\ watch \in WatchState
    /\ watch.step = "read" /\ watch.found.kind = "restored" => watch.found.as \in EventIds

\* A delivery of one of Stripe's events.
Delivery ==
    [step : {"read", "writing"}, kind : {"dispute", "warning", "payment"},
     event : Statuses \cup Warnings \cup {"paid"}, status : Statuses,
     sees : [order : BOOLEAN, dispute : BOOLEAN, warning : BOOLEAN]]

\* A delivery tells of something Stripe sent.
DeliveriesOK ==
    /\ handler \in [Handlers -> {NoHandler} \cup Delivery]
    /\ claim \in Statuses
    /\ dispute \in [status : Statuses, linked : BOOLEAN]
    /\ warning \in [stored : BOOLEAN, linked : BOOLEAN]
    /\ \A h \in Handlers : ~Answered(h) =>
          /\ handler[h].kind = "dispute" => handler[h].event \in sent \cap Statuses
          /\ handler[h].kind = "warning" => handler[h].event \in sent \cap Warnings
          /\ handler[h].kind = "payment" => handler[h].event = "paid"

\* What a transaction that wrote now would see.
Seen == [order |-> payment # "pending", dispute |-> dispute.status # NoClaim,
         warning |-> warning.stored]

\* The locks: one transaction writes at a time, it sees what is there, and the settlement
\* is written for an order still to be paid.
OneWriter ==
    /\ \A h, k \in Handlers : Writing(h) /\ Writing(k) => h = k
    /\ \A h \in Handlers : Writing(h) => handler[h].event \notin ledger /\ handler[h].sees = Seen
    /\ \A h \in Handlers : ~Answered(h) /\ handler[h].kind = "payment" /\ "paid" \notin ledger =>
          payment = "pending"

\* Types and locks, which every other invariant rests on.
BaseInv == RowsOK /\ WorkersOK /\ DeliveriesOK /\ OneWriter

\* What any step may do to the booking.
BookingCancelled == booking.status \in Ongoing /\ booking' = [booking EXCEPT !.status = "cancelled"]

\* The customer moves it.
BookingMoved ==
    /\ booking.status = "confirmed" /\ ~disputed /\ booking.moves < MovesPerBooking
    /\ \E t \in Times \ {booking.time} :
         booking' = [booking EXCEPT !.time = t, !.moves = @ + 1, !.moveDue = (booking.event # None)]

\* Its event has followed.
BookingFlagCleared == booking' = [booking EXCEPT !.moveDue = FALSE]

\* A booking without a time is given one.
BookingScheduled ==
    /\ booking.status = "awaiting_schedule" /\ ~disputed
    /\ \E t \in Times :
         booking' = [booking EXCEPT !.status = "scheduled", !.time = t, !.event = None]

\* Its event is made.
BookingConfirmed ==
    /\ booking.status = "scheduled"
    /\ \E e \in EventIds : booking' = [booking EXCEPT !.status = "confirmed", !.event = e]

\* The calendar refuses its time.
BookingReturned ==
    /\ booking.status = "scheduled" /\ Here("calendar_refuses")
    /\ booking' = [booking EXCEPT !.status = "awaiting_schedule", !.time = None]

\* The watch finds the event back under another id.
BookingAdopted ==
    /\ booking.status = "confirmed" /\ watch' = NotWatching
    /\ \E e \in EventIds : booking' = [booking EXCEPT !.event = e]

\* The settlement makes it.
BookingMade ==
    /\ booking.status = "none" /\ payment = "pending" /\ payment' = "paid"
    /\ booking' \in [status : {"awaiting_schedule", "scheduled", "cancelled"}, time : {FirstTime, None},
                     event : {None}, moves : {0}, moveDue : {FALSE}]
    /\ booking'.status = "scheduled" => booking'.time = FirstTime
    /\ booking'.status = "awaiting_schedule" => booking'.time = None

\* All of it, and what happens to the order with it.
BookingMove ==
    \/ /\ booking' = booking \/ BookingCancelled
       /\ \/ payment' = payment
          \/ /\ payment \in {"paid", "partially_refunded"}
             /\ payment' \in {"partially_refunded", "refunded"}
       /\ disputed' \in {disputed, TRUE}
    \/ /\ BookingMoved \/ BookingFlagCleared \/ BookingScheduled \/ BookingConfirmed
          \/ BookingReturned \/ BookingAdopted
       /\ UNCHANGED <<payment, disputed>>
    \/ BookingMade /\ disputed' \in BOOLEAN

(***************************************************************************)
(* What the parts do to the booking.                                       *)
(***************************************************************************)

\* The first time and the first event of a world are a time and an event.
LEMMA Firsts == FirstTime \in Times /\ FirstEvent \in EventIds /\ None \notin Times /\ None \notin EventIds
BY InstantAssumption, FirstAssumption DEF FirstTime, FirstEvent

\* The statuses of a dispute, spelled out.
LEMMA StatusNames ==
    Statuses = {"none", "warning_needs_response", "warning_under_review", "needs_response",
                "under_review", "warning_closed", "won", "lost", "prevented"}
BY DEF Statuses, Later

\* A world starts with an order paid and confirmed, one without a time, or one unsettled,
\* and with nobody at work.
LEMMA InitBase == Init => BaseInv
<1> SUFFICES ASSUME Init PROVE BaseInv
  OBVIOUS
<1> USE Firsts
<1>1. RowsOK
  <2>1. hour = 0 /\ hour \in 0 .. LastHour /\ 0 \in 0 .. MovesPerBooking
    BY InstantAssumption DEF Init, CareInit
  <2>2. payment = (IF Here("unsettled") THEN "pending" ELSE "paid") /\ disputed = FALSE
    BY DEF Init, CareInit
  <2>3. CASE Here("unsettled")
    <3>1. booking = [WaitingBooking EXCEPT !.status = "none"]
      BY <2>3 DEF Init, CareInit, Unsettled
    <3> QED BY <2>1, <2>2, <2>3, <3>1 DEF RowsOK, BookingRow, WaitingBooking, Ongoing
  <2>4. CASE ~Here("unsettled") /\ Here("waiting")
    <3>1. booking = WaitingBooking
      BY <2>4 DEF Init, CareInit, Waiting
    <3> QED BY <2>1, <2>2, <2>4, <3>1 DEF RowsOK, BookingRow, WaitingBooking, Ongoing
  <2>5. CASE ~Here("unsettled") /\ ~Here("waiting")
    <3>1. booking = NewBooking
      BY <2>5 DEF Init, CareInit, Confirmed
    <3> QED BY <2>1, <2>2, <2>5, <3>1 DEF RowsOK, BookingRow, NewBooking, Ongoing
  <2> QED BY <2>3, <2>4, <2>5
<1>2. WorkersOK
  BY DEF Init, MoverInit, WatchInit, WorkersOK, MoverState, WatchState, NotWatching
<1>3. DeliveriesOK /\ OneWriter
  BY StatusNames DEF Init, PaymentInit, DeliveriesOK, OneWriter, Answered, Writing, NoHandler, NoClaim
<1> QED BY <1>1, <1>2, <1>3 DEF BaseInv

\* A move, a new time, a confirmation and the sweep's retry do one of those things
\* (reschedule.ts, manage/flow.ts).
LEMMA MovingBooking == ASSUME BaseInv, Moving PROVE BookingMove
<1> USE DEF BaseInv, RowsOK
<1>0. UNCHANGED <<payment, disputed>>
  BY DEF Moving, worldVars
<1>1. booking \in BookingRow
  OBVIOUS
<1>2. CASE \E m \in Movers : MoveBooking(m)
  <2>1. PICK m \in Movers : MoveBooking(m)
    BY <1>2
  <2>2. mover[m].time \in Times
    BY <2>1 DEF MoveBooking, MoverIdle, WorkersOK, MoverState, NoMover
  <2>3. booking' = booking \/ BookingMoved
    BY <1>1, <2>1, <2>2 DEF MoveBooking, BookingMoved, MayMove
  <2> QED BY <1>0, <2>3 DEF BookingMove
<1>3. CASE \E m \in Movers : ScheduleWaiting(m)
  <2>1. PICK m \in Movers : ScheduleWaiting(m)
    BY <1>3
  <2>2. mover[m].time \in Times
    BY <2>1 DEF ScheduleWaiting, MoverIdle, WorkersOK, MoverState, NoMover
  <2>3. booking' = booking \/ BookingScheduled
    BY <1>1, <2>1, <2>2 DEF ScheduleWaiting, BookingScheduled
  <2> QED BY <1>0, <2>3 DEF BookingMove
<1>4. CASE \E m \in Movers : ClearFlag(m)
  <2>1. PICK m \in Movers : ClearFlag(m)
    BY <1>4
  <2>2. CASE booking.time # mover[m].time
    <3>1. booking' = booking
      BY <1>1, <2>1, <2>2 DEF ClearFlag, BookingRow
    <3> QED BY <1>0, <3>1 DEF BookingMove
  <2>3. CASE booking.time = mover[m].time
    <3>1. BookingFlagCleared
      BY <1>1, <2>1, <2>3 DEF ClearFlag, BookingRow, BookingFlagCleared
    <3> QED BY <1>0, <3>1 DEF BookingMove
  <2> QED BY <2>2, <2>3
<1>5. CASE \E e \in EventIds : Confirm(e)
  <2>1. BookingConfirmed
    BY <1>5 DEF Confirm, BookingConfirmed
  <2> QED BY <1>0, <2>1 DEF BookingMove
<1>6. CASE ReturnToWaiting
  <2>1. BookingReturned
    BY <1>6 DEF ReturnToWaiting, BookingReturned
  <2> QED BY <1>0, <2>1 DEF BookingMove
<1>7. CASE UNCHANGED booking
  BY <1>0, <1>7 DEF BookingMove
<1> QED
  BY <1>2, <1>3, <1>4, <1>5, <1>6, <1>7
     DEF Moving, MoverStep, ReadMove, CallCalendar, AskToMove, AskForNewTime, Asks, SweepDeletes,
         CalendarDown, MoverCrashes

\* A refund, or a dispute, only cancels what is still on.
LEMMA CancelledBooking == ASSUME CancelBookings \/ (ToCome /\ CancelOpenBooking) PROVE booking' = booking \/ BookingCancelled
BY DEF CancelBookings, CancelOpenBooking, ToCome, BookingCancelled

\* applyDisputeEffects only cancels.
LEMMA StoppedBooking == ASSUME NEW d, ApplyDisputeEffects(d) PROVE booking' = booking \/ BookingCancelled
BY DEF ApplyDisputeEffects, Stops, Open, CancelOpenBooking, BookingCancelled

\* A refund in the dashboard, in part or in full, and a dispute only cancel.
LEMMA MoneyBooking == ASSUME BaseInv, Money PROVE BookingMove
<1>1. CASE RefundInPart
  BY <1>1 DEF RefundInPart, BookingMove
<1>2. CASE RefundInFull
  <2>1. booking' = booking \/ BookingCancelled
    BY <1>2, CancelledBooking DEF RefundInFull
  <2> QED BY <1>2, <2>1 DEF RefundInFull, BookingMove
<1>3. CASE DisputeLands
  BY <1>3, CancelledBooking DEF DisputeLands, BookingMove
<1> QED BY <1>1, <1>2, <1>3 DEF Money

\* The settlement makes the booking, and stops it there if a dispute came first.
LEMMA SettledBooking == ASSUME BaseInv, NEW h \in Handlers, Settle(h) PROVE BookingMove
<1>1. payment = "pending" /\ booking.status = "none" /\ payment' = "paid"
  BY DEF BaseInv, OneWriter, Settle, Writing, DeliveriesOK, RowsOK, Delivery, NoHandler, Answered
<1>2. PICK kept \in BOOLEAN :
         LET made == IF kept /\ FirstTime > hour
                     THEN [WaitingBooking EXCEPT !.status = "scheduled", !.time = FirstTime]
                     ELSE WaitingBooking
         IN  booking' = IF dispute'.linked THEN EffectsAtSettlement(dispute', made) ELSE made
  BY Zenon DEF Settle
<1> DEFINE made == IF kept /\ FirstTime > hour
                   THEN [WaitingBooking EXCEPT !.status = "scheduled", !.time = FirstTime]
                   ELSE WaitingBooking
<1>3. booking' = made \/ booking' = [made EXCEPT !.status = "cancelled"]
  BY <1>2 DEF EffectsAtSettlement
<1>4. made \in {WaitingBooking, [WaitingBooking EXCEPT !.status = "scheduled", !.time = FirstTime]}
  OBVIOUS
<1> HIDE DEF made
<1>5. BookingMade
  <2>1. CASE made = WaitingBooking
    <3>1. booking' = WaitingBooking \/ booking' = [WaitingBooking EXCEPT !.status = "cancelled"]
      BY <1>3, <2>1
    <3>2. CASE booking' = WaitingBooking
      BY <1>1, <3>2 DEF BookingMade, WaitingBooking
    <3>3. CASE booking' = [WaitingBooking EXCEPT !.status = "cancelled"]
      BY <1>1, <3>3 DEF BookingMade, WaitingBooking
    <3> QED BY <3>1, <3>2, <3>3
  <2>2. CASE made = [WaitingBooking EXCEPT !.status = "scheduled", !.time = FirstTime]
    BY <1>1, <1>3, <2>2 DEF BookingMade, WaitingBooking
  <2> QED BY <1>4, <2>1, <2>2
<1>6. disputed' \in BOOLEAN
  <2>1. dispute'.linked \in BOOLEAN
    BY DEF Settle, BaseInv, DeliveriesOK, Writing, Answered, Delivery
  <2>2. warning'.linked \in BOOLEAN
    BY DEF Settle, BaseInv, DeliveriesOK, Writing, Answered, Delivery
  <2> QED BY <2>1, <2>2 DEF Settle
<1> QED BY <1>5, <1>6 DEF BookingMove

\* The delivery of a dispute records it and cancels what it stops.
LEMMA RecordedDispute == ASSUME BaseInv, NEW h \in Handlers, RecordDispute(h) PROVE BookingMove
<1>1. booking' = booking \/ BookingCancelled
  BY StoppedBooking DEF RecordDispute
<1>2. disputed' \in {disputed, TRUE}
  <2>1. handler[h] \in Delivery
    BY DEF RecordDispute, Writing, Answered, BaseInv, DeliveriesOK
  <2>2. dispute'.linked \in BOOLEAN
    BY <2>1 DEF RecordDispute, BaseInv, DeliveriesOK, Delivery
  <2> QED BY <2>2 DEF RecordDispute, BaseInv, RowsOK
<1> QED BY <1>1, <1>2 DEF BookingMove, RecordDispute

\* So does the delivery of a fraud warning.
LEMMA RecordedWarning == ASSUME BaseInv, NEW h \in Handlers, RecordWarning(h) PROVE BookingMove
<1>1. booking' = booking \/ BookingCancelled
  BY DEF RecordWarning, RefundAtOnce, Open, CancelOpenBooking, BookingCancelled
<1>2. disputed' \in {disputed, TRUE}
  <2>1. handler[h] \in Delivery
    BY DEF RecordWarning, Writing, Answered, BaseInv, DeliveriesOK
  <2>2. warning'.linked \in BOOLEAN
    BY <2>1 DEF RecordWarning, BaseInv, DeliveriesOK, Delivery
  <2> QED BY <2>2 DEF RecordWarning, BaseInv, RowsOK
<1> QED BY <1>1, <1>2 DEF BookingMove, RecordWarning

\* Every step of the deliveries does one of those things.
LEMMA HearingBooking == ASSUME BaseInv, HearingOfThePayment PROVE BookingMove
<1>1. CASE UNCHANGED <<booking, payment, disputed>>
  BY <1>1 DEF BookingMove
<1>2. CASE SweepAppliesDispute
  BY <1>2, StoppedBooking DEF SweepAppliesDispute, BookingMove
<1>3. CASE \E h \in Handlers : HandlerWrites(h)
  BY <1>3, SettledBooking, RecordedDispute, RecordedWarning DEF HandlerWrites
<1> QED BY <1>1, <1>2, <1>3 DEF HearingOfThePayment

\* The watch writes nothing but the id of an event it found again.
LEMMA WatchingBooking == ASSUME BaseInv, Watching PROVE BookingMove
<1>1. UNCHANGED <<payment, disputed>>
  BY DEF Watching, worldVars
<1>2. booking' = booking \/ BookingAdopted
  BY DEF Watching, WatchStep, StartWatch, ReadCalendar, Judge, Adopt, WatchGivesUp, BookingAdopted,
         BaseInv, WorkersOK
<1> QED BY <1>1, <1>2 DEF BookingMove

\* No step of the whole system does anything else to a booking or its order.
LEMMA BookingMoves == ASSUME BaseInv, Next PROVE BookingMove
<1>1. CASE UNCHANGED <<booking, payment, disputed>>
  BY <1>1 DEF BookingMove
<1> QED
  BY <1>1, MovingBooking, MoneyBooking, HearingBooking, WatchingBooking
     DEF Next, Sending, Withdrawing, Meddling, Alerting, Sweeping, Living, Tick, rowVars, worldVars

\* Only the clock moves time.
LEMMA HourMoves == ASSUME Next PROVE hour' = hour \/ Tick
BY DEF Next, Sending, Moving, Withdrawing, Money, HearingOfThePayment, Watching, Meddling, Alerting,
       Sweeping, Living, Tick, worldVars

(***************************************************************************)
(* Types and locks.                                                        *)
(***************************************************************************)

\* So the rows keep their shape.
LEMMA RowsStep == ASSUME BaseInv, Next PROVE RowsOK'
<1> USE Firsts
<1>1. hour' \in 0 .. LastHour
  <2>1. hour' = hour \/ (hour < LastHour /\ hour' = hour + 1)
    BY HourMoves DEF Tick
  <2> QED BY <2>1, InstantAssumption DEF BaseInv, RowsOK
<1>2. BookingMove /\ RowsOK
  BY BookingMoves DEF BaseInv
<1>3. CASE booking' = booking \/ BookingCancelled
  BY <1>1, <1>2, <1>3 DEF RowsOK, BookingMove, BookingCancelled, BookingRow, Ongoing, BookingMade,
     BookingMoved, BookingFlagCleared, BookingScheduled, BookingConfirmed, BookingReturned, BookingAdopted
<1>4. CASE BookingMoved /\ UNCHANGED <<payment, disputed>>
  <2>1. PICK t \in Times :
           booking' = [booking EXCEPT !.time = t, !.moves = @ + 1, !.moveDue = (booking.event # None)]
    BY <1>4 DEF BookingMoved
  <2>2. booking.moves + 1 \in 0 .. MovesPerBooking
    BY <1>2, <1>4, InstantAssumption DEF BookingMoved, RowsOK, BookingRow
  <2>3. booking' \in BookingRow
    BY <1>2, <2>1, <2>2 DEF RowsOK, BookingRow
  <2> QED BY <1>1, <1>2, <1>4, <2>1, <2>3 DEF RowsOK, BookingMoved, BookingRow
<1>5. CASE BookingFlagCleared /\ UNCHANGED <<payment, disputed>>
  BY <1>1, <1>2, <1>5 DEF RowsOK, BookingFlagCleared, BookingRow
<1>6. CASE BookingScheduled /\ UNCHANGED <<payment, disputed>>
  BY <1>1, <1>2, <1>6 DEF RowsOK, BookingScheduled, BookingRow, Ongoing
<1>7. CASE BookingConfirmed /\ UNCHANGED <<payment, disputed>>
  BY <1>1, <1>2, <1>7 DEF RowsOK, BookingConfirmed, BookingRow, Ongoing
<1>8. CASE BookingReturned /\ UNCHANGED <<payment, disputed>>
  BY <1>1, <1>2, <1>8 DEF RowsOK, BookingReturned, BookingRow, Ongoing
<1>9. CASE BookingAdopted /\ UNCHANGED <<payment, disputed>>
  BY <1>1, <1>2, <1>9 DEF RowsOK, BookingAdopted, BookingRow, Ongoing
<1>10. CASE BookingMade /\ disputed' \in BOOLEAN
  <2>1. 0 \in 0 .. MovesPerBooking
    BY InstantAssumption
  <2>2. booking' \in BookingRow
    BY <1>10, <2>1 DEF BookingMade, BookingRow, Ongoing
  <2> QED BY <1>1, <1>10, <2>2 DEF RowsOK, BookingMade, BookingRow
<1> QED BY <1>2, <1>3, <1>4, <1>5, <1>6, <1>7, <1>8, <1>9, <1>10 DEF BookingMove

\* A mover works at a time that is one, from a booking that is confirmed or waits.
LEMMA MoversStep == ASSUME BaseInv, Next PROVE mover' \in [Movers -> MoverState]
<1> USE DEF BaseInv, WorkersOK, RowsOK
<1>1. CASE UNCHANGED mover
  BY <1>1
<1>2. CASE \E m \in Movers, x \in MoverState : mover' = [mover EXCEPT ![m] = x]
  BY <1>2
<1>3. \A m \in Movers, t \in Times : AskToMove(m, t) \/ AskForNewTime(m, t)
        => \E x \in MoverState : mover' = [mover EXCEPT ![m] = x]
  BY DEF AskToMove, AskForNewTime, Asks, MoverState
<1>4. \A m \in Movers : MoverStep(m) => \E x \in MoverState : mover' = [mover EXCEPT ![m] = x]
  <2> TAKE m \in Movers
  <2>1. NoMover \in MoverState /\ mover[m] \in MoverState
    BY DEF MoverState
  <2>2. ASSUME ~MoverIdle(m), NEW step \in {"moving", "choosing", "due", "calling", "answered"}
        PROVE  [mover[m] EXCEPT !.step = step] \in MoverState
    BY <2>1, <2>2 DEF MoverState, MoverIdle
  <2>3. CASE MoveBooking(m)
    BY <2>1, <2>2, <2>3 DEF MoveBooking
  <2>4. CASE ScheduleWaiting(m) \/ ClearFlag(m)
    BY <2>1, <2>4 DEF ScheduleWaiting, ClearFlag
  <2>5. CASE ReadMove(m)
    <3>1. MoveIsDue => [step |-> "calling", time |-> booking.time, event |-> booking.event,
                        now |-> hour] \in MoverState
      BY DEF MoveIsDue, MoverState, BookingRow
    <3> QED BY <2>1, <2>5, <3>1 DEF ReadMove
  <2>6. CASE CallCalendar(m)
    BY <2>1, <2>2, <2>6 DEF CallCalendar
  <2> QED BY <2>3, <2>4, <2>5, <2>6 DEF MoverStep
<1>5. \A m \in Movers : CalendarDown(m) \/ MoverCrashes(m)
        => \E x \in MoverState : mover' = [mover EXCEPT ![m] = x]
  BY DEF CalendarDown, MoverCrashes, MoverState
<1> QED
  BY <1>1, <1>2, <1>3, <1>4, <1>5
     DEF Next, Sending, Moving, Withdrawing, Money, HearingOfThePayment, Watching, Meddling, Alerting,
         Sweeping, Living, Tick, Confirm, SweepDeletes, ReturnToWaiting

\* Only the watch's own steps change what it knows.
LEMMA WatchMoves == ASSUME Next PROVE Watching \/ UNCHANGED watch
BY DEF Next, Sending, Moving, Withdrawing, Money, HearingOfThePayment, Watching, Meddling, Alerting,
       Sweeping, Living, Tick, Noticing, watchVars

\* The watch reads a session that is confirmed, and judges what it read.
LEMMA WatchStateStep ==
    ASSUME BaseInv, Next
    PROVE  /\ watch' \in WatchState
           /\ watch'.step = "read" /\ watch'.found.kind = "restored" => watch'.found.as \in EventIds
<1> USE DEF BaseInv, WorkersOK, RowsOK
<1>1. CASE UNCHANGED watch
  BY <1>1
<1>2. CASE watch' = NotWatching
  BY <1>2 DEF WatchState, NotWatching
<1>3. CASE StartWatch
  <2>1. Watched \in WatchRead
    BY <1>3 DEF StartWatch, Watched, WatchRead, BookingRow
  <2> QED BY <1>3, <2>1 DEF StartWatch, WatchState
<1>4. CASE ReadCalendar
  <2>1. watch.step = "listed" /\ watch' = [step |-> "read", read |-> watch.read, found |-> Finding(watch.read)]
    BY <1>4 DEF ReadCalendar
  <2>2. watch.read \in WatchRead
    BY <2>1 DEF WatchState, NotWatching
  <2>3. Finding(watch.read) \in [kind : {"fine", "moved", "restored", "gone"}, as : EventIds \cup {None}]
        /\ (Finding(watch.read).kind = "restored" => Finding(watch.read).as \in EventIds)
    BY DEF Finding, RestoredAs
  <2> QED BY <2>1, <2>2, <2>3 DEF WatchState
<1> QED BY <1>1, <1>2, <1>3, <1>4, WatchMoves DEF Watching, WatchStep, Judge, Adopt, WatchGivesUp

\* No other part touches disputes, warnings and deliveries, or makes an order paid.
LEMMA OthersLeavePayments ==
    ASSUME BaseInv, Next
    PROVE  \/ HearingOfThePayment
           \/ UNCHANGED paymentVars /\ (payment' = "pending" <=> payment = "pending")
<1>1. CASE UNCHANGED <<paymentVars, payment>>
  BY <1>1
<1>2. CASE Money
  <2>1. UNCHANGED paymentVars
    BY <1>2 DEF Money
  <2>2. payment' = "pending" <=> payment = "pending"
    BY <1>2 DEF Money, RefundInPart, RefundInFull, DisputeLands
  <2> QED BY <2>1, <2>2
<1> QED BY <1>1, <1>2 DEF Next, Sending, Moving, Withdrawing, Watching, Meddling, Alerting, Sweeping,
              Living, Tick, worldVars

\* What a delivery's own steps are.
LEMMA ReadingDeliveries ==
    ASSUME BaseInv, NEW h \in Handlers, HandlerReads(h)
    PROVE  /\ UNCHANGED <<claim, sent, ledger, dispute, warning, refundDue>>
           /\ \/ /\ Answered(h)
                 /\ \E x \in Delivery :
                      /\ handler' = [handler EXCEPT ![h] = x] /\ x.step = "read"
                      /\ x.kind = "dispute" => /\ x.event \in sent \cap Statuses
                                              /\ x.status \in {claim, x.event}
                      /\ x.kind = "warning" => x.event \in sent \cap Warnings
                      /\ x.kind = "payment" => x.event = "paid" /\ payment = "pending"
              \/ ~Answered(h) /\ handler' = [handler EXCEPT ![h] = NoHandler]
              \/ /\ ~Answered(h) /\ handler[h].event \notin ledger
                 /\ \A k \in Handlers : ~Writing(k)
                 /\ handler' = [handler EXCEPT ![h] = [@ EXCEPT !.step = "writing", !.sees = Seen]]
<1> USE StatusNames DEF BaseInv, DeliveriesOK
<1>1. CASE \E e \in sent : ReadDispute(h, e)
  <2>1. PICK e \in sent : ReadDispute(h, e)
    BY <1>1
  <2>2. PICK s \in {claim, e} : handler' = [handler EXCEPT ![h] = Heard("dispute", e, s)]
    BY <2>1 DEF ReadDispute
  <2> DEFINE x == Heard("dispute", e, s)
  <2>3. e \in sent \cap Statuses /\ s \in Statuses /\ Answered(h)
    BY <2>1 DEF ReadDispute
  <2>4. x \in Delivery /\ x.kind = "dispute" /\ x.event = e /\ x.step = "read" /\ x.status = s
    BY <2>3 DEF Heard, Delivery
  <2> HIDE DEF x
  <2>5. handler' = [handler EXCEPT ![h] = x]
    BY <2>2 DEF x
  <2>6. UNCHANGED <<claim, sent, ledger, dispute, warning, refundDue>>
    BY <2>1 DEF ReadDispute
  <2> QED BY <2>2, <2>3, <2>4, <2>5, <2>6
<1>2. CASE \E e \in sent : HearWarning(h, e)
  <2>1. PICK e \in sent : HearWarning(h, e)
    BY <1>2
  <2> DEFINE x == Heard("warning", e, NoClaim)
  <2>2. /\ e \in sent \cap Warnings /\ Answered(h) /\ handler' = [handler EXCEPT ![h] = x]
        /\ UNCHANGED <<claim, sent, ledger, dispute, warning, refundDue>>
    BY <2>1 DEF HearWarning
  <2>3. x \in Delivery /\ x.kind = "warning" /\ x.event = e /\ x.step = "read"
    BY <2>2 DEF Heard, Delivery, NoClaim
  <2> HIDE DEF x
  <2> QED BY <2>2, <2>3
<1>3. CASE HearPayment(h)
  <2> DEFINE x == Heard("payment", "paid", NoClaim)
  <2>2. /\ payment = "pending" /\ Answered(h) /\ handler' = [handler EXCEPT ![h] = x]
        /\ UNCHANGED <<claim, sent, ledger, dispute, warning, refundDue>>
    BY <1>3 DEF HearPayment
  <2>3. x \in Delivery /\ x.kind = "payment" /\ x.event = "paid" /\ x.step = "read"
    BY DEF Heard, Delivery, NoClaim
  <2> HIDE DEF x
  <2> QED BY <2>2, <2>3
<1>4. CASE BeginTransaction(h)
  BY <1>4 DEF BeginTransaction, LockPayment, Seen
<1> QED BY <1>1, <1>2, <1>3, <1>4 DEF HandlerReads

\* A delivery that commits is entered in the ledger of events (webhook_events) and is over.
LEMMA WritingDeliveries ==
    ASSUME BaseInv, NEW h \in Handlers, HandlerWrites(h)
    PROVE  /\ Writing(h) /\ UNCHANGED <<claim, sent>>
           /\ handler' = [handler EXCEPT ![h] = NoHandler]
           /\ ledger' = ledger \cup {handler[h].event}
           /\ dispute' \in [status : Statuses, linked : BOOLEAN]
           /\ warning' \in [stored : BOOLEAN, linked : BOOLEAN]
<1>0. Writing(h)
  BY DEF HandlerWrites, RecordDispute, RecordWarning, Settle
<1>1. handler[h] \in Delivery
  BY <1>0 DEF Writing, Answered, BaseInv, DeliveriesOK
<1>2. dispute' \in [status : Statuses, linked : BOOLEAN]
  BY <1>1 DEF HandlerWrites, RecordDispute, RecordWarning, Settle, BaseInv, DeliveriesOK, Delivery
<1>3. warning' \in [stored : BOOLEAN, linked : BOOLEAN]
  <2>1. /\ warning \in [stored : BOOLEAN, linked : BOOLEAN]
        /\ handler[h].sees.order \in BOOLEAN /\ handler[h].sees.warning \in BOOLEAN
    BY <1>1 DEF BaseInv, DeliveriesOK, Delivery
  <2>2. CASE RecordWarning(h)
    <3>1. warning' = warning \/ warning' = [stored |-> TRUE, linked |-> handler[h].sees.order]
      BY <2>2 DEF RecordWarning
    <3>2. [stored |-> TRUE, linked |-> handler[h].sees.order] \in [stored : BOOLEAN, linked : BOOLEAN]
      BY <2>1
    <3> QED BY <2>1, <3>1, <3>2
  <2>3. CASE Settle(h)
    BY <2>1, <2>3 DEF Settle
  <2>4. CASE RecordDispute(h)
    BY <2>1, <2>4 DEF RecordDispute
  <2> QED BY <2>2, <2>3, <2>4 DEF HandlerWrites
<1> QED BY <1>0, <1>2, <1>3 DEF HandlerWrites, RecordDispute, RecordWarning, Settle, Commit

\* So deliveries keep their shape.
LEMMA DeliveriesStep == ASSUME BaseInv, Next PROVE DeliveriesOK'
<1> USE StatusNames
<1>1. CASE UNCHANGED paymentVars
  BY <1>1 DEF BaseInv, DeliveriesOK, paymentVars, Answered
<1>2. CASE StripeMovesOn \/ \E w \in Warnings : StripeWarns(w)
  <2>1. claim' \in Statuses /\ sent \subseteq sent' /\ UNCHANGED <<dispute, warning, handler>>
    BY <1>2 DEF StripeMovesOn, StripeWarns, BaseInv, DeliveriesOK, Later
  <2> QED BY <2>1 DEF BaseInv, DeliveriesOK, Answered
<1>3. CASE \E h \in Handlers : HandlerReads(h)
  <2>1. PICK h \in Handlers : HandlerReads(h)
    BY <1>3
  <2>2. UNCHANGED <<claim, sent, dispute, warning>>
    BY <2>1, ReadingDeliveries
  <2>3. PICK x \in {NoHandler} \cup Delivery :
           /\ handler' = [handler EXCEPT ![h] = x]
           /\ x # NoHandler =>
                 /\ x.kind = "dispute" => x.event \in sent \cap Statuses
                 /\ x.kind = "warning" => x.event \in sent \cap Warnings
                 /\ x.kind = "payment" => x.event = "paid"
    <3> DEFINE y == [handler[h] EXCEPT !.step = "writing", !.sees = Seen]
    <3>1. ASSUME ~Answered(h)
          PROVE  y \in Delivery /\ y.kind = handler[h].kind /\ y.event = handler[h].event
      <4>1. Seen \in [order : BOOLEAN, dispute : BOOLEAN, warning : BOOLEAN]
        <5>1. (payment # "pending") \in BOOLEAN /\ (dispute.status # NoClaim) \in BOOLEAN
          OBVIOUS
        <5>2. warning.stored \in BOOLEAN
          BY DEF BaseInv, DeliveriesOK
        <5> QED BY <5>1, <5>2 DEF Seen
      <4>2. handler[h] \in Delivery
        BY <3>1 DEF Answered, BaseInv, DeliveriesOK
      <4> HIDE DEF Seen
      <4> QED BY <4>1, <4>2 DEF Delivery
    <3> HIDE DEF y
    <3>2. CASE /\ ~Answered(h) /\ handler' = [handler EXCEPT ![h] = y]
      BY <3>1, <3>2 DEF BaseInv, DeliveriesOK
    <3>3. CASE handler' = [handler EXCEPT ![h] = NoHandler]
      BY <3>3
    <3>4. CASE \E z \in Delivery :
                  /\ handler' = [handler EXCEPT ![h] = z]
                  /\ z.kind = "dispute" => z.event \in sent \cap Statuses
                  /\ z.kind = "warning" => z.event \in sent \cap Warnings
                  /\ z.kind = "payment" => z.event = "paid"
      BY <3>4
    <3> QED BY <2>1, <3>2, <3>3, <3>4, ReadingDeliveries DEF y
  <2> QED BY <2>2, <2>3 DEF BaseInv, DeliveriesOK, Answered
<1>4. CASE \E h \in Handlers : HandlerWrites(h)
  BY <1>4, WritingDeliveries DEF BaseInv, DeliveriesOK, Answered
<1>5. CASE \E h \in Handlers : RollBack(h)
  BY <1>5 DEF RollBack, BaseInv, DeliveriesOK, Answered
<1> QED BY <1>1, <1>2, <1>3, <1>4, <1>5, OthersLeavePayments DEF HearingOfThePayment, SweepAppliesDispute

\* The order's lock is taken before anything is read that the write depends on: what a
\* transaction sees is still there when it writes (disputes.ts, fraud-warnings.ts).
LEMMA OneWriterStep == ASSUME BaseInv, Next PROVE OneWriter'
<1>1. CASE UNCHANGED paymentVars /\ (payment' = "pending" <=> payment = "pending")
  BY <1>1 DEF BaseInv, OneWriter, paymentVars, Answered, Writing, Seen
<1>2. CASE UNCHANGED <<ledger, dispute, warning, handler, payment>>
  BY <1>2 DEF BaseInv, OneWriter, Answered, Writing, Seen
<1>3. CASE \E h \in Handlers : HandlerReads(h) /\ UNCHANGED payment
  <2>1. PICK h \in Handlers : HandlerReads(h) /\ UNCHANGED payment
    BY <1>3
  <2>2. UNCHANGED <<ledger, dispute, warning>> /\ Seen' = Seen
    BY <2>1, ReadingDeliveries DEF Seen
  <2>3. CASE handler' = [handler EXCEPT ![h] = NoHandler]
    BY <2>1, <2>2, <2>3 DEF BaseInv, OneWriter, DeliveriesOK, Answered, Writing
  <2>4. CASE /\ ~Answered(h) /\ handler[h].event \notin ledger
             /\ \A k \in Handlers : ~Writing(k)
             /\ handler' = [handler EXCEPT ![h] = [@ EXCEPT !.step = "writing", !.sees = Seen]]
    <3> DEFINE y == [handler[h] EXCEPT !.step = "writing", !.sees = Seen]
    <3>1. handler[h] \in Delivery
      BY <2>4 DEF Answered, BaseInv, DeliveriesOK
    <3>2. /\ y.kind = handler[h].kind /\ y.event = handler[h].event /\ y.step = "writing"
          /\ y.sees = Seen
      <4> HIDE DEF Seen
      <4> QED BY <3>1 DEF Delivery
    <3>3. handler' = [handler EXCEPT ![h] = y]
      BY <2>4
    <3> HIDE DEF y
    <3>4. \A k \in Handlers : (k # h => handler'[k] = handler[k]) /\ (k = h => handler'[k] = y)
      BY <3>3 DEF BaseInv, DeliveriesOK
    <3>5. \A k \in Handlers : Writing(k)' => k = h
      BY <2>4, <3>4 DEF Writing, Answered
    <3>6. \A k \in Handlers : Writing(k)' => handler'[k].event \notin ledger' /\ handler'[k].sees = Seen'
      BY <2>2, <2>4, <3>2, <3>4, <3>5
    <3>7. \A k \in Handlers : ~Answered(k)' =>
             (handler'[k].kind = "payment" /\ "paid" \notin ledger' => payment' = "pending")
      BY <2>1, <2>2, <2>4, <3>2, <3>4 DEF Answered, BaseInv, OneWriter
    <3> QED BY <3>5, <3>6, <3>7 DEF OneWriter
  <2>5. CASE /\ Answered(h)
             /\ \E x \in Delivery :
                  /\ handler' = [handler EXCEPT ![h] = x] /\ x.step = "read"
                  /\ x.kind = "payment" => payment = "pending"
    <3>1. PICK x \in Delivery :
                  /\ handler' = [handler EXCEPT ![h] = x] /\ x.step = "read"
                  /\ x.kind = "payment" => payment = "pending"
      BY <2>5
    <3>2. \A k \in Handlers : (k # h => handler'[k] = handler[k]) /\ (k = h => handler'[k] = x)
      BY <3>1 DEF BaseInv, DeliveriesOK
    <3>3. \A k \in Handlers : Writing(k)' => Writing(k) /\ k # h
      BY <3>1, <3>2 DEF Writing, Answered
    <3> QED BY <2>1, <2>2, <3>1, <3>2, <3>3 DEF OneWriter, BaseInv, Answered, Writing
  <2> QED BY <2>1, <2>3, <2>4, <2>5, ReadingDeliveries
<1>4. CASE \E h \in Handlers : HandlerWrites(h)
  <2>1. PICK h \in Handlers : HandlerWrites(h)
    BY <1>4
  <2>2. /\ Writing(h) /\ handler' = [handler EXCEPT ![h] = NoHandler]
        /\ ledger' = ledger \cup {handler[h].event}
    BY <2>1, WritingDeliveries
  <2>3. \A k \in Handlers : ~Writing(k)' /\ (~Answered(k)' => ~Answered(k) /\ handler'[k] = handler[k])
    BY <2>2 DEF BaseInv, OneWriter, DeliveriesOK, Answered, Writing
  <2>4. payment' = payment \/ "paid" \in ledger'
    BY <2>1, <2>2 DEF HandlerWrites, RecordDispute, RecordWarning, Settle, Writing, BaseInv, DeliveriesOK
  <2> QED BY <2>2, <2>3, <2>4 DEF BaseInv, OneWriter
<1>5. CASE \E h \in Handlers : RollBack(h) /\ UNCHANGED payment
  BY <1>5 DEF RollBack, BaseInv, OneWriter, DeliveriesOK, Answered, Writing, Seen
<1> QED
  BY <1>1, <1>2, <1>3, <1>4, <1>5, OthersLeavePayments
     DEF HearingOfThePayment, SweepAppliesDispute, StripeMovesOn, StripeWarns, paymentVars

\* Every step keeps the base.
LEMMA BaseStep == BaseInv /\ [Next]_vars => BaseInv'
<1>1. ASSUME BaseInv, Next PROVE BaseInv'
  BY <1>1, RowsStep, MoversStep, WatchStateStep, DeliveriesStep, OneWriterStep DEF BaseInv, WorkersOK
<1>2. ASSUME BaseInv, UNCHANGED vars PROVE BaseInv'
  <2>1. RowsOK' /\ WorkersOK'
    BY <1>2 DEF BaseInv, RowsOK, WorkersOK, vars, careVars, watchVars
  <2>2. DeliveriesOK' /\ OneWriter'
    BY <1>2 DEF BaseInv, DeliveriesOK, OneWriter, vars, careVars, paymentVars, Answered, Writing, Seen
  <2> QED BY <2>1, <2>2 DEF BaseInv
<1> QED BY <1>1, <1>2

\* Rows, workers, deliveries and locks are always as said: payment and booking appear
\* together, a confirmed session has its time and its event, and one transaction at a time
\* writes, on what it sees.
THEOREM BaseAlways == Spec => []BaseInv
<1> QED BY InitBase, BaseStep, PTL DEF Spec

(***************************************************************************)
(* News of the payment reaches the order.                                  *)
(***************************************************************************)

\* What the order must know, and that an order that knows is frozen.
NewsInv == NewsReachesTheOrder /\ (dispute.linked \/ warning.linked => disputed)

\* A behaviour stays in its world.
LEMMA WorldStays == ASSUME Next PROVE world' = world
BY DEF Next, Sending, Moving, Withdrawing, Money, HearingOfThePayment, Watching, Meddling, Alerting,
       Sweeping, Living, Tick, worldVars

\* A dispute on record goes on stopping what it stopped: only a time the calendar
\* refuses makes a booking one it stops.
LEMMA DisputeStandsStill ==
    ASSUME BaseInv, Next, NewsInv, dispute' = dispute, ~BookingMade
    PROVE  payment' # "pending" =>
             (Stops(dispute)' => Here("calendar_refuses")' /\ booking'.status = "awaiting_schedule")
<1>1. world' = world /\ hour \in Nat /\ hour' \in Nat /\ hour' >= hour
  <2>1. hour' = hour \/ hour' = hour + 1
    BY HourMoves DEF Tick
  <2> QED BY <2>1, WorldStays DEF BaseInv, RowsOK
<1>2. BookingMove /\ booking \in BookingRow /\ dispute \in [status : Statuses, linked : BOOLEAN]
  BY BookingMoves DEF BaseInv, RowsOK, DeliveriesOK
<1>3. SUFFICES ASSUME payment' # "pending", Stops(dispute)'
               PROVE  Here("calendar_refuses")' /\ booking'.status = "awaiting_schedule"
  OBVIOUS
<1>4. dispute.linked /\ disputed
  BY <1>2, <1>3 DEF Stops, MoneyGone, StolenCard, NewsInv
<1>5. CASE BookingReturned
  BY <1>1, <1>2, <1>5 DEF BookingReturned, Here, BookingRow
<1>6. CASE ~BookingReturned
  <2>1. /\ booking'.status \in Ongoing
        /\ \/ booking'.status = booking.status
           \/ booking.status = "scheduled" /\ booking'.status = "confirmed"
        /\ booking.time = booking'.time /\ booking'.time \in Times \cup {None}
    <3>1. booking'.status \in Ongoing
      BY <1>3 DEF Stops, Open
    <3>2. booking'.status = booking.status \/ (booking.status = "scheduled" /\ booking'.status = "confirmed")
      BY <1>2, <1>4, <1>6, <3>1 DEF BookingMove, BookingCancelled, BookingMoved, BookingFlagCleared,
         BookingScheduled, BookingConfirmed, BookingAdopted, BookingRow, Ongoing
    <3>3. booking'.time = booking.time
      BY <1>2, <1>4, <1>6, <3>1 DEF BookingMove, BookingCancelled, BookingMoved, BookingFlagCleared,
         BookingScheduled, BookingConfirmed, BookingAdopted, BookingRow, Ongoing
    <3>4. booking.time \in Times \cup {None}
      BY <1>2 DEF BookingRow
    <3> QED BY <3>1, <3>2, <3>3, <3>4
  <2>2. Times \subseteq Nat /\ FraudLead \in Nat /\ None \notin Times
    BY InstantAssumption, EventAssumption
  <2>3. Stops(dispute)
    <3>0. booking.time = None \/ booking.time \in Nat
      BY <2>1, <2>2
    <3>1. StartsAfter(hour)' => StartsAfter(hour)
      BY <1>1, <2>1, <3>0 DEF StartsAfter
    <3>2. StartsAfter(hour + FraudLead)' => StartsAfter(hour + FraudLead)
      BY <1>1, <2>1, <2>2, <3>0 DEF StartsAfter
    <3>3. Open
      BY <2>1 DEF Open, Ongoing
    <3>4. (MoneyGone(dispute)' => MoneyGone(dispute)) /\ (StolenCard(dispute)' => StolenCard(dispute))
      BY <1>1 DEF MoneyGone, StolenCard, Here
    <3> QED BY <1>3, <3>1, <3>2, <3>3, <3>4 DEF Stops
  <2>4. payment # "pending"
    BY <1>2, <1>3, <2>1 DEF BaseInv, RowsOK, Ongoing
  <2> QED BY <1>1, <2>1, <2>3, <2>4 DEF NewsInv, NewsReachesTheOrder, Here
<1> QED BY <1>5, <1>6

\* What a transaction sees, field by field.
LEMMA SeenFields ==
    /\ Seen.order = (payment # "pending") /\ Seen.dispute = (dispute.status # NoClaim)
    /\ Seen.warning = warning.stored
BY Zenon DEF Seen

\* Whichever of the payment, the dispute and the warning is recorded last links the others
\* to the order and stops what they stop, in the same transaction.
LEMMA NewsStep == ASSUME BaseInv, NewsInv, Next PROVE NewsInv'
<1> USE DEF NewsInv, NewsReachesTheOrder
<1>1. CASE UNCHANGED paymentVars /\ (payment' = "pending" <=> payment = "pending")
  <2>1. dispute' = dispute /\ warning' = warning
    BY <1>1 DEF paymentVars
  <2>2. ~BookingMade
    BY <1>1 DEF BookingMade
  <2>3. disputed' = disputed \/ disputed'
    BY <2>2, BookingMoves DEF BookingMove
  <2> QED BY <1>1, <2>1, <2>2, <2>3, DisputeStandsStill
<1>2. CASE UNCHANGED <<dispute, warning, payment, disputed>>
  <2>1. ~BookingMade
    BY <1>2 DEF BookingMade
  <2> QED BY <1>2, <2>1, DisputeStandsStill
<1>3. CASE \E h \in Handlers : RecordWarning(h)
  <2>1. PICK h \in Handlers : RecordWarning(h)
    BY <1>3
  <2>2. handler[h].sees = Seen /\ dispute' = dispute /\ payment' = payment
    BY <2>1 DEF RecordWarning, BaseInv, OneWriter
  <2>3. warning' = warning \/ (~warning.stored /\ warning' = [stored |-> TRUE, linked |-> handler[h].sees.order])
    BY <2>1 DEF RecordWarning
  <2>4. disputed' = (disputed \/ warning'.linked)
    BY <2>1 DEF RecordWarning
  <2>0. handler[h].sees.order <=> (payment # "pending")
    BY <2>2, SeenFields
  <2>5. payment' # "pending" /\ warning'.stored => warning'.linked
    <3>1. CASE warning' = warning
      BY <2>2, <3>1
    <3>2. CASE warning' = [stored |-> TRUE, linked |-> handler[h].sees.order]
      BY <2>0, <2>2, <3>2
    <3> QED BY <2>3, <3>1, <3>2
  <2>6. ~BookingMade
    BY <2>2 DEF BookingMade
  <2> QED BY <2>2, <2>3, <2>4, <2>5, <2>6, DisputeStandsStill
<1>4. CASE UNCHANGED hour /\ \E h \in Handlers : RecordDispute(h)
  <2>1. PICK h \in Handlers : RecordDispute(h)
    BY <1>4
  <2>2. handler[h].sees = Seen /\ warning' = warning /\ payment' = payment /\ handler[h] \in Delivery
    BY <2>1 DEF RecordDispute, BaseInv, OneWriter, DeliveriesOK, Writing, Answered
  <2>3. \/ dispute' = dispute /\ dispute.status # NoClaim
        \/ dispute' = [status |-> handler[h].status, linked |-> dispute.linked \/ handler[h].sees.order]
    BY <2>1, <2>2 DEF RecordDispute, MayReplace
  <2>0. handler[h].sees.order <=> (payment # "pending")
    BY <2>2, SeenFields
  <2>4. disputed' = (disputed \/ dispute'.linked)
    BY <2>1 DEF RecordDispute
  <2>5. payment' # "pending" => dispute'.linked
    <3>1. CASE dispute' = dispute /\ dispute.status # NoClaim
      BY <2>2, <3>1
    <3>2. CASE dispute' = [status |-> handler[h].status, linked |-> dispute.linked \/ handler[h].sees.order]
      BY <2>0, <2>2, <3>2
    <3> QED BY <2>3, <3>1, <3>2
  <2>6. ~Stops(dispute)'
    <3>1. ApplyDisputeEffects(dispute')
      BY <2>1 DEF RecordDispute
    <3>2. hour' = hour /\ world' = world
      BY <1>4, WorldStays
    <3>3. CASE Stops(dispute')
      <4>1. booking'.status = "cancelled"
        BY <3>1, <3>3 DEF ApplyDisputeEffects, CancelOpenBooking, BaseInv, RowsOK, BookingRow
      <4> QED BY <4>1 DEF Stops, Open, Ongoing
    <3>4. CASE ~Stops(dispute')
      <4>1. booking' = booking
        BY <3>1, <3>4 DEF ApplyDisputeEffects
      <4> QED BY <3>2, <3>4, <4>1 DEF Stops, Open, MoneyGone, StolenCard, StartsAfter, Here
    <3> QED BY <3>3, <3>4
  <2> QED BY <2>2, <2>3, <2>4, <2>5, <2>6
<1>5. CASE UNCHANGED hour /\ \E h \in Handlers : Settle(h)
  <2>1. PICK h \in Handlers : Settle(h)
    BY <1>5
  <2>2. handler[h].sees = Seen
    BY <2>1 DEF Settle, BaseInv, OneWriter
  <2>3. (handler[h].sees.dispute <=> (dispute.status # NoClaim)) /\ handler[h].sees.warning = warning.stored
    BY <2>2, SeenFields
  <2>4. dispute' = [dispute EXCEPT !.linked = @ \/ handler[h].sees.dispute]
    BY <2>1 DEF Settle
  <2>5. dispute'.status # NoClaim => dispute'.linked
    BY <2>3, <2>4 DEF BaseInv, DeliveriesOK
  <2>6. warning' = [warning EXCEPT !.linked = @ \/ handler[h].sees.warning]
    BY <2>1 DEF Settle
  <2>7. warning'.stored => warning'.linked
    BY <2>3, <2>6 DEF BaseInv, DeliveriesOK
  <2>8. disputed' = (dispute'.linked \/ warning'.linked)
    BY <2>1 DEF Settle
  <2>9. ~Stops(dispute)'
    <3>1. hour' = hour /\ world' = world
      BY <1>5, WorldStays
    <3>2. PICK kept \in BOOLEAN :
             LET made == IF kept /\ FirstTime > hour
                         THEN [WaitingBooking EXCEPT !.status = "scheduled", !.time = FirstTime]
                         ELSE WaitingBooking
             IN  booking' = IF dispute'.linked THEN EffectsAtSettlement(dispute', made) ELSE made
      BY <2>1, Zenon DEF Settle
    <3>3. CASE booking'.status = "cancelled"
      BY <3>3 DEF Stops, Open, Ongoing
    <3>4. CASE ~dispute'.linked
      BY <3>4 DEF Stops, MoneyGone, StolenCard
    <3>5. CASE dispute'.linked /\ booking'.status # "cancelled"
      <4> DEFINE made == IF kept /\ FirstTime > hour
                         THEN [WaitingBooking EXCEPT !.status = "scheduled", !.time = FirstTime]
                         ELSE WaitingBooking
      <4>0. [made EXCEPT !.status = "cancelled"].status = "cancelled"
        BY DEF WaitingBooking
      <4>1. booking' = EffectsAtSettlement(dispute', made)
        BY <3>2, <3>5
      <4> HIDE DEF made
      <4>2. booking' = made /\ ~MoneyGone(dispute') /\ ~(StolenCard(dispute') /\ (made.time = None \/ made.time > hour + FraudLead))
        BY <4>0, <4>1, <3>5 DEF EffectsAtSettlement
      <4> QED BY <3>1, <4>2 DEF Stops, MoneyGone, StolenCard, StartsAfter, Here
    <3> QED BY <3>3, <3>4, <3>5
  <2> QED BY <2>5, <2>7, <2>8, <2>9
<1>6. CASE HearingOfThePayment
  BY <1>2, <1>3, <1>4, <1>5, <1>6, OthersLeavePayments
     DEF HearingOfThePayment, HandlerReads, HandlerWrites, ReadDispute, HearWarning, HearPayment,
         BeginTransaction, StripeMovesOn, StripeWarns, RollBack, SweepAppliesDispute, paymentVars
<1> QED BY <1>1, <1>6, OthersLeavePayments

\* At the start there is no news.
LEMMA InitNews == Init => NewsInv
BY DEF Init, CareInit, PaymentInit, NewsInv, NewsReachesTheOrder, Stops, MoneyGone, StolenCard, NoClaim

\* So the order knows of its news in every reachable state.
LEMMA NewsAlways == Spec => []NewsInv
<1>1. NewsInv /\ UNCHANGED vars => NewsInv'
  BY DEF NewsInv, NewsReachesTheOrder, Stops, MoneyGone, StolenCard, Open, StartsAfter, Here, vars,
         careVars, paymentVars
<1>2. BaseInv /\ NewsInv /\ [Next]_vars => NewsInv'
  BY <1>1, NewsStep
<1> QED BY InitNews, <1>2, BaseAlways, PTL DEF Spec

\* A dispute or a warning on record when the payment is, is on record of its order, and no
\* session it stops goes ahead, in whatever order the three were recorded (disputes.ts:223,
\* payment-lock.ts:16).
THEOREM NewsAlwaysReachesTheOrder == Spec => []NewsReachesTheOrder
BY NewsAlways, PTL DEF NewsInv

(***************************************************************************)
(* The order the news comes in.                                            *)
(***************************************************************************)

\* After[s]: what Stripe may say from the moment it says s.
After ==
    [none                   |-> Statuses,
     warning_needs_response |-> Statuses \ {"none"},
     warning_under_review   |-> {"warning_under_review", "warning_closed", "needs_response",
                                 "under_review", "lost", "won"},
     needs_response         |-> {"needs_response", "under_review", "lost", "won"},
     under_review           |-> {"under_review", "lost", "won"},
     warning_closed         |-> {"warning_closed"},
     won                    |-> {"won"},
     lost                   |-> {"lost", "won"},
     prevented              |-> {"prevented"}]

\* Stripe may say again what it said.
LEMMA AfterItself == \A s \in Statuses : s \in After[s]
BY StatusNames DEF After

\* A dispute goes on from where it is, and not in circles.
LEMMA AfterGoesOn ==
    \A s \in Statuses : \A c \in After[s] : \A n \in Later[c] : n \in After[s] /\ n # s
BY StatusNames DEF After, Later

\* Of two different statuses one comes first.
LEMMA AfterOneWay == \A s, t \in Statuses : t \in After[s] /\ s \in After[t] => s = t
BY StatusNames DEF After

\* disputes.ts' ranking lets later news replace earlier.
LEMMA NewsReplaces == \A s \in Statuses : \A t \in After[s] : MayReplace(s, t)
BY StatusNames DEF After, MayReplace, Rank, NoClaim

\* A dispute does not become none.
LEMMA NewsIsSomething == \A e \in Statuses \ {NoClaim} : NoClaim \notin After[e]
BY StatusNames DEF After, NoClaim

\* And earlier news never replaces later.
LEMMA OldNewsDoesNot == \A s \in Statuses \ {NoClaim} : \A t \in After[s] : MayReplace(t, s) => s = t
<1> SUFFICES ASSUME NEW s \in Statuses \ {NoClaim}, NEW t \in After[s], MayReplace(t, s) PROVE s = t
  OBVIOUS
<1>1. CASE s = "none"
  BY <1>1, SMTT(60) DEF After, MayReplace, Rank, NoClaim, Statuses, Later
<1>2. CASE s = "warning_needs_response"
  BY <1>2, SMTT(60) DEF After, MayReplace, Rank, NoClaim, Statuses, Later
<1>3. CASE s = "warning_under_review"
  BY <1>3, SMTT(60) DEF After, MayReplace, Rank, NoClaim, Statuses, Later
<1>4. CASE s = "needs_response"
  BY <1>4, SMTT(60) DEF After, MayReplace, Rank, NoClaim, Statuses, Later
<1>5. CASE s = "under_review"
  BY <1>5, SMTT(60) DEF After, MayReplace, Rank, NoClaim, Statuses, Later
<1>6. CASE s = "warning_closed"
  BY <1>6, SMTT(60) DEF After, MayReplace, Rank, NoClaim, Statuses, Later
<1>7. CASE s = "won"
  BY <1>7, SMTT(60) DEF After, MayReplace, Rank, NoClaim, Statuses, Later
<1>8. CASE s = "lost"
  BY <1>8, SMTT(60) DEF After, MayReplace, Rank, NoClaim, Statuses, Later
<1>9. CASE s = "prevented"
  BY <1>9, SMTT(60) DEF After, MayReplace, Rank, NoClaim, Statuses, Later
<1> QED BY <1>1, <1>2, <1>3, <1>4, <1>5, <1>6, <1>7, <1>8, <1>9, StatusNames

\* What is stored, what is being delivered and what was sent are all behind what Stripe says
\* now, and what was delivered last is stored.
OrderInv ==
    /\ claim # NoClaim => claim \in sent
    /\ sent \subseteq (Statuses \ {NoClaim}) \cup Warnings
    /\ \A e \in sent \cap Statuses : claim \in After[e]
    /\ claim \in After[dispute.status]
    /\ \A h \in Handlers : ~Answered(h) /\ handler[h].kind = "dispute" =>
          claim \in After[handler[h].status] /\ handler[h].status \in After[handler[h].event]
    /\ ledger \subseteq sent \cup {"paid"}
    /\ claim \in ledger => dispute.status = claim

\* At the start there is no dispute.
LEMMA InitOrder == Init => OrderInv
BY StatusNames DEF Init, PaymentInit, OrderInv, After, NoClaim, Answered, NoHandler

\* A status is stored only when it may replace the one on record: a late delivery of an old
\* status changes nothing (disputes.ts:45).
LEMMA OrderStep == ASSUME BaseInv, OrderInv, Next PROVE OrderInv'
<1>1. CASE UNCHANGED paymentVars
  BY <1>1 DEF OrderInv, paymentVars, Answered
<1>2. CASE StripeMovesOn
  <2>1. PICK s \in Later[claim] : claim' = s /\ sent' = sent \cup {s}
    BY <1>2 DEF StripeMovesOn
  <2>2. s \in Statuses /\ s # NoClaim /\ claim \in Statuses /\ dispute.status \in Statuses
    BY <2>1, StatusNames DEF Later, NoClaim, BaseInv, DeliveriesOK
  <2>3. UNCHANGED <<ledger, dispute, warning, handler>>
    BY <1>2 DEF StripeMovesOn
  <2>4. \A e \in sent \cap Statuses : s \in After[e] /\ s # e
    BY <2>1, AfterGoesOn DEF OrderInv
  <2>5. s \in After[dispute.status] /\ s \in After[s]
    BY <2>1, <2>2, AfterGoesOn, AfterItself DEF OrderInv
  <2>6. \A h \in Handlers : ~Answered(h) /\ handler[h].kind = "dispute" => s \in After[handler[h].status]
    BY <2>1, AfterGoesOn DEF OrderInv, BaseInv, DeliveriesOK, Delivery, Answered
  <2>7. s \notin ledger
    BY <2>2, <2>4, StatusNames DEF OrderInv
  <2> QED BY <2>1, <2>2, <2>3, <2>4, <2>5, <2>6, <2>7 DEF OrderInv, Answered
<1>3. CASE \E w \in Warnings : StripeWarns(w)
  <2>1. PICK w \in Warnings : StripeWarns(w)
    BY <1>3
  <2> QED BY <2>1, EventAssumption DEF OrderInv, StripeWarns, Answered
<1>4. CASE \E h \in Handlers : HandlerReads(h)
  <2>1. PICK h \in Handlers : HandlerReads(h)
    BY <1>4
  <2>2. UNCHANGED <<claim, sent, ledger, dispute, warning>>
    BY <2>1, ReadingDeliveries
  <2>3. \A k \in Handlers : k # h => handler'[k] = handler[k]
    BY <2>1, ReadingDeliveries DEF BaseInv, DeliveriesOK
  <2>4. ~Answered(h)' /\ handler'[h].kind = "dispute" =>
           claim \in After[handler'[h].status] /\ handler'[h].status \in After[handler'[h].event]
    <3>1. CASE handler' = [handler EXCEPT ![h] = NoHandler]
      BY <3>1 DEF Answered, BaseInv, DeliveriesOK
    <3>2. CASE ~Answered(h) /\ handler' = [handler EXCEPT ![h] = [@ EXCEPT !.step = "writing", !.sees = Seen]]
      <4> DEFINE y == [handler[h] EXCEPT !.step = "writing", !.sees = Seen]
      <4>1. y.kind = handler[h].kind /\ y.status = handler[h].status /\ y.event = handler[h].event
        <5> HIDE DEF Seen
        <5> QED BY <3>2 DEF Answered, BaseInv, DeliveriesOK, Delivery
      <4>2. handler'[h] = y
        BY <3>2 DEF BaseInv, DeliveriesOK
      <4> HIDE DEF y
      <4> QED BY <3>2, <4>1, <4>2 DEF OrderInv
    <3>3. CASE \E x \in Delivery :
                  /\ handler' = [handler EXCEPT ![h] = x]
                  /\ x.kind = "dispute" => x.event \in sent \cap Statuses /\ x.status \in {claim, x.event}
      <4>1. PICK x \in Delivery :
                  /\ handler' = [handler EXCEPT ![h] = x]
                  /\ x.kind = "dispute" => x.event \in sent \cap Statuses /\ x.status \in {claim, x.event}
        BY <3>3
      <4>2. handler'[h] = x
        BY <4>1 DEF BaseInv, DeliveriesOK
      <4> QED BY <4>1, <4>2, AfterItself DEF OrderInv, BaseInv, DeliveriesOK
    <3> QED BY <2>1, <3>1, <3>2, <3>3, ReadingDeliveries
  <2> QED BY <2>2, <2>3, <2>4 DEF OrderInv, Answered
<1>5. CASE \E h \in Handlers : HandlerWrites(h)
  <2>1. PICK h \in Handlers : HandlerWrites(h)
    BY <1>5
  <2>2. /\ Writing(h) /\ UNCHANGED <<claim, sent>>
        /\ handler' = [handler EXCEPT ![h] = NoHandler]
        /\ ledger' = ledger \cup {handler[h].event}
    BY <2>1, WritingDeliveries
  <2>3. handler[h] \in Delivery /\ handler[h].event \in sent \cup {"paid"} /\ handler[h].event \notin ledger
    BY <2>2 DEF Writing, Answered, BaseInv, DeliveriesOK, OneWriter, Delivery
  <2>4. \A k \in Handlers : ~Answered(k)' => ~Answered(k) /\ handler'[k] = handler[k]
    BY <2>2 DEF Answered, BaseInv, DeliveriesOK
  <2>5. claim \in After[dispute'.status] /\ (claim \in ledger' => dispute'.status = claim)
    <3>1. CASE handler[h].kind # "dispute"
      <4>1. dispute'.status = dispute.status
        BY <2>1, <3>1 DEF HandlerWrites, RecordDispute, RecordWarning, Settle, BaseInv, DeliveriesOK
      <4>2. handler[h].event # claim
        BY <2>2, <2>3, <3>1, EventAssumption, StatusNames
           DEF Writing, BaseInv, DeliveriesOK, Delivery
      <4> QED BY <2>2, <4>1, <4>2 DEF OrderInv
    <3>2. CASE handler[h].kind = "dispute"
      <4> DEFINE s == handler[h].status
      <4>1. s \in Statuses /\ claim \in After[s] /\ s \in After[handler[h].event]
            /\ handler[h].event \in sent \cap Statuses /\ claim \in Statuses /\ dispute.status \in Statuses
        BY <2>2, <2>3, <3>2 DEF OrderInv, Writing, BaseInv, DeliveriesOK, Delivery
      <4>2. dispute'.status = IF MayReplace(dispute.status, s) THEN s ELSE dispute.status
        BY <2>1, <3>2 DEF HandlerWrites, RecordDispute, RecordWarning, Settle
      <4>3. CASE handler[h].event = claim
        <5>1. s = claim
          BY <4>1, <4>3, AfterOneWay
        <5>2. MayReplace(dispute.status, s)
          BY <4>1, <5>1, NewsReplaces DEF OrderInv
        <5> QED BY <4>1, <4>2, <5>1, <5>2
      <4>4. CASE handler[h].event # claim
        <5>1. claim \in ledger' => dispute.status = claim
          BY <2>2, <4>4 DEF OrderInv
        <5>2. CASE claim \in ledger'
          <6>1. s # NoClaim
            BY <4>1, NewsIsSomething, EventAssumption, StatusNames DEF OrderInv, NoClaim
          <6> QED BY <4>1, <4>2, <5>1, <5>2, <6>1, OldNewsDoesNot DEF OrderInv
        <5> QED BY <4>1, <4>2, <5>2 DEF OrderInv
      <4> QED BY <4>3, <4>4
    <3> QED BY <3>1, <3>2
  <2> QED BY <2>2, <2>3, <2>4, <2>5 DEF OrderInv
<1>6. CASE \E h \in Handlers : RollBack(h)
  BY <1>6 DEF RollBack, OrderInv, Answered, BaseInv, DeliveriesOK
<1> QED BY <1>1, <1>2, <1>3, <1>4, <1>5, <1>6, OthersLeavePayments DEF HearingOfThePayment, SweepAppliesDispute

\* So what is stored never gets ahead of Stripe, nor falls behind what was delivered.
LEMMA OrderAlways == Spec => []OrderInv
<1>1. OrderInv /\ UNCHANGED vars => OrderInv'
  BY DEF OrderInv, vars, paymentVars, Answered
<1>2. BaseInv /\ OrderInv /\ [Next]_vars => OrderInv'
  BY <1>1, OrderStep
<1> QED BY InitOrder, <1>2, BaseAlways, PTL DEF Spec

\* Once every event Stripe sent was delivered, the database says what Stripe says, in
\* whatever order the deliveries came and however often (disputes.ts:45).
THEOREM DisputeAlwaysKeepsUp == Spec => []DisputeKeepsUp
<1>1. BaseInv /\ OrderInv => DisputeKeepsUp
  <2> SUFFICES ASSUME BaseInv, OrderInv, sent \subseteq ledger PROVE dispute.status = claim
    BY DEF DisputeKeepsUp
  <2>1. CASE claim = NoClaim
    BY <2>1, AfterOneWay, StatusNames DEF OrderInv, After, NoClaim, BaseInv, DeliveriesOK
  <2> QED BY <2>1 DEF OrderInv
<1> QED BY <1>1, BaseAlways, OrderAlways, PTL

(***************************************************************************)
(* The watch on the calendar.                                              *)
(***************************************************************************)

\* What the watch read still holds, or the booking has changed in a way the watch can tell:
\* called off, or moved.
WatchInv ==
    /\ TRUE \notin alarms /\ changed \in BOOLEAN
    /\ booking.moveDue => booking.moves > 0
    /\ watch.step # "idle" =>
          /\ booking.status \in {"confirmed", "cancelled"}
          /\ booking.status = "confirmed" => booking.event = watch.read.event
          /\ ~changed => watch.read = Watched
          /\ changed /\ booking.status = "confirmed" =>
                /\ booking.moves > 0
                /\ \/ booking.time # watch.read.time
                   \/ watch.read.moveDue /\ ~booking.moveDue

\* At the start the watch is not at work.
LEMMA InitWatch == Init => WatchInv
<1> SUFFICES ASSUME Init PROVE WatchInv
  OBVIOUS
<1>1. ~booking.moveDue
  BY DEF Init, CareInit, Unsettled, Waiting, Confirmed, WaitingBooking, NewBooking
<1> QED BY <1>1 DEF Init, WatchInit, WatchInv, NotWatching

\* A change of the booking is noted while the watch is at work.
LEMMA Unnoticed == ASSUME Next PROVE Watching \/ UNCHANGED <<booking, watch, changed, alarms>>
                                       \/ (Noticing /\ ~Watching)
BY DEF Next, Sending, Moving, Withdrawing, Money, HearingOfThePayment, Meddling, Alerting, Sweeping,
       Living, Tick, rowVars, watchVars

\* While the calendar is being read, a session's time changes by a move alone, which leaves
\* its mark; so the watch, which reads the booking again before it writes, sees it.
LEMMA WatchInvStep == ASSUME MovesPerBooking <= 1, BaseInv, WatchInv, Next PROVE WatchInv'
<1> USE DEF WatchInv
<1>1. BookingMove /\ booking \in BookingRow /\ booking' \in BookingRow /\ watch \in WatchState
  BY BookingMoves, RowsStep DEF BaseInv, RowsOK, WorkersOK
<1>2. booking'.moveDue => booking'.moves > 0
  <2>1. CASE BookingMoved
    <3>1. booking'.moves = booking.moves + 1
      BY <1>1, <2>1 DEF BookingMoved, BookingRow
    <3> QED BY <1>1, <3>1 DEF BookingRow
  <2>2. CASE BookingMade
    BY <2>2 DEF BookingMade
  <2> QED BY <1>1, <2>1, <2>2
          DEF BookingMove, BookingCancelled, BookingFlagCleared, BookingScheduled,
              BookingConfirmed, BookingReturned, BookingAdopted, BookingRow
<1>3. CASE UNCHANGED <<booking, watch, changed, alarms>>
  BY <1>2, <1>3 DEF Watched
<1>4. CASE Noticing /\ ~Watching
  <2>1. alarms' = alarms /\ watch' = watch /\ changed' \in BOOLEAN
        /\ (changed' <=> (changed \/ (watch.step # "idle" /\ Watched' # Watched)))
    BY <1>4 DEF Noticing
  <2>2. CASE watch.step = "idle"
    BY <1>2, <2>1, <2>2
  <2>3. CASE watch.step # "idle"
    <3>1. watch.read \in WatchRead /\ watch # NotWatching
      BY <1>1, <2>3 DEF WatchState, NotWatching
    <3>2. CASE booking' = booking
      BY <1>2, <2>1, <2>3, <3>2 DEF Watched
    <3>3. CASE BookingCancelled
      BY <1>1, <1>2, <2>1, <2>3, <3>3 DEF BookingCancelled, BookingRow, Watched
    <3>4. CASE BookingMoved
      <4>1. PICK t \in Times \ {booking.time} :
               booking' = [booking EXCEPT !.time = t, !.moves = @ + 1, !.moveDue = (booking.event # None)]
        BY <3>4 DEF BookingMoved
      <4>2. booking.moves = 0 /\ booking.status = "confirmed"
        BY <1>1, <3>4, InstantAssumption DEF BookingMoved, BookingRow
      <4>3. ~changed /\ watch.read.time = booking.time
        BY <2>3, <4>2 DEF Watched
      <4>4. booking'.moves = 1 /\ booking'.time = t /\ booking'.event = booking.event
            /\ booking'.status = "confirmed"
        BY <1>1, <4>1, <4>2 DEF BookingRow
      <4>5. Watched'.time # Watched.time
        BY <4>1, <4>4 DEF Watched
      <4>6. changed'
        BY <2>1, <2>3, <4>5
      <4>7. booking'.event = watch'.read.event /\ booking'.time # watch'.read.time /\ booking'.moves > 0
        BY <2>1, <2>3, <4>1, <4>2, <4>3, <4>4
      <4>8. TRUE \notin alarms' /\ changed' \in BOOLEAN
        BY <2>1
      <4> QED BY <1>2, <4>4, <4>6, <4>7, <4>8
    <3>5. CASE BookingFlagCleared
      <4>1. booking' = [booking EXCEPT !.moveDue = FALSE]
        BY <3>5 DEF BookingFlagCleared
      <4>2. /\ booking'.moves = booking.moves /\ booking'.time = booking.time
            /\ booking'.event = booking.event /\ booking'.status = booking.status
            /\ booking'.moveDue = FALSE
        BY <1>1, <4>1 DEF BookingRow
      <4>3. CASE ~booking.moveDue
        <5>1. booking' = booking
          BY <1>1, <4>1, <4>3 DEF BookingRow
        <5> QED BY <1>2, <2>1, <2>3, <5>1 DEF Watched
      <4>4. CASE booking.moveDue
        <5>1. Watched'.moveDue # Watched.moveDue /\ booking.moves > 0
          BY <4>2, <4>4 DEF Watched
        <5>2. changed'
          BY <2>1, <2>3, <5>1
        <5>3. ~changed => watch.read.moveDue
          BY <2>3, <4>4 DEF Watched
        <5> QED BY <1>2, <2>1, <2>3, <4>2, <5>1, <5>2, <5>3
      <4> QED BY <1>1, <4>3, <4>4 DEF BookingRow
    <3>6. CASE BookingAdopted
      BY <2>1, <3>1, <3>6 DEF BookingAdopted
    <3> QED BY <1>1, <2>3, <3>2, <3>3, <3>4, <3>5, <3>6
            DEF BookingMove, BookingScheduled, BookingConfirmed, BookingReturned, BookingMade
  <2> QED BY <2>2, <2>3
<1>5. CASE Watching
  <2>1. CASE StartWatch
    BY <1>2, <2>1 DEF StartWatch, Watched
  <2>2. CASE ReadCalendar
    <3>1. watch.step = "listed" /\ watch'.step = "read" /\ watch'.read = watch.read
          /\ UNCHANGED <<changed, alarms, booking>>
      BY <2>2 DEF ReadCalendar
    <3> QED BY <1>2, <3>1 DEF Watched
  <2>3. CASE Judge
    <3>1. changed /\ booking.status = "confirmed" => watch.read # Watched
      BY <2>3 DEF Judge, Watched
    <3>2. watch.read \in WatchRead
      BY <1>1, <2>3 DEF Judge, WatchState, NotWatching
    <3>3. Same(watch.read) => booking.status = "confirmed"
      BY <3>2 DEF Same, Watched, WatchRead
    <3> QED BY <1>2, <2>3, <3>1, <3>3 DEF Judge, Same, NotWatching
  <2>4. CASE Adopt \/ WatchGivesUp
    <3>1. watch'.step = "idle" /\ changed' = FALSE /\ alarms' = alarms
      BY <2>4 DEF Adopt, WatchGivesUp, NotWatching
    <3> QED BY <1>2, <3>1
  <2> QED BY <1>5, <2>1, <2>2, <2>3, <2>4 DEF Watching, WatchStep
<1> QED BY <1>3, <1>4, <1>5, Unnoticed

\* No alarm about an event rests on a booking that changed while the calendar was read, as
\* long as a booking is moved once at most: moved there and back, it would look as it did
\* (calendar-watch.ts:103).
THEOREM WatchNeverMissesChange == ASSUME MovesPerBooking <= 1 PROVE Spec => []WatchMissesNoChange
<1>1. WatchInv /\ UNCHANGED vars => WatchInv'
  <2>1. SUFFICES ASSUME WatchInv, UNCHANGED vars PROVE WatchInv'
    OBVIOUS
  <2>2. UNCHANGED <<booking, watch, changed, alarms>>
    BY <2>1 DEF vars, careVars, watchVars
  <2>3. Watched' = Watched
    BY <2>2 DEF Watched
  <2> QED BY <2>1, <2>2, <2>3 DEF WatchInv
<1>2. BaseInv /\ WatchInv /\ [Next]_vars => WatchInv'
  BY <1>1, WatchInvStep
<1>3. Spec => []WatchInv
  BY InitWatch, <1>2, BaseAlways, PTL DEF Spec
<1> QED BY <1>3, PTL DEF WatchInv, WatchMissesNoChange

(***************************************************************************)
(* The emails.                                                             *)
(***************************************************************************)

\* The rows of customers, and the pages of the withdrawal form.
CustomerRow == [consents : BOOLEAN, confirmed : BOOLEAN, unsubscribed : BOOLEAN]
Form == [step : {"blank", "shown", "asked", "kept", "reviewing", "refunded", "declined"},
         now : 0 .. LastHour]

\* What a sender reads before it writes an email, and how far its request got.
About == [status : Ongoing \cup {"none", "cancelled"}, time : Times \cup {None},
          moves : 0 .. MovesPerBooking, customer : CustomerRow]
Rounds == [attempt : Nat, refreshed : BOOLEAN]

\* What a sender may be doing.
SenderState ==
    {NoSender} \cup
    [step : {"claimed", "asking", "send", "accepted", "withdraw", "fail", "retry"},
     row : Templates, since : 0 .. MovesPerBooking, about : About, call : Rounds]

\* The queue, the senders, the customer and the form.
MailTypes ==
    /\ log \in [Templates -> Row]
    /\ customer \in CustomerRow
    /\ form \in [Tabs -> Form]
    /\ sender \in [Senders -> SenderState]
    /\ inbox \in [Templates -> Nat] /\ untold \in [Templates -> Nat]
    /\ file \in [sequence : 0 .. MovesPerBooking, time : Times \cup {None}]

\* What happens to an email in the queue when nobody is sending: it is queued, withdrawn,
\* or given another time.
LogQueued(t) == log[t].status = "none" /\ \E at \in Nat : log'[t] = Queued(at)
LogWithdrawn(t) == log[t].status = "queued" /\ log'[t] = [log[t] EXCEPT !.status = "cancelled"]
LogRetimed(t) == log[t].status = "queued" /\ \E at \in Nat : log'[t] = [log[t] EXCEPT !.at = at]

\* All a step outside the send job does to the queue.
LogMove ==
    /\ log' \in [Templates -> Row]
    /\ \A t \in Templates : log'[t] = log[t] \/ LogQueued(t) \/ LogWithdrawn(t) \/ LogRetimed(t)
    /\ LogWithdrawn("choose_new_time") => booking'.status = "cancelled"
    /\ LogQueued("reschedule_confirmation") => BookingMoved
    /\ \A t \in FollowingTheSession : LogQueued(t) => booking'.status = "confirmed"
    /\ \A t \in Reminders : log'[t].status = "queued" /\ (log'[t] # log[t] \/ BookingMoved)
                              => log'[t].at = booking'.time - Notice

(***************************************************************************)
(* The queue.                                                              *)
(***************************************************************************)

\* The templates, spelled out.
LEMMA TemplateNames ==
    /\ Templates = {"booking_confirmation", "reschedule_confirmation", "choose_new_time",
                    "reminder_24h", "follow_up", "next_session_nudge_1",
                    "withdrawal_acknowledgement", "cancellation_confirmation"}
    /\ FollowingTheSession = {"reminder_24h", "follow_up", "next_session_nudge_1"}
    /\ Reminders = {"reminder_24h"} /\ Marketing = {"next_session_nudge_1"}
    /\ AboutWithdrawal = {"withdrawal_acknowledgement", "cancellation_confirmation"}
BY DEF Templates, FollowingTheSession, Reminders, Marketing, AboutWithdrawal

\* queueForBooking queues what was never queued, and leaves the rest.
LEMMA QueueRows ==
    ASSUME NEW l \in [Templates -> Row], NEW due, \A t \in DOMAIN due \cap Templates : due[t] \in Nat
    PROVE  LET m == QueueForBooking(l, due) IN
           /\ m \in [Templates -> Row]
           /\ \A t \in Templates :
                \/ m[t] = l[t]
                \/ t \in DOMAIN due /\ l[t].status = "none" /\ m[t] = Queued(due[t])
<1>1. \A at \in Nat : Queued(at) \in Row
  BY DEF Queued, NoRow, Row
<1> QED BY <1>1 DEF QueueForBooking

\* Withdrawing takes back what still waits, and nothing else.
LEMMA WithdrawRows ==
    ASSUME NEW l \in [Templates -> Row], NEW ts
    PROVE  LET m == WithdrawQueued(l, ts) IN
           /\ m \in [Templates -> Row]
           /\ \A t \in Templates :
                m[t] = IF t \in ts /\ l[t].status = "queued"
                       THEN [l[t] EXCEPT !.status = "cancelled"] ELSE l[t]
BY DEF WithdrawQueued, Row

\* A confirmation queues itself and what follows the session, a reminder for its day before.
LEMMA ConfirmationRows ==
    ASSUME NEW time \in Times, NEW now \in Nat
    PROVE  LET due == MessagesOnConfirmation(time, now) IN
           /\ DOMAIN due \subseteq {"booking_confirmation"} \cup FollowingTheSession
           /\ \A t \in DOMAIN due : due[t] = Moment(t, time, now) /\ due[t] \in Nat
           /\ \A t \in DOMAIN due \cap Reminders : due[t] = time - Notice
<1>1. time \in Nat /\ Notice \in Nat
  BY InstantAssumption
<1> QED BY <1>1, TemplateNames DEF MessagesOnConfirmation, Moment

\* A row just queued.
LEMMA RowParts == \A at : Queued(at).status = "queued" /\ Queued(at).at = at
                    /\ Queued(at).attempts = 0 /\ Queued(at).leased = FALSE
BY DEF Queued, NoRow

\* Calling a booking off withdraws emails and may queue the one that says so.
LEMMA CancellingLog ==
    ASSUME RowsOK, MailTypes, CancelOpenBooking \/ CancelBookings
    PROVE  LogMove
<1> USE DEF RowsOK, MailTypes
<1>1. CASE UNCHANGED <<booking, log>>
  BY <1>1, TemplateNames, RowParts DEF LogMove, LogQueued, LogWithdrawn, BookingMoved, BookingRow, Row
<1> DEFINE w == WithdrawQueued(log, Templates \ AboutWithdrawal)
<1> DEFINE due == [t \in {"cancellation_confirmation"} |-> hour]
<1>2. hour \in Nat
  BY InstantAssumption
<1>3. /\ w \in [Templates -> Row]
      /\ \A t \in Templates :
           w[t] = IF t \in Templates \ AboutWithdrawal /\ log[t].status = "queued"
                  THEN [log[t] EXCEPT !.status = "cancelled"] ELSE log[t]
  BY WithdrawRows
<1>4. CASE booking' = [booking EXCEPT !.status = "cancelled"] /\ log' \in {w, QueueForBooking(w, due)}
  <2>1. booking'.status = "cancelled" /\ booking'.time = booking.time /\ booking'.moves = booking.moves
    BY <1>4 DEF BookingRow
  <2> HIDE DEF w
  <2>2. /\ log' \in [Templates -> Row]
        /\ \A t \in Templates :
             \/ log'[t] = w[t]
             \/ t = "cancellation_confirmation" /\ w[t].status = "none" /\ log'[t] = Queued(hour)
    <3>1. CASE log' = w
      BY <1>3, <3>1
    <3>2. CASE log' = QueueForBooking(w, due)
      BY <1>2, <1>3, <3>2, QueueRows
    <3> QED BY <1>4, <3>1, <3>2
  <2>3. \A t \in Templates : \/ log'[t] = log[t]
                             \/ LogWithdrawn(t)
                             \/ t = "cancellation_confirmation" /\ LogQueued(t)
    BY <1>2, <1>3, <2>2 DEF LogWithdrawn, LogQueued, Row
  <2>4. ~BookingMoved
    BY <2>1 DEF BookingMoved, BookingRow
  <2>5. \A t \in Templates \ {"cancellation_confirmation"} :
           ~LogQueued(t) /\ (log'[t].status = "queued" => log'[t] = log[t])
    <3> SUFFICES ASSUME NEW t \in Templates \ {"cancellation_confirmation"}
                 PROVE  ~LogQueued(t) /\ (log'[t].status = "queued" => log'[t] = log[t])
      OBVIOUS
    <3>1. log[t] \in Row
      OBVIOUS
    <3>2. CASE log'[t] = log[t]
      BY <3>2, RowParts DEF LogQueued
    <3>3. CASE LogWithdrawn(t)
      BY <3>1, <3>3 DEF LogQueued, LogWithdrawn, Row
    <3> QED BY <2>3, <3>2, <3>3
  <2> QED BY <2>1, <2>2, <2>3, <2>4, <2>5, TemplateNames DEF LogMove
<1> QED BY <1>1, <1>4 DEF CancelOpenBooking, CancelBookings

\* When an email that follows the session is due, for a session at t.
FollowsTo(t, u, at) == at \in Nat /\ (u \in Reminders => at = t - Notice)

\* rescheduleMessages: what follows the session follows it to its new time, or is withdrawn
\* when that is over.
LEMMA RetimedRows ==
    ASSUME NEW l \in [Templates -> Row], NEW t \in Times, NEW now \in Nat
    PROVE  LET m == RetimeMessages(l, t, now) IN
           /\ m \in [Templates -> Row]
           /\ \A u \in Templates :
                \/ m[u] = l[u] /\ (u \in FollowingTheSession => l[u].status # "queued")
                \/ /\ u \in FollowingTheSession
                   /\ \/ /\ l[u].status = "queued"
                         /\ \/ \E at : FollowsTo(t, u, at) /\ m[u] = [l[u] EXCEPT !.at = at]
                            \/ m[u] = [l[u] EXCEPT !.status = "cancelled"]
                      \/ l[u].status = "none" /\ \E at : FollowsTo(t, u, at) /\ m[u] = Queued(at)
<1> DEFINE all == MessagesOnConfirmation(t, now)
           due == [u \in FollowingTheSession \cap DOMAIN all |-> Moment(u, t, now)]
           followed == [u \in Templates |-> IF u \in DOMAIN due /\ l[u].status = "queued"
                                            THEN [l[u] EXCEPT !.at = due[u]] ELSE l[u]]
           w == WithdrawQueued(followed, FollowingTheSession \ DOMAIN due)
           m == QueueForBooking(w, due)
<1>1. \A u \in DOMAIN due : u \in FollowingTheSession /\ due[u] \in Nat /\ FollowsTo(t, u, due[u])
  BY ConfirmationRows DEF FollowsTo
<1>2. RetimeMessages(l, t, now) = m
  BY DEF RetimeMessages
<1> HIDE DEF due
<1>3. followed \in [Templates -> Row]
  BY <1>1 DEF Row
<1>4. /\ \A u \in Templates : followed[u] = IF u \in DOMAIN due /\ l[u].status = "queued"
                                            THEN [l[u] EXCEPT !.at = due[u]] ELSE l[u]
      /\ \A u \in Templates : followed[u].status = l[u].status
  BY DEF Row
<1> HIDE DEF followed
<1>5. /\ w \in [Templates -> Row]
      /\ \A u \in Templates :
           w[u] = IF u \in FollowingTheSession \ DOMAIN due /\ followed[u].status = "queued"
                  THEN [followed[u] EXCEPT !.status = "cancelled"] ELSE followed[u]
  BY <1>3, WithdrawRows
<1> HIDE DEF w
<1>6. /\ m \in [Templates -> Row]
      /\ \A u \in Templates : \/ m[u] = w[u]
                              \/ u \in DOMAIN due /\ w[u].status = "none" /\ m[u] = Queued(due[u])
  BY <1>1, <1>5, QueueRows
<1> HIDE DEF m
<1> SUFFICES ASSUME NEW u \in Templates
    PROVE  \/ m[u] = l[u] /\ (u \in FollowingTheSession => l[u].status # "queued")
           \/ /\ u \in FollowingTheSession
              /\ \/ /\ l[u].status = "queued"
                    /\ \/ \E at : FollowsTo(t, u, at) /\ m[u] = [l[u] EXCEPT !.at = at]
                       \/ m[u] = [l[u] EXCEPT !.status = "cancelled"]
                 \/ l[u].status = "none" /\ \E at : FollowsTo(t, u, at) /\ m[u] = Queued(at)
  BY <1>2, <1>6
<1>7. l[u] \in Row
  OBVIOUS
<1>8. CASE l[u].status = "queued" /\ u \in DOMAIN due
  <2>1. w[u] = [l[u] EXCEPT !.at = due[u]] /\ w[u].status = "queued"
    BY <1>4, <1>5, <1>7, <1>8 DEF Row
  <2> QED BY <1>1, <1>6, <1>8, <2>1
<1>9. CASE l[u].status = "queued" /\ u \in FollowingTheSession \ DOMAIN due
  <2>1. w[u] = [l[u] EXCEPT !.status = "cancelled"] /\ w[u].status = "cancelled"
    BY <1>4, <1>5, <1>7, <1>9 DEF Row
  <2> QED BY <1>6, <1>9, <2>1
<1>10. CASE l[u].status # "queued" \/ u \notin FollowingTheSession
  <2>1. w[u] = l[u]
    BY <1>1, <1>4, <1>5, <1>10
  <2> QED BY <1>1, <1>6, <1>10, <2>1
<1> QED BY <1>8, <1>9, <1>10

\* A move queues its confirmation and takes what follows the session along.
LEMMA MovingLog == ASSUME BaseInv, MailTypes, NEW m \in Movers, MoveBooking(m) PROVE LogMove
<1> USE DEF BaseInv, RowsOK, MailTypes
<1>1. CASE UNCHANGED <<booking, log>>
  BY <1>1, TemplateNames, RowParts DEF LogMove, LogQueued, LogWithdrawn, BookingMoved, BookingRow, Row
<1> DEFINE t == mover[m].time
           now == mover[m].now
           r == RetimeMessages(log, t, now)
           due == [u \in {"reschedule_confirmation"} |-> now]
<1>2. t \in Times /\ now \in Nat
  BY InstantAssumption DEF MoveBooking, MoverIdle, WorkersOK, MoverState, NoMover
<1>3. CASE ~disputed /\ MayMove(t, now) /\ Free(t)
  <2>1. /\ booking' = [booking EXCEPT !.time = t, !.moves = @ + 1, !.moveDue = (booking.event # None)]
        /\ log' = QueueForBooking(r, due)
    BY <1>3 DEF MoveBooking
  <2>2. BookingMoved /\ booking'.time = t /\ booking'.status = "confirmed"
    BY <1>2, <1>3, <2>1 DEF MayMove, BookingMoved, BookingRow
  <2>3. /\ r \in [Templates -> Row]
        /\ \A u \in Templates :
             \/ r[u] = log[u] /\ (u \in FollowingTheSession => log[u].status # "queued")
             \/ /\ u \in FollowingTheSession
                /\ \/ /\ log[u].status = "queued"
                      /\ \/ \E at : FollowsTo(t, u, at) /\ r[u] = [log[u] EXCEPT !.at = at]
                         \/ r[u] = [log[u] EXCEPT !.status = "cancelled"]
                   \/ log[u].status = "none" /\ \E at : FollowsTo(t, u, at) /\ r[u] = Queued(at)
    <3> HIDE DEF t, now
    <3>1. log \in [Templates -> Row]
      OBVIOUS
    <3> HIDE DEF BaseInv, RowsOK, MailTypes
    <3> QED BY <1>2, <3>1, RetimedRows
  <2> HIDE DEF r, t, now
  <2>4. /\ log' \in [Templates -> Row]
        /\ \A u \in Templates :
             \/ log'[u] = r[u]
             \/ u = "reschedule_confirmation" /\ r[u].status = "none" /\ log'[u] = Queued(now)
    BY <1>2, <2>1, <2>3, QueueRows
  <2>5. \A u \in Templates \ FollowingTheSession :
           log'[u] = log[u] \/ (u = "reschedule_confirmation" /\ LogQueued(u))
    BY <1>2, <2>3, <2>4 DEF LogQueued
  <2>6. \A u \in FollowingTheSession : u \in Templates /\ log'[u] = r[u] /\ u # "reschedule_confirmation"
    BY <2>4, TemplateNames
  <2>7. \A u \in FollowingTheSession :
           /\ log'[u] = log[u] \/ LogQueued(u) \/ LogWithdrawn(u) \/ LogRetimed(u)
           /\ u \in Reminders /\ log'[u].status = "queued" => log'[u].at = t - Notice
    <3> SUFFICES ASSUME NEW u \in FollowingTheSession
                 PROVE  /\ log'[u] = log[u] \/ LogQueued(u) \/ LogWithdrawn(u) \/ LogRetimed(u)
                        /\ u \in Reminders /\ log'[u].status = "queued" => log'[u].at = t - Notice
      OBVIOUS
    <3>1. log[u] \in Row /\ log'[u] = r[u]
      BY <2>6
    <3>2. CASE r[u] = log[u] /\ log[u].status # "queued"
      BY <3>1, <3>2
    <3>3. CASE log[u].status = "queued" /\ \E at : FollowsTo(t, u, at) /\ r[u] = [log[u] EXCEPT !.at = at]
      BY <3>1, <3>3 DEF LogRetimed, FollowsTo, Row
    <3>4. CASE log[u].status = "queued" /\ r[u] = [log[u] EXCEPT !.status = "cancelled"]
      BY <3>1, <3>4 DEF LogWithdrawn, Row
    <3>5. CASE log[u].status = "none" /\ \E at : FollowsTo(t, u, at) /\ r[u] = Queued(at)
      BY <3>1, <3>5, RowParts DEF LogQueued, FollowsTo
    <3> QED BY <2>3, <2>6, <3>2, <3>3, <3>4, <3>5
  <2>8. ~LogWithdrawn("choose_new_time")
    BY <2>5, TemplateNames DEF LogWithdrawn, Row
  <2> QED BY <2>2, <2>4, <2>5, <2>7, <2>8, TemplateNames DEF LogMove
<1> QED BY <1>1, <1>3 DEF MoveBooking

\* So does a confirmation.
LEMMA ConfirmingLog == ASSUME BaseInv, MailTypes, NEW e \in EventIds, Confirm(e) PROVE LogMove
<1> USE DEF BaseInv, RowsOK, MailTypes
<1> DEFINE due == MessagesOnConfirmation(booking.time, hour)
<1>1. booking.time \in Times /\ hour \in Nat
  BY InstantAssumption DEF Confirm
<1>2. booking' = [booking EXCEPT !.status = "confirmed", !.event = e] /\ log' = QueueForBooking(log, due)
  BY DEF Confirm
<1>3. booking'.status = "confirmed" /\ booking'.time = booking.time /\ booking.status = "scheduled"
  BY <1>2 DEF BookingRow, Confirm
<1>4. /\ DOMAIN due \subseteq {"booking_confirmation"} \cup FollowingTheSession
      /\ \A t \in DOMAIN due : due[t] \in Nat
      /\ \A t \in DOMAIN due \cap Reminders : due[t] = booking.time - Notice
  BY <1>1, ConfirmationRows
<1> HIDE DEF due
<1>5. /\ log' \in [Templates -> Row]
      /\ \A t \in Templates :
           \/ log'[t] = log[t]
           \/ t \in DOMAIN due /\ log[t].status = "none" /\ log'[t] = Queued(due[t])
  BY <1>2, <1>4, QueueRows
<1>6. \A t \in Templates : log'[t] = log[t] \/ (t \in DOMAIN due /\ LogQueued(t) /\ log'[t].at = due[t])
  BY <1>4, <1>5, RowParts DEF LogQueued
<1>7. ~BookingMoved
  BY <1>3 DEF BookingMoved
<1>8. \A t \in Templates \ DOMAIN due : log'[t] = log[t] /\ ~LogQueued(t) /\ ~LogWithdrawn(t)
  BY <1>6, RowParts DEF LogQueued, LogWithdrawn, Row
<1> QED BY <1>3, <1>4, <1>5, <1>6, <1>7, <1>8, TemplateNames DEF LogMove

\* A step that leaves the queue and the time alone.
LEMMA QuietLog == ASSUME RowsOK, MailTypes, log' = log, ~BookingMoved PROVE LogMove
BY TemplateNames, RowParts DEF LogMove, LogQueued, LogWithdrawn, MailTypes, Row

\* A notice of withdrawal queues its acknowledgement.
LEMMA KeepingLog ==
    ASSUME RowsOK, MailTypes, booking' = booking, NEW p \in Tabs, KeepNotice(p)
    PROVE  LogMove
<1> USE DEF RowsOK, MailTypes
<1>1. ~BookingMoved
  BY DEF BookingMoved, BookingRow
<1>2. CASE log' = log
  BY <1>1, <1>2, QuietLog
<1> DEFINE now == form[p].now
           due == [t \in {"withdrawal_acknowledgement"} |-> now]
<1>3. CASE log' = QueueForBooking(log, due)
  <2>1. now \in Nat
    BY InstantAssumption DEF Form
  <2> HIDE DEF now
  <2>2. /\ log' \in [Templates -> Row]
        /\ \A t \in Templates :
             log'[t] = log[t] \/ (t = "withdrawal_acknowledgement" /\ log[t].status = "none" /\ log'[t] = Queued(now))
    BY <1>3, <2>1, QueueRows
  <2>3. \A t \in Templates \ {"withdrawal_acknowledgement"} :
           log'[t] = log[t] /\ ~LogQueued(t) /\ ~LogWithdrawn(t)
    BY <2>2, RowParts DEF LogQueued, LogWithdrawn, Row
  <2>4. \A t \in Templates : log'[t] = log[t] \/ LogQueued(t)
    BY <2>1, <2>2 DEF LogQueued
  <2> QED BY <1>1, <2>2, <2>3, <2>4, TemplateNames DEF LogMove
<1> QED BY <1>2, <1>3 DEF KeepNotice, RecordWithdrawal

\* Nobody sends anything.
MailStays == UNCHANGED <<sender, inbox, untold, file>>

\* Moves and confirmations touch the queue only as said, and send nothing.
LEMMA MovingMail == ASSUME BaseInv, MailTypes, Moving PROVE LogMove /\ MailStays
<1> USE DEF BaseInv, RowsOK
<1>1. MailStays
  BY DEF Moving, MailStays, mailVars, ReturnToWaiting
<1>2. CASE \E m \in Movers : MoveBooking(m)
  BY <1>1, <1>2, MovingLog
<1>3. CASE \E e \in EventIds : Confirm(e)
  BY <1>1, <1>3, ConfirmingLog
<1>4. CASE log' = log /\ ~BookingMoved
  BY <1>1, <1>4, QuietLog
<1>5. CASE log' = log /\ booking' = booking
  <2>1. ~BookingMoved
    BY <1>5 DEF BookingMoved, BookingRow
  <2> QED BY <1>4, <1>5, <2>1
<1>6. CASE \E m \in Movers : ScheduleWaiting(m)
  BY <1>4, <1>5, <1>6 DEF ScheduleWaiting, BookingMoved
<1>7. CASE \E m \in Movers : ClearFlag(m)
  <2>1. booking'.moves = booking.moves
    BY <1>7 DEF ClearFlag, BookingRow
  <2>2. BookingMoved => booking'.moves = booking.moves + 1
    BY DEF BookingMoved, BookingRow
  <2>3. ~BookingMoved
    BY <2>1, <2>2, InstantAssumption DEF BookingRow
  <2> QED BY <1>4, <1>7, <2>3 DEF ClearFlag
<1>8. CASE ReturnToWaiting
  BY <1>4, <1>8 DEF ReturnToWaiting, BookingMoved
<1> QED
  BY <1>2, <1>3, <1>5, <1>6, <1>7, <1>8
     DEF Moving, MoverStep, ReadMove, CallCalendar, AskToMove, AskForNewTime, Asks, SweepDeletes,
         CalendarDown, MoverCrashes

\* Nor do refunds, disputes and the settlement.
LEMMA PayingMail == ASSUME BaseInv, MailTypes, Money \/ HearingOfThePayment PROVE LogMove /\ MailStays
<1>1. MailStays
  BY DEF Money, HearingOfThePayment, MailStays, mailVars
<1>2. CASE CancelOpenBooking \/ CancelBookings
  BY <1>1, <1>2, CancellingLog DEF BaseInv
<1>3. CASE UNCHANGED <<booking, log>>
  <2>1. ~BookingMoved
    BY <1>3 DEF BookingMoved, BookingRow, BaseInv, RowsOK
  <2> QED BY <1>1, <1>3, <2>1, QuietLog DEF BaseInv
<1>4. CASE \E h \in Handlers : Settle(h)
  <2>1. log' = log
    BY <1>4 DEF Settle
  <2>2. booking.status = "none"
    BY <1>4 DEF BaseInv, OneWriter, Settle, Writing, DeliveriesOK, RowsOK, Delivery, NoHandler, Answered
  <2> QED BY <1>1, <2>1, <2>2, QuietLog DEF BaseInv, BookingMoved
<1> QED BY <1>2, <1>3, <1>4
        DEF Money, RefundInPart, RefundInFull, DisputeLands, HearingOfThePayment, HandlerWrites,
            RecordDispute, RecordWarning, ApplyDisputeEffects, SweepAppliesDispute

\* The form sends its own acknowledgement.
Acknowledging == \E p \in Tabs, s \in Senders : SendAcknowledgementNow(p, s)

\* Every step is the send job's or the form's, or touches the queue only as said.
LEMMA OthersMail ==
    ASSUME BaseInv, MailTypes, Next
    PROVE  \/ LogMove /\ MailStays
           \/ (Sending \/ Acknowledging) /\ UNCHANGED <<booking, hour>>
<1>1. CASE MailStays /\ UNCHANGED <<booking, log>>
  <2>1. ~BookingMoved
    BY <1>1 DEF BookingMoved, BookingRow, BaseInv, RowsOK
  <2> QED BY <1>1, <2>1, QuietLog DEF BaseInv
<1>2. CASE Withdrawing
  <2>1. booking' = booking /\ hour' = hour
    BY <1>2 DEF Withdrawing, rowVars, worldVars
  <2>2. CASE WithdrawalStep /\ UNCHANGED mailVars
    <3>1. CASE \E p \in Tabs : KeepNotice(p)
      BY <2>1, <2>2, <3>1, KeepingLog DEF BaseInv, MailStays, mailVars
    <3> QED BY <1>1, <2>1, <2>2, <3>1
            DEF WithdrawalStep, LookUp, AskForCountry, LeaveForm, TellDesk, Decline, MailStays, mailVars
  <2> QED BY <1>2, <2>1, <2>2 DEF Withdrawing, Acknowledging
<1>3. CASE Watching
  <2>1. MailStays /\ log' = log
    BY <1>3 DEF Watching, MailStays, mailVars
  <2>2. booking' = booking \/ BookingAdopted
    BY <1>3 DEF Watching, WatchStep, StartWatch, ReadCalendar, Judge, Adopt, WatchGivesUp, BookingAdopted,
         BaseInv, WorkersOK
  <2>3. ~BookingMoved
    BY <2>2 DEF BookingMoved, BookingAdopted, BookingRow, BaseInv, RowsOK
  <2> QED BY <2>1, <2>3, QuietLog DEF BaseInv
<1>4. CASE Sending
  BY <1>4 DEF Sending, rowVars, worldVars
<1> QED
  BY <1>1, <1>2, <1>3, <1>4, MovingMail, PayingMail
     DEF Next, Meddling, Alerting, Sweeping, Living, Tick, rowVars, mailVars, mailButLinks, MailStays

(***************************************************************************)
(* The senders.                                                            *)
(***************************************************************************)

\* Where a round of the request to Microsoft leads, that did not succeed.
Outcomes == [step : {"send", "fail", "retry"}, call : Rounds]

\* A refusal or a lost answer leads to another round or to an end.
LEMMA RoundsEnd ==
    ASSUME NEW call \in Rounds
    PROVE  /\ \A f \in Failures(call) : f.to \in Outcomes
           /\ LostAnswers(call) \subseteq Outcomes
<1>1. \A step \in {"fail", "retry"} : Ends(step) \in Outcomes
  BY DEF Ends, FirstRound, Outcomes, Rounds
<1>2. Again([call EXCEPT !.refreshed = TRUE]) \in Outcomes /\ Again(call) \in Outcomes
  <2>1. \A c \in Rounds : [c EXCEPT !.attempt = @ + 1] \in Rounds
    <3> TAKE c \in Rounds
    <3>1. c.attempt + 1 \in Nat
      BY DEF Rounds
    <3> QED BY <3>1 DEF Rounds
  <2>2. \A c \in Rounds : Again(c) \in Outcomes
    BY <2>1 DEF Again, Outcomes
  <2>3. [call EXCEPT !.refreshed = TRUE] \in Rounds
    BY DEF Rounds
  <2> QED BY <2>2, <2>3
<1>3. Unauthorised(call) \in Outcomes /\ Unavailable(call) \in Outcomes
  BY <1>1, <1>2 DEF Unauthorised, Unavailable
<1>4. LostAnswers(call) \subseteq Outcomes
  BY <1>1, <1>3 DEF LostAnswers
<1>5. ASSUME NEW f \in Failures(call) PROVE f.to \in Outcomes
  <2>1. CASE f \in {[to |-> e, token |-> FALSE] : e \in IF token THEN {} ELSE TokenRefused}
    BY <1>1, <2>1 DEF TokenRefused
  <2>2. CASE f \in {[to |-> Unauthorised(call), token |-> FALSE],
                    [to |-> Unavailable(call), token |-> TRUE], [to |-> Ends("fail"), token |-> TRUE]}
    BY <1>1, <1>3, <2>2
  <2>3. CASE f \in {[to |-> Ends("retry"), token |-> kept] : kept \in {token, TRUE}}
    BY <1>1, <2>3
  <2> QED BY <1>5, <2>1, <2>2, <2>3 DEF Failures
<1> QED BY <1>4, <1>5

\* What a sender reads is a row.
LEMMA ContextIsRow == ASSUME RowsOK, MailTypes PROVE Context \in About
BY DEF RowsOK, MailTypes, Context, About, BookingRow

\* What a sender at work has in its hands.
LEMMA NotIdle ==
    ASSUME MailTypes, NEW s \in Senders, ~Idle(s)
    PROVE  /\ sender[s] \in SenderState \ {NoSender}
           /\ sender[s].row \in Templates /\ sender[s].about \in About /\ sender[s].call \in Rounds
           /\ sender[s].since \in 0 .. MovesPerBooking
           /\ sender[s].step \in {"claimed", "asking", "send", "accepted", "withdraw", "fail", "retry"}
BY DEF MailTypes, SenderState, Idle

\* Claiming: a lease, one more attempt, and a sender at work on the row (claimDue).
LEMMA TakeEffect ==
    ASSUME RowsOK, MailTypes, NEW s \in Senders, NEW t \in Templates, Take(s, t)
    PROVE  /\ Idle(s) /\ Claimable(t)
           /\ log' = [log EXCEPT ![t] = log'[t]] /\ log'[t] \in Row
           /\ log'[t].status = "queued" /\ log'[t].leased /\ log'[t].at = log[t].at
           /\ log'[t].attempts = log[t].attempts + 1
           /\ sender' = [sender EXCEPT ![s] = sender'[s]]
           /\ sender'[s] \in SenderState \ {NoSender}
           /\ sender'[s].step = "claimed" /\ sender'[s].row = t
           /\ sender'[s].since = booking.moves /\ sender'[s].about = Context
           /\ UNCHANGED <<inbox, untold, file>>
<1> DEFINE new == [step |-> "claimed", row |-> t, since |-> booking.moves, about |-> Context,
                   call |-> FirstRound]
<1>1. sender' = [sender EXCEPT ![s] = new] /\ Idle(s) /\ Claimable(t) /\ UNCHANGED <<inbox, untold, file>>
      /\ log' = [log EXCEPT ![t].attempts = @ + 1, ![t].leased = TRUE]
  BY DEF Take
<1>2. booking.moves \in 0 .. MovesPerBooking /\ FirstRound \in Rounds
  BY DEF RowsOK, BookingRow, FirstRound, Rounds
<1>3. new \in SenderState \ {NoSender}
  <2>1. new # NoSender
    BY DEF NoSender
  <2> QED BY <1>2, <2>1, ContextIsRow DEF SenderState
<1>4. sender'[s] = new
  BY <1>1 DEF MailTypes
<1>5. new.step = "claimed" /\ new.row = t /\ new.since = booking.moves /\ new.about = Context
  OBVIOUS
<1> HIDE DEF new
<1>6. log[t] \in Row /\ log[t].status = "queued"
  BY <1>1 DEF MailTypes, Claimable
<1>7. log'[t] = [log[t] EXCEPT !.attempts = @ + 1, !.leased = TRUE]
  BY <1>1 DEF MailTypes
<1>8. log'[t] \in Row
  <2>1. log[t].attempts + 1 \in Nat
    BY <1>6 DEF Row
  <2> QED BY <1>6, <1>7, <2>1 DEF Row
<1>9. /\ log'[t].status = "queued" /\ log'[t].leased /\ log'[t].at = log[t].at
      /\ log'[t].attempts = log[t].attempts + 1
  BY <1>6, <1>7 DEF Row
<1>10. log' = [log EXCEPT ![t] = log'[t]]
  BY <1>1, <1>7 DEF MailTypes
<1> QED BY <1>1, <1>3, <1>4, <1>5, <1>8, <1>9, <1>10

\* An email may go: the session is on, and an offer goes to somebody who wants it.
Fits(about, t) ==
    /\ t \notin AboutWithdrawal => about.status # "cancelled"
    /\ t \in Marketing =>
         about.customer = [consents |-> TRUE, confirmed |-> TRUE, unsubscribed |-> FALSE]

\* A sender goes on with the email it claimed.
SameErrand(s) ==
    /\ ~Idle(s) /\ sender' = [sender EXCEPT ![s] = sender'[s]]
    /\ sender'[s] \in SenderState \ {NoSender}
    /\ sender'[s].row = sender[s].row /\ sender'[s].since = sender[s].since

\* Loading reads the booking and the customer, and goes on only with an email that may go.
LEMMA LoadEffect ==
    ASSUME RowsOK, MailTypes, NEW s \in Senders, Load(s)
    PROVE  /\ SameErrand(s) /\ sender[s].step = "claimed"
           /\ sender'[s].step \in {"asking", "send", "withdraw", "fail"}
           /\ sender'[s].about = Context
           /\ sender'[s].step \in {"asking", "send"} => Fits(Context, sender[s].row)
           /\ UNCHANGED <<log, inbox, untold, file>>
<1> DEFINE t == sender[s].row
           v == Verdict(t)
           new == [sender[s] EXCEPT !.step = v, !.about = Context]
<1>1. ~Idle(s) /\ sender[s].step = "claimed" /\ UNCHANGED <<log, inbox, untold, file>>
      /\ sender' = [sender EXCEPT ![s].step = v, ![s].about = Context]
  BY DEF Load
<1>2. v \in {"asking", "send", "withdraw", "fail"}
  BY DEF Verdict, Prepare, PrepareSessionEmail, PrepareCancellationConfirmation, PrepareChooseNewTime
<1>3. v \in {"asking", "send"} => Fits(Context, t)
  <2>1. CASE t \in Marketing
    BY <2>1 DEF Verdict, Refusing, DecideSend, Fits, Context, MailTypes, CustomerRow
  <2>2. CASE t \notin Marketing
    BY <2>2 DEF Verdict, Fits, Context
  <2> QED BY <2>1, <2>2
<1>4. sender[s] \in SenderState \ {NoSender} /\ Context \in About
  BY <1>1, NotIdle, ContextIsRow
<1> HIDE DEF v
<1>5. /\ new \in SenderState \ {NoSender} /\ new.step = v /\ new.about = Context
      /\ new.row = sender[s].row /\ new.since = sender[s].since
  BY <1>2, <1>4 DEF SenderState, NoSender
<1>6. sender' = [sender EXCEPT ![s] = new] /\ sender'[s] = new
  BY <1>1 DEF MailTypes
<1> QED BY <1>1, <1>2, <1>3, <1>5, <1>6 DEF SameErrand

\* Asking for a further session reads nothing else again.
LEMMA AskEffect ==
    ASSUME MailTypes, NEW s \in Senders, AskWhetherAhead(s)
    PROVE  /\ SameErrand(s) /\ sender[s].step = "asking"
           /\ sender'[s].step \in {"withdraw", "send"} /\ sender'[s].about = sender[s].about
           /\ UNCHANGED <<log, inbox, untold, file>>
<1> DEFINE v == IF another = "further" THEN "withdraw" ELSE "send"
           new == [sender[s] EXCEPT !.step = v]
<1>1. ~Idle(s) /\ sender[s].step = "asking" /\ UNCHANGED <<log, inbox, untold, file>>
      /\ sender' = [sender EXCEPT ![s].step = v]
  BY DEF AskWhetherAhead
<1>2. v \in {"withdraw", "send"}
  OBVIOUS
<1>3. sender[s] \in SenderState \ {NoSender}
  BY <1>1, NotIdle
<1> HIDE DEF v
<1>4. /\ new \in SenderState \ {NoSender} /\ new.step = v /\ new.about = sender[s].about
      /\ new.row = sender[s].row /\ new.since = sender[s].since
  BY <1>2, <1>3 DEF SenderState, NoSender
<1>5. sender' = [sender EXCEPT ![s] = new] /\ sender'[s] = new
  BY <1>1 DEF MailTypes
<1> QED BY <1>1, <1>2, <1>4, <1>5 DEF SameErrand

\* A round of the request, as the queue sees it; and the email in the inbox.
RoundEnds(s) ==
    /\ SameErrand(s) /\ sender[s].step = "send" /\ sender'[s].about = sender[s].about
    /\ log' = log

Posted(s) ==
    /\ inbox' = [inbox EXCEPT ![sender[s].row] = @ + 1]
    /\ file' = IF CarriesFile(sender[s].row) /\ Newer(Shown(s)) THEN Shown(s) ELSE file

\* A round keeps the email and what was read.
LEMMA GoesEffect ==
    ASSUME MailTypes, NEW s \in Senders, ~Idle(s), NEW to, Goes(s, to), to.call \in Rounds,
           to.step \in {"send", "accepted", "fail", "retry"}
    PROVE  SameErrand(s) /\ sender'[s].step = to.step /\ sender'[s].about = sender[s].about
<1> DEFINE new == [sender[s] EXCEPT !.step = to.step, !.call = to.call]
<1>1. sender[s] \in SenderState \ {NoSender}
  BY NotIdle
<1>2. /\ new \in SenderState \ {NoSender} /\ new.step = to.step /\ new.about = sender[s].about
      /\ new.row = sender[s].row /\ new.since = sender[s].since
  BY <1>1 DEF SenderState, NoSender
<1>3. sender' = [sender EXCEPT ![s] = new] /\ sender'[s] = new
  BY DEF MailTypes, Goes
<1> QED BY <1>2, <1>3 DEF SameErrand

\* An email arrives with the answer, or unknown to the sender; or it does not arrive.
LEMMA SendEffect ==
    ASSUME MailTypes, NEW s \in Senders, Send(s)
    PROVE  /\ RoundEnds(s)
           /\ \/ sender'[s].step = "accepted" /\ Posted(s) /\ untold' = untold
              \/ sender'[s].step \in {"send", "fail", "retry"} /\ UNCHANGED <<inbox, untold, file>>
              \/ /\ sender'[s].step \in {"send", "fail", "retry"} /\ Posted(s)
                 /\ untold' = [untold EXCEPT ![sender[s].row] = @ + 1]
<1>1. ~Idle(s) /\ sender[s].step = "send" /\ sender[s].call \in Rounds
  BY NotIdle DEF Send
<1>2. CASE Accepted(s)
  <2>1. Ends("accepted").step = "accepted" /\ Ends("accepted").call \in Rounds
    BY DEF Ends, FirstRound, Rounds
  <2> QED BY <1>1, <1>2, <2>1, GoesEffect DEF Accepted, Reaches, Posted, RoundEnds
<1>3. CASE Refused(s)
  <2>1. PICK f \in Failures(sender[s].call) : Goes(s, f.to)
    BY <1>3 DEF Refused
  <2>2. f.to.step \in {"send", "fail", "retry"} /\ f.to.call \in Rounds
    BY <1>1, RoundsEnd DEF Outcomes
  <2> QED BY <1>1, <1>3, <2>1, <2>2, GoesEffect DEF Refused, RoundEnds
<1>4. CASE AnswerLost(s)
  <2>1. PICK to \in LostAnswers(sender[s].call) : Goes(s, to)
    BY <1>4 DEF AnswerLost
  <2>2. to.step \in {"send", "fail", "retry"} /\ to.call \in Rounds
    BY <1>1, RoundsEnd DEF Outcomes
  <2> QED BY <1>1, <1>4, <2>1, <2>2, GoesEffect DEF AnswerLost, Reaches, Posted, RoundEnds
<1> QED BY <1>2, <1>3, <1>4 DEF Send

\* What is written down of an outcome.
Written(row, step, old) ==
    /\ row \in Row /\ row.attempts = old.attempts /\ row.leased = old.leased
    /\ \/ step = "accepted" /\ row.status = "sent"
       \/ step = "withdraw" /\ row.status = "cancelled"
       \/ step = "retry" /\ row.status = old.status
       \/ step \in {"fail", "retry"} /\ row.status = "failed"

\* The four ways to write it down (communications.ts:266-330) do that.
LEMMA OutcomeIsWritten ==
    ASSUME NEW t \in Templates, log[t] \in Row, hour \in Nat,
           NEW step \in {"accepted", "withdraw", "fail", "retry"}
    PROVE  Written(Outcome(step, t), step, log[t])
<1> DEFINE old == log[t]
<1>1. /\ [old EXCEPT !.at = hour] \in Row /\ [old EXCEPT !.at = hour].attempts = old.attempts
      /\ [old EXCEPT !.at = hour].leased = old.leased /\ [old EXCEPT !.at = hour].status = old.status
  BY DEF Row
<1>2. \A x \in {"sent", "cancelled", "failed"} :
         /\ [old EXCEPT !.status = x] \in Row /\ [old EXCEPT !.status = x].attempts = old.attempts
         /\ [old EXCEPT !.status = x].leased = old.leased /\ [old EXCEPT !.status = x].status = x
  BY DEF Row
<1>3. \/ step = "accepted" /\ Outcome(step, t) = [old EXCEPT !.status = "sent"]
      \/ step = "withdraw" /\ Outcome(step, t) = [old EXCEPT !.status = "cancelled"]
      \/ step = "retry" /\ Outcome(step, t) = [old EXCEPT !.at = hour]
      \/ step \in {"fail", "retry"} /\ Outcome(step, t) = [old EXCEPT !.status = "failed"]
  <2> HIDE DEF old
  <2>1. CASE step = "accepted"
    BY <2>1 DEF Outcome, old
  <2>2. CASE step = "withdraw"
    BY <2>2 DEF Outcome, old
  <2>3. CASE step = "retry" /\ MayRetry(t)
    BY <2>3 DEF Outcome, old
  <2>4. CASE step = "fail"
    BY <2>4 DEF Outcome, old
  <2>5. CASE step = "retry" /\ ~MayRetry(t)
    BY <2>5 DEF Outcome, old
  <2> QED BY <2>1, <2>2, <2>3, <2>4, <2>5
<1> HIDE DEF old
<1>4. CASE step = "accepted" /\ Outcome(step, t) = [old EXCEPT !.status = "sent"]
  BY <1>2, <1>4 DEF Written, old
<1>5. CASE step = "withdraw" /\ Outcome(step, t) = [old EXCEPT !.status = "cancelled"]
  BY <1>2, <1>5 DEF Written, old
<1>6. CASE step = "retry" /\ Outcome(step, t) = [old EXCEPT !.at = hour]
  BY <1>1, <1>6 DEF Written, old
<1>7. CASE step \in {"fail", "retry"} /\ Outcome(step, t) = [old EXCEPT !.status = "failed"]
  BY <1>2, <1>7 DEF Written, old
<1> QED BY <1>3, <1>4, <1>5, <1>6, <1>7

\* Writing down the outcome frees the sender.
LEMMA RecordEffect ==
    ASSUME RowsOK, MailTypes, NEW s \in Senders, RecordSending(s)
    PROVE  /\ ~Idle(s) /\ sender[s].step \in {"accepted", "withdraw", "fail", "retry"}
           /\ sender' = [sender EXCEPT ![s] = NoSender]
           /\ log' = [log EXCEPT ![sender[s].row] = log'[sender[s].row]]
           /\ Written(log'[sender[s].row], sender[s].step, log[sender[s].row])
           /\ UNCHANGED <<inbox, untold, file>>
<1> DEFINE t == sender[s].row
           step == sender[s].step
<1>1. /\ ~Idle(s) /\ step \in {"accepted", "withdraw", "fail", "retry"}
      /\ sender' = [sender EXCEPT ![s] = NoSender] /\ UNCHANGED <<inbox, untold, file>>
      /\ log' = [log EXCEPT ![t] = Outcome(step, t)]
  BY DEF RecordSending
<1>2. log[t] \in Row /\ t \in Templates /\ hour \in Nat
  BY <1>1, NotIdle, InstantAssumption DEF MailTypes, RowsOK
<1>3. log'[t] = Outcome(step, t) /\ log' = [log EXCEPT ![t] = log'[t]]
  BY <1>1, <1>2 DEF MailTypes
<1> HIDE DEF t, step
<1>4. Written(Outcome(step, t), step, log[t])
  BY <1>1, <1>2, OutcomeIsWritten
<1> QED BY <1>1, <1>3, <1>4 DEF t, step

\* Every step of the send job, and of the form sending its own.
LEMMA SendingCases ==
    ASSUME Sending \/ Acknowledging
    PROVE  \/ \E s \in Senders, t \in Templates : Take(s, t)
           \/ \E s \in Senders : Load(s)
           \/ \E s \in Senders : AskWhetherAhead(s)
           \/ \E s \in Senders : Send(s)
           \/ \E s \in Senders : RecordSending(s)
           \/ \E s \in Senders : SenderCrashes(s)
           \/ \E t \in Templates : LeaseEnds(t)
           \/ QueueChooseNewTime
           \/ UNCHANGED log /\ MailStays
BY TemplateNames
   DEF Sending, Acknowledging, SenderStep, Claim, LinkRunsOut, TokenLapses, SendAcknowledgementNow,
       mailVars, mailButToken, MailStays

\* At the start nothing was sent.
LEMMA InitMail == Init => MailTypes
<1> SUFFICES ASSUME Init PROVE MailTypes
  OBVIOUS
<1>1. RowsOK
  BY InitBase DEF BaseInv
<1>2. NoRow \in Row
  BY DEF NoRow, Row
<1>3. log \in [Templates -> Row]
  <2>1. CASE log = [t \in Templates |-> NoRow]
    BY <1>2, <2>1
  <2>2. CASE log = QueueForBooking([t \in Templates |-> NoRow], MessagesOnConfirmation(FirstTime, 0))
    <3> DEFINE due == MessagesOnConfirmation(FirstTime, 0)
    <3>1. \A t \in DOMAIN due \cap Templates : due[t] \in Nat
      BY ConfirmationRows, Firsts
    <3> HIDE DEF due
    <3>2. [t \in Templates |-> NoRow] \in [Templates -> Row]
      BY <1>2
    <3> QED BY <2>2, <3>1, <3>2, QueueRows DEF due
  <2> QED BY <2>1, <2>2 DEF Init, CareInit, Unsettled, Waiting, Confirmed
<1>4. customer \in CustomerRow
  <2>1. Here("consent") \in BOOLEAN
    BY DEF Here
  <2> QED BY <2>1, Zenon DEF Init, CareInit, CustomerRow
<1>5. form \in [Tabs -> Form]
  BY InstantAssumption DEF Init, NoticeInit, BlankForm, Form
<1>6. sender \in [Senders -> SenderState] /\ inbox \in [Templates -> Nat] /\ untold \in [Templates -> Nat]
  BY DEF Init, MailInit, SenderState
<1>7. file \in [sequence : 0 .. MovesPerBooking, time : Times \cup {None}]
  BY <1>1, InstantAssumption DEF Init, MailInit, RowsOK, BookingRow
<1> QED BY <1>3, <1>4, <1>5, <1>6, <1>7 DEF MailTypes

\* A customer consents, confirms and unsubscribes.
LEMMA CustomerStep == ASSUME MailTypes, Next PROVE customer' \in CustomerRow
<1> USE DEF MailTypes
<1>1. CASE UNCHANGED customer
  BY <1>1
<1>2. CASE \E box \in BOOLEAN : PromoteIntake(box)
  <2>1. PICK box \in BOOLEAN : PromoteIntake(box)
    BY <1>2
  <2>2. (customer.consents \/ box) \in BOOLEAN
    BY <2>1
  <2>3. customer' = [customer EXCEPT !.consents = customer.consents \/ box]
    BY <2>1 DEF PromoteIntake
  <2> QED BY <2>2, <2>3, Zenon DEF CustomerRow
<1>3. CASE ConfirmMarketing
  BY <1>3 DEF ConfirmMarketing, CustomerRow
<1>4. CASE Unsubscribe
  BY <1>4 DEF Unsubscribe, CustomerRow
<1>5. CASE Living
  BY <1>1, <1>2, <1>3, <1>4, <1>5 DEF Living, CustomerChanges, CaptureLead, AnotherIsConfirmed, StrangerTakes
<1> QED BY <1>1, <1>5 DEF Next, Sending, Moving, Withdrawing, Money, HearingOfThePayment, Watching, Meddling,
       Alerting, Sweeping, Tick, worldVars

\* A page of the form shows, asks, keeps, and says what became of it.
LEMMA FormsStep == ASSUME BaseInv, MailTypes, Next PROVE form' \in [Tabs -> Form]
<1> USE DEF MailTypes
<1>1. CASE UNCHANGED form
  BY <1>1
<1>2. DeskState \in {"refunded", "declined", "reviewing"} /\ hour \in 0 .. LastHour
  BY DEF DeskState, BaseInv, RowsOK
<1>3. 0 \in 0 .. LastHour
  BY InstantAssumption
<1>4. CASE \E p \in Tabs, f \in Form : form' = [form EXCEPT ![p] = f]
  BY <1>4
<1>5. CASE \E p \in Tabs : LookUp(p)
  <2>1. PICK p \in Tabs : LookUp(p)
    BY <1>5
  <2>2. \A x \in {"shown", DeskState} : [form[p] EXCEPT !.step = x] \in Form
    BY <1>2 DEF Form
  <2> QED BY <1>4, <2>1, <2>2 DEF LookUp
<1>6. CASE \E p \in Tabs : AskForCountry(p)
  BY <1>2, <1>4, <1>6 DEF AskForCountry, Form
<1>7. CASE \E p \in Tabs : KeepNotice(p)
  <2>1. PICK p \in Tabs : KeepNotice(p)
    BY <1>7
  <2>2. BlankForm \in Form /\ \A x \in {"kept", DeskState} : [BlankForm EXCEPT !.step = x] \in Form
    BY <1>2, <1>3 DEF Form, BlankForm
  <2> QED BY <1>4, <2>1, <2>2 DEF KeepNotice
<1>8. CASE \E p \in Tabs : LeaveForm(p)
  BY <1>3, <1>4, <1>8 DEF LeaveForm, BlankForm, Form
<1>9. CASE \E p \in Tabs, s \in Senders : SendAcknowledgementNow(p, s)
  <2>1. PICK p \in Tabs : form' = [form EXCEPT ![p].step = "reviewing"]
    BY <1>9 DEF SendAcknowledgementNow
  <2>2. [form[p] EXCEPT !.step = "reviewing"] \in Form
    BY DEF Form
  <2> QED BY <1>4, <2>1, <2>2
<1>10. CASE Withdrawing
  BY <1>1, <1>5, <1>6, <1>7, <1>8, <1>9, <1>10 DEF Withdrawing, WithdrawalStep, TellDesk, Decline
<1> QED BY <1>1, <1>10 DEF Next, Sending, Moving, Money, HearingOfThePayment, Watching, Meddling,
       Alerting, Sweeping, Living, Tick, noticeVars

\* So the queue, the senders and the pages keep their shape.
LEMMA MailTypesStep == ASSUME BaseInv, MailTypes, Next PROVE MailTypes'
<1>1. customer' \in CustomerRow /\ form' \in [Tabs -> Form]
  BY CustomerStep, FormsStep
<1>2. CASE LogMove /\ MailStays
  BY <1>1, <1>2 DEF LogMove, MailStays, MailTypes
<1>3. CASE UNCHANGED log /\ MailStays
  BY <1>1, <1>3 DEF MailStays, MailTypes
<1>4. ASSUME NEW s \in Senders, NEW t \in Templates, Take(s, t) PROVE MailTypes'
  BY <1>1, <1>4, TakeEffect DEF BaseInv, MailTypes
<1>5. ASSUME NEW s \in Senders, Load(s) \/ AskWhetherAhead(s) PROVE MailTypes'
  BY <1>1, <1>5, LoadEffect, AskEffect DEF BaseInv, MailTypes, SameErrand
<1>6. ASSUME NEW s \in Senders, Send(s) PROVE MailTypes'
  <2>1. RoundEnds(s) /\ sender[s].row \in Templates /\ sender[s].about \in About
    BY <1>6, SendEffect, NotIdle DEF Send
  <2>2. Shown(s) \in [sequence : 0 .. MovesPerBooking, time : Times \cup {None}]
    BY <2>1 DEF Shown, About
  <2>3. sender' \in [Senders -> SenderState] /\ log' = log
    BY <2>1 DEF RoundEnds, SameErrand, MailTypes
  <2>4. inbox' \in [Templates -> Nat] /\ untold' \in [Templates -> Nat]
    BY <1>6, <2>1, SendEffect DEF Posted, MailTypes
  <2>5. file' \in [sequence : 0 .. MovesPerBooking, time : Times \cup {None}]
    BY <1>6, <2>2, SendEffect DEF Posted, MailTypes
  <2> QED BY <1>1, <2>3, <2>4, <2>5 DEF MailTypes
<1>7. ASSUME NEW s \in Senders, RecordSending(s) PROVE MailTypes'
  <2>1. log' \in [Templates -> Row] /\ sender' \in [Senders -> SenderState]
    BY <1>7, RecordEffect DEF BaseInv, MailTypes, Written, SenderState
  <2> QED BY <1>1, <1>7, <2>1 DEF RecordSending, MailTypes
<1>8. ASSUME NEW s \in Senders, SenderCrashes(s) PROVE MailTypes'
  <2>1. sender' \in [Senders -> SenderState]
    BY <1>8 DEF SenderCrashes, MailTypes, SenderState
  <2>2. untold' \in [Templates -> Nat]
    <3>1. sender[s].row \in Templates
      BY <1>8, NotIdle DEF SenderCrashes
    <3> QED BY <1>8, <3>1 DEF SenderCrashes, MailTypes
  <2> QED BY <1>1, <1>8, <2>1, <2>2 DEF SenderCrashes, MailTypes
<1>9. ASSUME NEW t \in Templates, LeaseEnds(t) PROVE MailTypes'
  <2>1. [log[t] EXCEPT !.leased = FALSE] \in Row
    BY DEF MailTypes, Row
  <2>2. log' = [log EXCEPT ![t] = [log[t] EXCEPT !.leased = FALSE]]
    BY <1>9 DEF LeaseEnds, MailTypes
  <2> QED BY <1>1, <1>9, <2>1, <2>2 DEF LeaseEnds, MailTypes, mailVars
<1>10. CASE QueueChooseNewTime
  <2>1. [Queued(hour) EXCEPT !.leased = log["choose_new_time"].leased] \in Row
    <3>1. hour \in Nat /\ log["choose_new_time"] \in Row
      BY InstantAssumption, TemplateNames DEF BaseInv, RowsOK, MailTypes
    <3> QED BY <3>1 DEF Queued, NoRow, Row
  <2> QED BY <1>1, <1>10, <2>1 DEF QueueChooseNewTime, MailTypes
<1> QED BY <1>2, <1>3, <1>4, <1>5, <1>6, <1>7, <1>8, <1>9, <1>10, OthersMail, SendingCases

(***************************************************************************)
(* How often an email arrives.                                             *)
(***************************************************************************)

\* A sender at work on an email; and an email the service is known to have taken.
On(s, t) == ~Idle(s) /\ sender[s].row = t
Told(t) == log[t].status = "sent" \/ \E s \in Senders : On(s, t) /\ sender[s].step = "accepted"

\* The row under a sender's hands: leased, tried, and not put back in the queue.
WorkedRow(t) ==
    /\ log[t].status \in {"queued", "cancelled"} /\ log[t].leased /\ log[t].attempts > 0
    /\ t = "choose_new_time" /\ log[t].status = "cancelled" => booking.status = "cancelled"

\* One sender an email, and the customer's inbox to the letter: an email is there as often
\* as it went unrecorded, and once more when it is known to have gone.
MailInv ==
    /\ \A s, k \in Senders, t \in Templates : On(s, t) /\ On(k, t) => s = k
    /\ \A s \in Senders, t \in Templates : On(s, t) => WorkedRow(t)
    /\ \A t \in Templates : inbox[t] = untold[t] + (IF Told(t) THEN 1 ELSE 0)

\* At the start the inbox is empty.
LEMMA InitMailInv == Init => MailInv
<1> SUFFICES ASSUME Init PROVE MailInv
  OBVIOUS
<1>1. \A s \in Senders : Idle(s)
  BY DEF Init, MailInit, Idle
<1>2. \A t \in Templates : log[t] = NoRow \/ \E at : log[t] = Queued(at)
  <2>1. CASE log = [t \in Templates |-> NoRow]
    BY <2>1
  <2>2. CASE log = QueueForBooking([t \in Templates |-> NoRow], MessagesOnConfirmation(FirstTime, 0))
    BY <2>2 DEF QueueForBooking
  <2> QED BY <2>1, <2>2 DEF Init, CareInit, Unsettled, Waiting, Confirmed
<1>3. \A t \in Templates : log[t].status # "sent"
  BY <1>2, RowParts DEF NoRow
<1>4. \A t \in Templates : inbox[t] = 0 /\ untold[t] = 0
  BY DEF Init, MailInit
<1> QED BY <1>1, <1>3, <1>4 DEF MailInv, On, Told

\* A booking called off stays so.
LEMMA BookingStaysCancelled == ASSUME BaseInv, Next, booking.status = "cancelled" PROVE booking'.status = "cancelled"
BY BookingMoves DEF BookingMove, BaseInv, RowsOK, BookingRow, BookingCancelled, BookingMoved, BookingFlagCleared,
       BookingScheduled, BookingConfirmed, BookingReturned, BookingAdopted, BookingMade, Ongoing

\* A row under a sender's hands was not queued and cannot be queued; it may be withdrawn.
LEMMA LogMoveMail == ASSUME BaseInv, MailTypes, MailInv, Next, LogMove, MailStays PROVE MailInv'
<1>1. \A s \in Senders, t \in Templates : On(s, t)' <=> On(s, t)
  BY DEF On, Idle, MailStays
<1>2. ASSUME NEW t \in Templates
      PROVE  log'[t].status = "sent" <=> log[t].status = "sent"
  <2>1. log[t] \in Row
    BY DEF MailTypes
  <2>2. CASE LogQueued(t)
    BY <2>2, RowParts DEF LogQueued
  <2>3. CASE LogWithdrawn(t)
    BY <2>1, <2>3 DEF LogWithdrawn, Row
  <2>4. CASE LogRetimed(t)
    BY <2>1, <2>4 DEF LogRetimed, Row
  <2> QED BY <2>2, <2>3, <2>4 DEF LogMove
<1>3. \A t \in Templates : Told(t)' <=> Told(t)
  BY <1>1, <1>2 DEF Told, MailStays
<1>4. ASSUME NEW s \in Senders, NEW t \in Templates, On(s, t) PROVE WorkedRow(t)'
  <2>1. log[t] \in Row /\ WorkedRow(t)
    BY <1>4 DEF MailTypes, MailInv
  <2>2. CASE log'[t] = log[t]
    BY <2>1, <2>2, BookingStaysCancelled DEF WorkedRow
  <2>3. CASE LogQueued(t)
    BY <2>1, <2>3 DEF LogQueued, WorkedRow
  <2>4. CASE LogWithdrawn(t)
    <3>1. log'[t].status = "cancelled" /\ log'[t].leased = log[t].leased /\ log'[t].attempts = log[t].attempts
      BY <2>1, <2>4 DEF LogWithdrawn, Row
    <3> QED BY <2>1, <2>4, <3>1 DEF WorkedRow, LogMove
  <2>5. CASE LogRetimed(t)
    <3>1. log'[t].status = log[t].status /\ log'[t].leased = log[t].leased /\ log'[t].attempts = log[t].attempts
          /\ log[t].status = "queued"
      BY <2>1, <2>5 DEF LogRetimed, Row
    <3> QED BY <2>1, <3>1 DEF WorkedRow
  <2> QED BY <2>2, <2>3, <2>4, <2>5 DEF LogMove
<1>5. \A t \in Templates : inbox'[t] = untold'[t] + (IF Told(t)' THEN 1 ELSE 0)
  BY <1>3 DEF MailInv, MailStays
<1> QED BY <1>1, <1>4, <1>5 DEF MailInv

\* A claim finds nobody at work on its row, for a lease outlives the send it was taken for;
\* and each of the ways a send ends keeps the count.
LEMMA SendingMail ==
    ASSUME BaseInv, MailTypes, MailInv, Next, Sending \/ Acknowledging, booking' = booking
    PROVE  MailInv'
<1> USE DEF MailTypes
<1>0. \A s \in Senders : ~Idle(s) => On(s, sender[s].row) /\ sender[s].row \in Templates
  BY NotIdle DEF On
<1>1. ASSUME NEW s \in Senders, NEW t \in Templates, Take(s, t) PROVE MailInv'
  <2>1. /\ Idle(s) /\ Claimable(t) /\ log' = [log EXCEPT ![t] = log'[t]]
        /\ log'[t].status = "queued" /\ log'[t].leased /\ log'[t].attempts = log[t].attempts + 1
        /\ sender' = [sender EXCEPT ![s] = sender'[s]] /\ sender'[s] # NoSender
        /\ sender'[s].step = "claimed" /\ sender'[s].row = t /\ UNCHANGED <<inbox, untold>>
    BY <1>1, TakeEffect DEF BaseInv
  <2>2. \A k \in Senders : ~On(k, t)
    BY <2>1 DEF MailInv, WorkedRow, Claimable
  <2>3. \A k \in Senders : k # s => sender'[k] = sender[k]
    BY <2>1
  <2>4. \A u \in Templates : u # t => log'[u] = log[u]
    BY <2>1
  <2>5. \A k \in Senders, u \in Templates : On(k, u)' <=> IF k = s THEN u = t ELSE On(k, u)
    BY <2>1, <2>3 DEF On, Idle
  <2>6. \A k, j \in Senders, u \in Templates : On(k, u)' /\ On(j, u)' => k = j
    BY <2>2, <2>5 DEF MailInv
  <2>7. log[t].status = "queued" /\ log[t].attempts + 1 > 0
    BY <2>1 DEF Claimable, Row
  <2>8. WorkedRow(t)'
    BY <2>1, <2>7 DEF WorkedRow
  <2>9. \A u \in Templates : u # t /\ WorkedRow(u) => WorkedRow(u)'
    BY <2>4 DEF WorkedRow
  <2>10. \A k \in Senders, u \in Templates : On(k, u)' => WorkedRow(u)'
    BY <2>2, <2>5, <2>8, <2>9 DEF MailInv
  <2>11. ASSUME NEW u \in Templates PROVE Told(u)' <=> Told(u)
    <3>1. log'[u].status = "sent" <=> log[u].status = "sent"
      BY <2>1, <2>4, <2>7
    <3>2. \A k \in Senders : On(k, u)' /\ sender'[k].step = "accepted" <=> On(k, u) /\ sender[k].step = "accepted"
      BY <2>1, <2>3, <2>5 DEF On
    <3> QED BY <3>1, <3>2 DEF Told
  <2> QED BY <2>1, <2>6, <2>10, <2>11 DEF MailInv
<1>2. ASSUME NEW s \in Senders, Load(s) \/ AskWhetherAhead(s) PROVE MailInv'
  <2>1. SameErrand(s) /\ UNCHANGED <<log, inbox, untold>> /\ sender[s].step # "accepted" /\ sender'[s].step # "accepted"
    BY <1>2, LoadEffect, AskEffect DEF BaseInv
  <2>2. \A k \in Senders : k # s => sender'[k] = sender[k]
    BY <2>1 DEF SameErrand
  <2>3. \A k \in Senders, u \in Templates : On(k, u)' <=> On(k, u)
    BY <2>1, <2>2 DEF On, Idle, SameErrand
  <2>4. \A u \in Templates : Told(u)' <=> Told(u)
    BY <2>1, <2>2, <2>3 DEF Told
  <2> QED BY <2>1, <2>3, <2>4 DEF MailInv, WorkedRow
<1>3. ASSUME NEW s \in Senders, Send(s) PROVE MailInv'
  <2>0. PICK t \in Templates : t = sender[s].row
    BY <1>0, <1>3 DEF Send
  <2>1. RoundEnds(s) /\ On(s, t)
    BY <1>3, <2>0, SendEffect DEF Send, On
  <2>2. \A k \in Senders : k # s => sender'[k] = sender[k]
    BY <2>1 DEF RoundEnds, SameErrand
  <2>3. \A k \in Senders, u \in Templates : On(k, u)' <=> On(k, u)
    BY <2>1, <2>2 DEF On, Idle, RoundEnds, SameErrand
  <2>4. log' = log /\ sender[s].step = "send" /\ log[t].status # "sent"
    BY <2>1 DEF RoundEnds, MailInv, WorkedRow
  <2>5. \A k \in Senders : On(k, t) => k = s
    BY <2>1 DEF MailInv
  <2>6. ~Told(t) /\ (Told(t)' <=> sender'[s].step = "accepted")
    BY <2>1, <2>3, <2>4, <2>5 DEF Told
  <2>7. \A u \in Templates : u # t => (Told(u)' <=> Told(u))
    BY <2>1, <2>2, <2>3, <2>4 DEF Told, On
  <2>8. \A u \in Templates : u # t => inbox'[u] = inbox[u] /\ untold'[u] = untold[u]
    BY <1>3, <2>0, SendEffect DEF Posted
  <2>9. inbox[t] = untold[t]
    BY <2>1, <2>6 DEF MailInv
  <2>10. inbox'[t] = untold'[t] + (IF sender'[s].step = "accepted" THEN 1 ELSE 0)
    BY <1>3, <2>0, <2>9, SendEffect DEF Posted
  <2>11. \A u \in Templates : inbox'[u] = untold'[u] + (IF Told(u)' THEN 1 ELSE 0)
    BY <2>6, <2>7, <2>8, <2>10 DEF MailInv
  <2> QED BY <2>3, <2>4, <2>11 DEF MailInv, WorkedRow
<1>4. ASSUME NEW s \in Senders, RecordSending(s) PROVE MailInv'
  <2>0. PICK t \in Templates : t = sender[s].row
    BY <1>0, <1>4, RecordEffect DEF BaseInv
  <2>1. /\ On(s, t) /\ sender' = [sender EXCEPT ![s] = NoSender]
        /\ log' = [log EXCEPT ![t] = log'[t]] /\ Written(log'[t], sender[s].step, log[t])
        /\ UNCHANGED <<inbox, untold>>
    BY <1>4, <2>0, RecordEffect DEF BaseInv, On
  <2>2. \A k \in Senders : k # s => sender'[k] = sender[k]
    BY <2>1
  <2>3. \A k \in Senders, u \in Templates : On(k, u)' <=> On(k, u) /\ k # s
    BY <2>1, <2>2 DEF On, Idle
  <2>4. \A k \in Senders : ~On(k, t)'
    BY <2>1, <2>3 DEF MailInv
  <2>5. \A u \in Templates : u # t => log'[u] = log[u]
    BY <2>1
  <2>6. log[t].status # "sent"
    BY <2>1 DEF MailInv, WorkedRow
  <2>7. Told(t)' <=> Told(t)
    <3>1. Told(t) <=> sender[s].step = "accepted"
      BY <2>1, <2>6 DEF Told, MailInv
    <3>2. Told(t)' <=> log'[t].status = "sent"
      BY <2>4 DEF Told
    <3> QED BY <2>1, <2>6, <3>1, <3>2 DEF Written
  <2>8. \A u \in Templates : u # t => (Told(u)' <=> Told(u))
    BY <2>1, <2>2, <2>3, <2>5 DEF Told, On
  <2>9. \A k \in Senders, u \in Templates : On(k, u)' => u # t /\ WorkedRow(u)'
    BY <2>3, <2>4, <2>5 DEF MailInv, WorkedRow
  <2> QED BY <2>1, <2>3, <2>7, <2>8, <2>9 DEF MailInv
<1>5. ASSUME NEW s \in Senders, SenderCrashes(s) PROVE MailInv'
  <2>0. PICK t \in Templates : t = sender[s].row
    BY <1>0, <1>5 DEF SenderCrashes
  <2>1. /\ On(s, t) /\ sender' = [sender EXCEPT ![s] = NoSender]
        /\ UNCHANGED <<log, inbox>>
        /\ untold' = IF sender[s].step = "accepted" THEN [untold EXCEPT ![t] = @ + 1] ELSE untold
    BY <1>5, <2>0 DEF SenderCrashes, On
  <2>2. \A k \in Senders : k # s => sender'[k] = sender[k]
    BY <2>1
  <2>3. \A k \in Senders, u \in Templates : On(k, u)' <=> On(k, u) /\ k # s
    BY <2>1, <2>2 DEF On, Idle
  <2>4. log[t].status # "sent" /\ \A k \in Senders : ~On(k, t)'
    BY <2>1, <2>3 DEF MailInv, WorkedRow
  <2>5. ~Told(t)' /\ (Told(t) <=> sender[s].step = "accepted")
    BY <2>1, <2>4 DEF Told, MailInv
  <2>6. \A u \in Templates : u # t => (Told(u)' <=> Told(u)) /\ untold'[u] = untold[u]
    BY <2>1, <2>2, <2>3 DEF Told, On
  <2>7. inbox'[t] = untold'[t]
    BY <2>1, <2>5 DEF MailInv
  <2>8. \A u \in Templates : inbox'[u] = untold'[u] + (IF Told(u)' THEN 1 ELSE 0)
    BY <2>1, <2>5, <2>6, <2>7 DEF MailInv
  <2> QED BY <2>1, <2>3, <2>8 DEF MailInv, WorkedRow
<1>6. ASSUME NEW t \in Templates, LeaseEnds(t) PROVE MailInv'
  <2>1. UNCHANGED <<sender, inbox, untold>> /\ ~Working(t) /\ log' = [log EXCEPT ![t].leased = FALSE]
    BY <1>6 DEF LeaseEnds, mailVars
  <2>2. \A s \in Senders, u \in Templates : (On(s, u)' <=> On(s, u)) /\ ~On(s, t)
    BY <2>1 DEF On, Idle, Working
  <2>3. \A u \in Templates : u # t => log'[u] = log[u]
    BY <2>1
  <2>4. \A u \in Templates : log'[u].status = log[u].status
    BY <2>1 DEF Row
  <2>5. \A u \in Templates : Told(u)' <=> Told(u)
    BY <2>1, <2>2, <2>4 DEF Told
  <2> QED BY <2>1, <2>2, <2>3, <2>5 DEF MailInv, WorkedRow
<1>7. CASE QueueChooseNewTime
  <2> DEFINE t == "choose_new_time"
  <2>1. /\ t \in Templates /\ sender' = sender
        /\ log' = [log EXCEPT ![t] = [Queued(hour) EXCEPT !.leased = log[t].leased]]
        /\ inbox' = [inbox EXCEPT ![t] = 0] /\ untold' = [untold EXCEPT ![t] = 0]
        /\ booking.status = "awaiting_schedule"
        /\ log[t].status = "none" \/ log[t].status # "queued"
    BY <1>7, TemplateNames DEF QueueChooseNewTime
  <2>2. \A s \in Senders : ~On(s, t)
    BY <2>1 DEF MailInv, WorkedRow
  <2>3. \A s \in Senders, u \in Templates : On(s, u)' <=> On(s, u)
    BY <2>1 DEF On, Idle
  <2>4. \A u \in Templates : u # t => log'[u] = log[u] /\ inbox'[u] = inbox[u] /\ untold'[u] = untold[u]
    BY <2>1
  <2>5. log'[t].status = "queued" /\ inbox'[t] = 0 /\ untold'[t] = 0
    BY <2>1 DEF Queued, NoRow
  <2>6. ~Told(t)' /\ \A u \in Templates : u # t => (Told(u)' <=> Told(u))
    BY <2>1, <2>2, <2>3, <2>4, <2>5 DEF Told
  <2>7. \A u \in Templates : inbox'[u] = untold'[u] + (IF Told(u)' THEN 1 ELSE 0)
    BY <2>4, <2>5, <2>6 DEF MailInv
  <2> QED BY <2>1, <2>2, <2>3, <2>4, <2>7 DEF MailInv, WorkedRow
<1>8. CASE UNCHANGED log /\ MailStays
  BY <1>8 DEF MailInv, MailStays, WorkedRow, Told, On, Idle
<1> QED BY <1>1, <1>2, <1>3, <1>4, <1>5, <1>6, <1>7, <1>8, SendingCases

\* Every step keeps the count.
LEMMA MailStep == BaseInv /\ MailTypes /\ MailInv /\ [Next]_vars => MailTypes' /\ MailInv'
<1>1. ASSUME BaseInv, MailTypes, MailInv, Next PROVE MailTypes' /\ MailInv'
  BY <1>1, MailTypesStep, OthersMail, LogMoveMail, SendingMail
<1>2. MailTypes /\ MailInv /\ UNCHANGED vars => MailTypes' /\ MailInv'
  BY DEF vars, careVars, mailVars, noticeVars, MailTypes, MailInv, WorkedRow, Told, On, Idle
<1> QED BY <1>1, <1>2

\* So the count is right in every reachable state.
LEMMA MailAlways == Spec => [](MailTypes /\ MailInv)
BY InitMail, InitMailInv, MailStep, BaseAlways, PTL DEF Spec

\* The customer gets a second copy of an email only when a sender sent one and did not live,
\* or was not told, to write it down (deliver.ts:96).
THEOREM CopiesAlwaysExplained == Spec => []CopiesAreExplained
<1>1. MailTypes /\ MailInv => CopiesAreExplained
  BY DEF MailTypes, MailInv, CopiesAreExplained
<1> QED BY <1>1, MailAlways, PTL

\* A row marked sent went, and one withdrawn or given up on did not, unless the service took
\* it and nobody was told (communications.ts:266-330).
THEOREM LogAlwaysTellsTheTruth == Spec => []LogTellsTheTruth
<1>1. MailTypes /\ MailInv => LogTellsTheTruth
  BY DEF MailTypes, MailInv, LogTellsTheTruth, Told, On, Working
<1> QED BY <1>1, MailAlways, PTL

(***************************************************************************)
(* The file in the customer's calendar.                                    *)
(***************************************************************************)

\* A booking that was moved; and the email that says so.
Moved == booking.moves > 0
Resched == "reschedule_confirmation"

\* What a sender read of a booking once moved stays true, and so does the file it sent.
FileInv ==
    /\ Moved => booking.status \in {"confirmed", "cancelled"}
    /\ log[Resched].status # "none" => Moved
    /\ inbox[Resched] > 0 => file.sequence > 0
    /\ file.sequence > 0 => Moved /\ file.time = booking.time
    /\ \A s \in Senders : ~Idle(s) =>
         /\ sender[s].about.moves > 0 => Moved /\ sender[s].about.time = booking.time
         /\ sender[s].row = Resched => sender[s].about.moves > 0

\* At the start nothing was moved.
LEMMA InitFile == Init => FileInv
<1> SUFFICES ASSUME Init PROVE FileInv
  OBVIOUS
<1>1. \A s \in Senders : Idle(s)
  BY DEF Init, MailInit, Idle
<1>2. booking.moves = 0
  BY DEF Init, CareInit, Unsettled, Waiting, Confirmed, WaitingBooking, NewBooking
<1>3. log[Resched].status = "none"
  <2>1. Resched \in Templates /\ Resched \notin {"booking_confirmation"} \cup FollowingTheSession
    BY TemplateNames DEF Resched
  <2>2. CASE log = [t \in Templates |-> NoRow]
    BY <2>1, <2>2 DEF NoRow
  <2>3. CASE log = QueueForBooking([t \in Templates |-> NoRow], MessagesOnConfirmation(FirstTime, 0))
    BY <2>1, <2>3, ConfirmationRows, Firsts DEF QueueForBooking, NoRow
  <2> QED BY <2>2, <2>3 DEF Init, CareInit, Unsettled, Waiting, Confirmed
<1>4. inbox[Resched] = 0 /\ file.sequence = 0
  BY TemplateNames DEF Init, MailInit, Resched
<1> QED BY <1>1, <1>2, <1>3, <1>4 DEF FileInv, Moved

\* A booking moved once keeps its time.
LEMMA MovedOnce ==
    ASSUME MovesPerBooking <= 1, BaseInv, Next, Moved => booking.status \in {"confirmed", "cancelled"}
    PROVE  /\ Moved => Moved' /\ booking'.time = booking.time
           /\ Moved' => booking'.status \in {"confirmed", "cancelled"}
           /\ BookingMoved => Moved'
<1>1. BookingMove /\ booking \in BookingRow
  BY BookingMoves DEF BaseInv, RowsOK
<1>2. booking.moves \in Nat /\ booking.moves <= 1
  BY <1>1, InstantAssumption DEF BookingRow
<1>3. CASE BookingMoved
  <2>1. booking'.moves = booking.moves + 1 /\ booking'.status = "confirmed" /\ booking.moves < MovesPerBooking
    BY <1>1, <1>3 DEF BookingMoved, BookingRow
  <2> QED BY <1>2, <2>1, InstantAssumption DEF Moved
<1>4. CASE booking' = booking \/ BookingCancelled
  BY <1>1, <1>4 DEF BookingCancelled, BookingRow, Moved, BookingMoved
<1>5. CASE BookingFlagCleared \/ BookingScheduled \/ BookingConfirmed \/ BookingReturned \/ BookingAdopted
  <2>1. booking'.moves = booking.moves
    <3>1. CASE BookingFlagCleared
      BY <1>1, <3>1 DEF BookingFlagCleared, BookingRow
    <3>2. CASE BookingScheduled
      BY <1>1, <3>2 DEF BookingScheduled, BookingRow
    <3>3. CASE BookingConfirmed
      BY <1>1, <3>3 DEF BookingConfirmed, BookingRow
    <3>4. CASE BookingReturned
      BY <1>1, <3>4 DEF BookingReturned, BookingRow
    <3>5. CASE BookingAdopted
      BY <1>1, <3>5 DEF BookingAdopted, BookingRow
    <3> QED BY <1>5, <3>1, <3>2, <3>3, <3>4, <3>5
  <2>2. BookingMoved => booking'.moves = booking.moves + 1
    BY <1>1 DEF BookingMoved, BookingRow
  <2>3. ~BookingMoved /\ (Moved' <=> Moved)
    BY <1>2, <2>1, <2>2 DEF Moved
  <2>4. CASE BookingFlagCleared \/ BookingAdopted
    BY <1>1, <2>3, <2>4 DEF BookingFlagCleared, BookingAdopted, BookingRow
  <2>5. CASE BookingScheduled \/ BookingReturned \/ BookingConfirmed
    BY <2>3, <2>5 DEF BookingScheduled, BookingReturned, BookingConfirmed
  <2> QED BY <1>5, <2>4, <2>5
<1>6. CASE BookingMade
  BY <1>6 DEF BookingMade, Moved, BookingMoved
<1> QED BY <1>1, <1>3, <1>4, <1>5, <1>6 DEF BookingMove

\* A file read before the move is older than one read after, and does not replace it.
LEMMA FileStep ==
    ASSUME MovesPerBooking <= 1, BaseInv, MailTypes, MailInv, FileInv, Next
    PROVE  FileInv'
<1> USE DEF MailTypes
<1>1. /\ Moved => Moved' /\ booking'.time = booking.time
      /\ Moved' => booking'.status \in {"confirmed", "cancelled"}
      /\ BookingMoved => Moved'
  BY MovedOnce DEF FileInv
<1>0. Resched \in Templates
  BY TemplateNames DEF Resched
<1>2. CASE LogMove /\ MailStays
  <2>1. log'[Resched].status # "none" => Moved'
    <3>1. log[Resched] \in Row
      BY <1>0
    <3>2. CASE log'[Resched] = log[Resched]
      BY <1>1, <3>2 DEF FileInv
    <3>3. CASE LogQueued(Resched)
      BY <1>1, <1>2, <3>3 DEF LogMove, Resched
    <3>4. CASE LogWithdrawn(Resched) \/ LogRetimed(Resched)
      BY <1>1, <3>4 DEF LogWithdrawn, LogRetimed, FileInv
    <3> QED BY <1>0, <1>2, <3>2, <3>3, <3>4 DEF LogMove
  <2> QED BY <1>1, <1>2, <2>1 DEF MailStays, FileInv, Idle
<1>3. CASE (Sending \/ Acknowledging) /\ UNCHANGED <<booking, hour>>
  <2>0. Moved' <=> Moved
    BY <1>3 DEF Moved
  <2>1. ASSUME NEW s \in Senders, NEW t \in Templates, Take(s, t) PROVE FileInv'
    <3>1. /\ log[t].status = "queued" /\ log' = [log EXCEPT ![t] = log'[t]] /\ log'[t].status = "queued"
          /\ sender' = [sender EXCEPT ![s] = sender'[s]]
          /\ sender'[s].row = t /\ sender'[s].about = Context /\ UNCHANGED <<inbox, file>>
      BY <2>1, TakeEffect DEF BaseInv, Claimable
    <3>2. \A k \in Senders : k # s => sender'[k] = sender[k]
      BY <3>1
    <3>3. log'[Resched].status # "none" => Moved
      BY <1>0, <3>1 DEF FileInv
    <3>4. /\ sender'[s].about.moves = booking.moves /\ sender'[s].about.time = booking.time
          /\ sender'[s].row = Resched => Moved
      BY <3>1 DEF Context, FileInv
    <3> QED BY <1>3, <2>0, <3>1, <3>2, <3>3, <3>4 DEF FileInv, Idle, Moved
  <2>2. ASSUME NEW s \in Senders, Load(s) \/ AskWhetherAhead(s) PROVE FileInv'
    <3>1. SameErrand(s) /\ UNCHANGED <<log, inbox, file>> /\ sender'[s].about \in {Context, sender[s].about}
      BY <2>2, LoadEffect, AskEffect DEF BaseInv
    <3>2. \A k \in Senders : k # s => sender'[k] = sender[k]
      BY <3>1 DEF SameErrand
    <3>3. sender[s].row = Resched => Moved
      BY <3>1 DEF SameErrand, FileInv
    <3>4. /\ sender'[s].about.moves > 0 => Moved /\ sender'[s].about.time = booking.time
          /\ sender'[s].row = Resched => sender'[s].about.moves > 0
      <4>1. CASE sender'[s].about = Context
        BY <3>1, <3>3, <4>1 DEF SameErrand, Context, Moved
      <4>2. CASE sender'[s].about = sender[s].about
        BY <3>1, <4>2 DEF SameErrand, FileInv
      <4> QED BY <3>1, <4>1, <4>2
    <3> QED BY <1>3, <2>0, <3>1, <3>2, <3>4 DEF FileInv, Idle
  <2>3. ASSUME NEW s \in Senders, Send(s) PROVE FileInv'
    <3>1. RoundEnds(s) /\ sender[s].about \in About
      BY <2>3, SendEffect, NotIdle DEF Send
    <3>2. \A k \in Senders : k # s => sender'[k] = sender[k]
      BY <3>1 DEF RoundEnds, SameErrand
    <3>3. \A k \in Senders : ~Idle(k)' =>
             ~Idle(k) /\ sender'[k].about = sender[k].about /\ sender'[k].row = sender[k].row
      BY <3>1, <3>2 DEF Idle, RoundEnds, SameErrand
    <3>4. /\ sender[s].about.moves > 0 => Moved /\ sender[s].about.time = booking.time
          /\ sender[s].row = Resched => sender[s].about.moves > 0
      BY <3>1 DEF FileInv, RoundEnds, SameErrand
    <3>5. CASE UNCHANGED <<inbox, file>>
      BY <1>3, <2>0, <3>1, <3>3, <3>5 DEF FileInv, RoundEnds
    <3>6. CASE Posted(s)
      <4>1. Shown(s).sequence = sender[s].about.moves /\ Shown(s).time = sender[s].about.time
            /\ Shown(s).sequence \in Nat /\ file.sequence \in Nat
        BY <3>1, InstantAssumption DEF Shown, About
      <4>2. /\ file' = Shown(s) \/ file' = file
            /\ file.sequence > 0 => file'.sequence > 0
        BY <3>6, <4>1 DEF Posted, Newer
      <4>3. sender[s].row = Resched => file'.sequence > 0
        BY <3>4, <3>6, <4>1 DEF Posted, Newer, CarriesFile, Resched
      <4>4. inbox'[Resched] > 0 => file'.sequence > 0
        <5>1. CASE sender[s].row = Resched
          BY <4>3, <5>1
        <5>2. CASE sender[s].row # Resched
          BY <1>0, <3>6, <4>2, <5>2 DEF Posted, FileInv
        <5> QED BY <5>1, <5>2
      <4>5. file'.sequence > 0 => Moved /\ file'.time = booking.time
        BY <3>4, <4>1, <4>2 DEF FileInv
      <4> QED BY <1>3, <2>0, <3>1, <3>3, <4>4, <4>5 DEF FileInv, RoundEnds
    <3> QED BY <2>3, <3>5, <3>6, SendEffect
  <2>4. ASSUME NEW s \in Senders, RecordSending(s) PROVE FileInv'
    <3>0. PICK t \in Templates : t = sender[s].row
      BY <2>4, RecordEffect, NotIdle DEF BaseInv
    <3>1. /\ On(s, t) /\ sender' = [sender EXCEPT ![s] = NoSender]
          /\ log' = [log EXCEPT ![t] = log'[t]] /\ Written(log'[t], sender[s].step, log[t])
          /\ UNCHANGED <<inbox, file>>
      BY <2>4, <3>0, RecordEffect DEF BaseInv, On
    <3>2. log[t].status # "none"
      BY <3>1 DEF MailInv, WorkedRow
    <3>3. log'[Resched].status # "none" => Moved
      BY <1>0, <3>1, <3>2 DEF FileInv
    <3>4. \A k \in Senders : ~Idle(k)' => ~Idle(k) /\ sender'[k] = sender[k]
      BY <3>1 DEF Idle
    <3> QED BY <1>3, <2>0, <3>1, <3>3, <3>4 DEF FileInv
  <2>5. ASSUME NEW s \in Senders, SenderCrashes(s) PROVE FileInv'
    <3>1. UNCHANGED <<log, inbox, file>> /\ sender' = [sender EXCEPT ![s] = NoSender]
      BY <2>5 DEF SenderCrashes
    <3>2. \A k \in Senders : ~Idle(k)' => ~Idle(k) /\ sender'[k] = sender[k]
      BY <3>1 DEF Idle
    <3> QED BY <1>3, <2>0, <3>1, <3>2 DEF FileInv
  <2>6. ASSUME NEW t \in Templates, LeaseEnds(t) PROVE FileInv'
    <3>1. UNCHANGED <<sender, inbox, file>> /\ log[t].status # "none" /\ log' = [log EXCEPT ![t].leased = FALSE]
      BY <2>6 DEF LeaseEnds, mailVars
    <3>2. log'[Resched].status = log[Resched].status
      BY <1>0, <3>1 DEF Row
    <3> QED BY <1>3, <2>0, <3>1, <3>2 DEF FileInv, Idle
  <2>7. CASE QueueChooseNewTime
    <3>1. /\ UNCHANGED <<sender, file>> /\ log'[Resched] = log[Resched] /\ inbox'[Resched] = inbox[Resched]
      BY <1>0, <2>7, TemplateNames DEF QueueChooseNewTime, Resched
    <3> QED BY <1>3, <2>0, <3>1 DEF FileInv, Idle
  <2>8. CASE UNCHANGED log /\ MailStays
    BY <1>3, <2>0, <2>8 DEF FileInv, MailStays, Idle
  <2> QED BY <1>3, <2>1, <2>2, <2>3, <2>4, <2>5, <2>6, <2>7, <2>8, SendingCases
<1> QED BY <1>2, <1>3, OthersMail

\* Once the move is confirmed by email, the customer's calendar shows the booking's time,
\* whatever order the emails arrived in, for the one move a booking has (deliver.ts:246).
THEOREM CalendarFileAlwaysCurrent == ASSUME MovesPerBooking <= 1 PROVE Spec => []CalendarFileIsCurrent
<1>1. FileInv /\ UNCHANGED vars => FileInv'
  BY DEF vars, careVars, mailVars, FileInv, Moved, Idle
<1>2. BaseInv /\ MailTypes /\ MailInv /\ FileInv /\ [Next]_vars => FileInv'
  BY <1>1, FileStep
<1>3. MailTypes /\ MailInv /\ FileInv => CalendarFileIsCurrent
  <2>1. Resched \in Templates
    BY TemplateNames DEF Resched
  <2> QED BY <2>1 DEF MailTypes, MailInv, FileInv, CalendarFileIsCurrent, Told, Resched
<1> QED BY <1>2, <1>3, InitFile, BaseAlways, MailAlways, PTL DEF Spec

(***************************************************************************)
(* An email says what the booking says.                                    *)
(***************************************************************************)

\* A session whose time is settled; and a reminder's day before.
Fixed == booking.status \in {"confirmed", "cancelled"}
Within == hour >= booking.time - Notice

\* A reminder not tried yet is due its day before, and one tried was due.
ReminderFits(t) ==
    log[t].status # "none" =>
      /\ booking.time \in Times
      /\ log[t].status = "queued" /\ log[t].attempts = 0 => log[t].at = booking.time - Notice
      /\ log[t].attempts > 0 /\ booking.moves = 0 => Within

\* What a sender goes on with may go as of what it read; and its reminder was due, unless
\* the session was moved since, or the reminder was refused before the move.
SenderFits(s) ==
    /\ sender[s].since <= booking.moves
    /\ sender[s].step \in {"asking", "send"} => Fits(sender[s].about, sender[s].row)
    /\ /\ sender[s].row \in Reminders /\ sender[s].since = booking.moves
       /\ booking.moves = 0 \/ log[sender[s].row].attempts = 1
       => Within

\* All of them do.
MatchInv ==
    /\ booking.status = "none" => booking.moves = 0
    /\ ~Fixed => \A t \in FollowingTheSession : log[t].status = "none"
    /\ \A t \in Reminders : ReminderFits(t)
    /\ \A s \in Senders : ~Idle(s) => SenderFits(s)

\* At the start a reminder is due its day before.
LEMMA InitMatch == Init => MatchInv
<1> SUFFICES ASSUME Init PROVE MatchInv
  OBVIOUS
<1>1. \A s \in Senders : Idle(s)
  BY DEF Init, MailInit, Idle
<1>2. booking.moves = 0
  BY DEF Init, CareInit, Unsettled, Waiting, Confirmed, WaitingBooking, NewBooking
<1>3. CASE log = [t \in Templates |-> NoRow]
  <2>1. \A t \in Templates : log[t].status = "none"
    BY <1>3 DEF NoRow
  <2> QED BY <1>1, <1>2, <2>1, TemplateNames DEF MatchInv, ReminderFits
<1>4. CASE Confirmed
  <2>1. booking.status = "confirmed" /\ booking.time = FirstTime /\ FirstTime \in Times
    BY <1>4, Firsts DEF Confirmed, NewBooking
  <2> DEFINE due == MessagesOnConfirmation(FirstTime, 0)
  <2>2. \A t \in DOMAIN due \cap Reminders : due[t] = FirstTime - Notice
    BY ConfirmationRows, Firsts
  <2>3. log = QueueForBooking([t \in Templates |-> NoRow], due)
    BY <1>4 DEF Confirmed
  <2> HIDE DEF due
  <2>4. \A t \in Templates : log[t] = NoRow \/ (t \in DOMAIN due /\ log[t] = Queued(due[t]))
    BY <2>3 DEF QueueForBooking
  <2>5. ASSUME NEW t \in Reminders PROVE ReminderFits(t)
    <3>1. t \in Templates
      BY TemplateNames
    <3>2. CASE log[t] = NoRow
      BY <3>2 DEF NoRow, ReminderFits
    <3>3. CASE t \in DOMAIN due /\ log[t] = Queued(due[t])
      BY <2>1, <2>2, <3>3, RowParts DEF ReminderFits
    <3> QED BY <2>4, <3>1, <3>2, <3>3
  <2> QED BY <1>1, <1>2, <2>1, <2>5 DEF MatchInv, Fixed
<1> QED BY <1>3, <1>4 DEF Init, CareInit, Unsettled, Waiting

\* The time of a settled session changes by a move alone.
LEMMA TimeHolds ==
    ASSUME BaseInv, Next
    PROVE  /\ Fixed => /\ Fixed'
                       /\ \/ booking'.time = booking.time /\ booking'.moves = booking.moves
                          \/ BookingMoved /\ booking'.moves = booking.moves + 1 /\ booking'.time \in Times
           /\ booking.status # "none" => booking'.moves \in {booking.moves, booking.moves + 1} /\ booking'.status # "none"
           /\ booking.status = "none" => booking'.moves \in {0, booking.moves}
<1> USE DEF Fixed
<1>1. BookingMove /\ booking \in BookingRow
  BY BookingMoves DEF BaseInv, RowsOK
<1>2. CASE booking' = booking \/ BookingCancelled
  BY <1>1, <1>2 DEF BookingCancelled, BookingRow, Ongoing
<1>3. CASE BookingMoved
  <2>1. /\ booking'.moves = booking.moves + 1 /\ booking'.time \in Times /\ booking'.status = "confirmed"
        /\ booking.status = "confirmed"
    BY <1>1, <1>3 DEF BookingMoved, BookingRow
  <2> QED BY <1>3, <2>1
<1>4. CASE BookingFlagCleared
  BY <1>1, <1>4 DEF BookingFlagCleared, BookingRow
<1>5. CASE BookingScheduled
  BY <1>1, <1>5 DEF BookingScheduled, BookingRow
<1>6. CASE BookingConfirmed
  BY <1>1, <1>6 DEF BookingConfirmed, BookingRow
<1>7. CASE BookingReturned
  BY <1>1, <1>7 DEF BookingReturned, BookingRow
<1>8. CASE BookingAdopted
  BY <1>1, <1>8 DEF BookingAdopted, BookingRow
<1>9. CASE BookingMade
  BY <1>9 DEF BookingMade
<1> QED BY <1>1, <1>2, <1>3, <1>4, <1>5, <1>6, <1>7, <1>8, <1>9 DEF BookingMove

\* A day once begun goes on.
LEMMA WithinLasts == ASSUME BaseInv, Next, Within, booking'.time = booking.time, booking.time \in Times PROVE Within'
<1>1. hour' \in {hour, hour + 1}
  BY HourMoves DEF Tick
<1>2. hour \in 0 .. LastHour
  BY DEF BaseInv, RowsOK
<1>3. hour \in Nat /\ booking.time \in Nat /\ Notice \in Nat
  <2>1. Times \subseteq 1 .. LastHour /\ LastHour \in Nat /\ Notice \in Nat
    BY InstantAssumption
  <2>2. hour \in Nat
    BY <1>2, <2>1
  <2>3. booking.time \in 1 .. LastHour
    BY <2>1
  <2> QED BY <2>1, <2>2, <2>3
<1> QED BY <1>1, <1>3 DEF Within

\* A move takes the reminder along, and no other step touches its time.
LEMMA LogMoveMatch ==
    ASSUME BaseInv, MailTypes, MailInv, MatchInv, Next, LogMove, MailStays
    PROVE  MatchInv'
<1> USE DEF MailTypes
<1>0. RowsOK /\ RowsOK' /\ booking.moves \in Nat /\ booking'.moves \in Nat
  BY RowsStep, InstantAssumption DEF BaseInv, RowsOK, BookingRow
<1>1. (booking.status = "none" => booking.moves = 0)' /\ booking.moves <= booking'.moves
  <2>1. CASE booking.status = "none"
    BY <1>0, <2>1, TimeHolds DEF MatchInv
  <2>2. CASE booking.status # "none"
    BY <1>0, <2>2, TimeHolds
  <2> QED BY <2>1, <2>2
<1>2. \A t \in FollowingTheSession : t \in Templates /\ log[t] \in Row
  BY TemplateNames
<1>3. ~Fixed' => \A t \in FollowingTheSession : log'[t].status = "none"
  <2> SUFFICES ASSUME ~Fixed', NEW t \in FollowingTheSession PROVE log'[t].status = "none"
    OBVIOUS
  <2>1. log[t].status = "none"
    BY TimeHolds DEF MatchInv
  <2>2. ~LogQueued(t)
    BY DEF LogMove, Fixed
  <2> QED BY <1>2, <2>1, <2>2 DEF LogMove, LogWithdrawn, LogRetimed
<1>4. ASSUME NEW t \in Reminders, log[t].status # "none"
      PROVE  /\ Fixed /\ booking'.time \in Times
             /\ \/ booking'.time = booking.time /\ booking'.moves = booking.moves
                \/ BookingMoved /\ booking'.moves = booking.moves + 1
  <2>1. Fixed /\ booking.time \in Times
    BY <1>4, TemplateNames DEF MatchInv, ReminderFits
  <2> QED BY <2>1, TimeHolds
<1>5. ASSUME NEW t \in Reminders PROVE ReminderFits(t)'
  <2>0. t \in Templates /\ t \in FollowingTheSession /\ log[t] \in Row
    BY TemplateNames
  <2>1. CASE LogQueued(t)
    <3>1. booking'.status = "confirmed" /\ booking'.time \in Times
      BY <1>0, <2>0, <2>1 DEF LogMove, RowsOK
    <3>2. log'[t].status = "queued" /\ log'[t].attempts = 0 /\ log'[t] # log[t]
      BY <2>1, RowParts DEF LogQueued
    <3>3. log'[t].at = booking'.time - Notice
      BY <3>2 DEF LogMove
    <3> QED BY <3>1, <3>2, <3>3 DEF ReminderFits
  <2>2. CASE log[t].status = "none" /\ ~LogQueued(t)
    BY <2>0, <2>2 DEF LogMove, LogWithdrawn, LogRetimed, ReminderFits
  <2>3. CASE log[t].status # "none"
    <3>1. /\ booking'.time \in Times /\ booking.time \in Times
          /\ \/ booking'.time = booking.time /\ booking'.moves = booking.moves
             \/ BookingMoved /\ booking'.moves = booking.moves + 1
      BY <1>4, <2>3 DEF MatchInv, ReminderFits
    <3>2. log'[t].attempts = log[t].attempts /\ (log'[t].status = "queued" => log[t].status = "queued")
      BY <2>0, <2>3 DEF LogMove, LogQueued, LogWithdrawn, LogRetimed, Row
    <3>3. log'[t].status = "queued" /\ log'[t].attempts = 0 => log'[t].at = booking'.time - Notice
      BY <2>3, <3>1, <3>2 DEF LogMove, MatchInv, ReminderFits
    <3>4. log'[t].attempts > 0 /\ booking'.moves = 0 => Within'
      BY <1>0, <2>3, <3>1, <3>2, WithinLasts DEF MatchInv, ReminderFits
    <3> QED BY <3>1, <3>3, <3>4 DEF ReminderFits
  <2> QED BY <2>1, <2>2, <2>3
<1>6. ASSUME NEW s \in Senders, ~Idle(s)' PROVE SenderFits(s)'
  <2>1. ~Idle(s) /\ sender'[s] = sender[s] /\ SenderFits(s)
    BY <1>6 DEF Idle, MailStays, MatchInv
  <2>2. sender[s].row \in Templates /\ WorkedRow(sender[s].row) /\ sender[s].since \in Nat
    BY <2>1, NotIdle, InstantAssumption DEF MailInv, On
  <2>3. ASSUME sender[s].row \in Reminders, sender[s].since = booking'.moves,
               booking'.moves = 0 \/ log'[sender[s].row].attempts = 1
        PROVE  Within'
    <3>0. PICK t \in Templates : t = sender[s].row
      BY <2>2
    <3>1. log[t].status # "none" /\ log[t] \in Row
      BY <2>2, <3>0 DEF WorkedRow
    <3>2. booking'.time = booking.time /\ booking'.moves = booking.moves
      BY <1>0, <1>4, <2>1, <2>3, <3>0, <3>1 DEF SenderFits
    <3>3. log'[t].attempts = log[t].attempts
      <4>1. ~LogQueued(t)
        BY <3>1 DEF LogQueued
      <4> QED BY <3>1, <4>1 DEF LogMove, LogWithdrawn, LogRetimed, Row
    <3>4. Within /\ booking.time \in Times
      BY <2>1, <2>3, <3>0, <3>1, <3>2, <3>3 DEF SenderFits, MatchInv, ReminderFits
    <3> QED BY <3>2, <3>4, WithinLasts
  <2> QED BY <1>0, <1>1, <2>1, <2>2, <2>3 DEF SenderFits
<1> QED BY <1>1, <1>3, <1>5, <1>6 DEF MatchInv

\* Claiming needs the row to be due, and loading needs it to fit.
LEMMA SendingMatch ==
    ASSUME BaseInv, MailTypes, MailInv, MatchInv, Sending \/ Acknowledging, UNCHANGED <<booking, hour>>
    PROVE  MatchInv'
<1> USE DEF MailTypes
<1>0. RowsOK /\ booking.moves \in Nat /\ (Fixed' <=> Fixed) /\ (Within' <=> Within)
  BY InstantAssumption DEF BaseInv, RowsOK, BookingRow, Fixed, Within
<1>1. FollowingTheSession \subseteq Templates /\ Reminders \subseteq FollowingTheSession
      /\ "choose_new_time" \notin FollowingTheSession
  BY TemplateNames
<1>2. \A s \in Senders : ~Idle(s) => On(s, sender[s].row) /\ sender[s].row \in Templates
  BY NotIdle DEF On
<1>3. ASSUME NEW s \in Senders, NEW t \in Templates, Take(s, t) PROVE MatchInv'
  <2>1. /\ Claimable(t) /\ log' = [log EXCEPT ![t] = log'[t]] /\ log'[t] \in Row
        /\ log'[t].status = "queued" /\ log'[t].attempts = log[t].attempts + 1
        /\ sender' = [sender EXCEPT ![s] = sender'[s]] /\ sender'[s].step = "claimed"
        /\ sender'[s].row = t /\ sender'[s].since = booking.moves
    BY <1>0, <1>3, TakeEffect
  <2>2. /\ \A k \in Senders : k # s => sender'[k] = sender[k]
        /\ \A u \in Templates : u # t => log'[u] = log[u]
    BY <2>1
  <2>3. /\ log[t].status = "queued" /\ log[t].at <= hour /\ log[t].attempts \in Nat
        /\ \A k \in Senders : ~On(k, t)
    BY <2>1 DEF Claimable, Row, MailInv, WorkedRow
  <2>4. ASSUME t \in Reminders, booking.moves = 0 \/ log[t].attempts = 0 PROVE Within
    BY <2>3, <2>4 DEF MatchInv, ReminderFits, Within
  <2>5. \A u \in Reminders : ReminderFits(u)'
    <3>1. t \in Reminders => ReminderFits(t)'
      BY <1>0, <1>3, <2>1, <2>3, <2>4 DEF MatchInv, ReminderFits
    <3>2. \A u \in Reminders \ {t} : ReminderFits(u)'
      BY <1>0, <1>1, <1>3, <2>2 DEF MatchInv, ReminderFits
    <3> QED BY <3>1, <3>2
  <2>6. SenderFits(s)'
    BY <1>0, <2>1, <2>3, <2>4 DEF SenderFits
  <2>7. ASSUME NEW k \in Senders \ {s}, ~Idle(k)' PROVE SenderFits(k)'
    <3>1. sender'[k] = sender[k] /\ ~Idle(k) /\ SenderFits(k) /\ sender[k].row # t /\ sender[k].row \in Templates
      BY <1>2, <2>2, <2>3, <2>7 DEF Idle, MatchInv, On
    <3> QED BY <1>0, <2>2, <3>1 DEF SenderFits
  <2>8. ~Fixed => \A u \in FollowingTheSession : log'[u].status = "none"
    BY <1>1, <2>2, <2>3 DEF MatchInv
  <2> QED BY <1>0, <2>5, <2>6, <2>7, <2>8 DEF MatchInv
<1>4. ASSUME NEW s \in Senders, SameErrand(s), log' = log,
             sender'[s].step \in {"asking", "send"} => Fits(sender'[s].about, sender[s].row)
      PROVE  MatchInv'
  <2>1. \A k \in Senders : k # s => sender'[k] = sender[k]
    BY <1>4 DEF SameErrand
  <2>2. SenderFits(s)'
    BY <1>0, <1>4 DEF SameErrand, SenderFits, MatchInv
  <2>3. \A k \in Senders \ {s} : ~Idle(k)' => SenderFits(k)'
    BY <1>0, <1>4, <2>1 DEF SenderFits, MatchInv, Idle
  <2> QED BY <1>0, <1>4, <2>2, <2>3 DEF MatchInv, ReminderFits
<1>5. ASSUME NEW s \in Senders, Load(s) \/ AskWhetherAhead(s) \/ Send(s) PROVE MatchInv'
  <2>1. CASE Load(s)
    BY <1>0, <1>4, <2>1, LoadEffect DEF SameErrand
  <2>2. CASE AskWhetherAhead(s)
    BY <1>4, <2>2, AskEffect DEF SameErrand, MatchInv, SenderFits
  <2>3. CASE Send(s)
    BY <1>4, <2>3, SendEffect DEF RoundEnds, SameErrand, MatchInv, SenderFits
  <2> QED BY <1>5, <2>1, <2>2, <2>3
<1>6. ASSUME NEW s \in Senders, sender' = [sender EXCEPT ![s] = NoSender],
             NEW t \in Templates, log' = [log EXCEPT ![t] = log'[t]],
             log'[t].attempts = log[t].attempts, log[t].attempts > 0,
             log[t].status # "none", log'[t].status # "none"
      PROVE  MatchInv'
  <2>1. \A u \in Templates : u # t => log'[u] = log[u]
    BY <1>6
  <2>2. \A u \in Templates : log'[u].attempts = log[u].attempts
    BY <1>6, <2>1
  <2>3. \A k \in Senders : ~Idle(k)' => ~Idle(k) /\ sender'[k] = sender[k]
    BY <1>6 DEF Idle
  <2>4. \A k \in Senders : ~Idle(k)' => SenderFits(k)'
    BY <1>0, <1>2, <1>6, <2>2, <2>3 DEF MatchInv, SenderFits
  <2>5. \A u \in Reminders : ReminderFits(u)'
    <3>1. t \in Reminders => ReminderFits(t)'
      BY <1>0, <1>6 DEF MatchInv, ReminderFits
    <3>2. \A u \in Reminders \ {t} : ReminderFits(u)'
      BY <1>0, <1>1, <1>6, <2>1 DEF MatchInv, ReminderFits
    <3> QED BY <3>1, <3>2
  <2>6. ~Fixed => \A u \in FollowingTheSession : log'[u].status = "none"
    BY <1>1, <1>6, <2>1 DEF MatchInv
  <2> QED BY <1>0, <2>4, <2>5, <2>6 DEF MatchInv
<1>7. ASSUME NEW s \in Senders, RecordSending(s) PROVE MatchInv'
  <2>0. PICK t \in Templates : t = sender[s].row
    BY <1>0, <1>7, RecordEffect, NotIdle
  <2>1. /\ On(s, t) /\ sender' = [sender EXCEPT ![s] = NoSender]
        /\ log' = [log EXCEPT ![t] = log'[t]] /\ Written(log'[t], sender[s].step, log[t])
    BY <1>0, <1>7, <2>0, RecordEffect DEF On
  <2>2. log[t].status # "none" /\ log[t].attempts > 0
    BY <2>1 DEF MailInv, WorkedRow
  <2>3. log'[t].attempts = log[t].attempts /\ log'[t].status # "none"
    BY <2>1, <2>2 DEF Written
  <2> QED BY <1>6, <2>1, <2>2, <2>3
<1>8. ASSUME NEW s \in Senders, SenderCrashes(s) PROVE MatchInv'
  <2>1. sender' = [sender EXCEPT ![s] = NoSender] /\ log' = log
    BY <1>8 DEF SenderCrashes
  <2>2. \A k \in Senders : ~Idle(k)' => ~Idle(k) /\ sender'[k] = sender[k]
    BY <2>1 DEF Idle
  <2> QED BY <1>0, <1>8, <2>1, <2>2 DEF MatchInv, SenderFits, ReminderFits
<1>9. ASSUME NEW t \in Templates, LeaseEnds(t) PROVE MatchInv'
  <2>1. sender' = sender /\ log' = [log EXCEPT ![t].leased = FALSE]
    BY <1>9 DEF LeaseEnds, mailVars
  <2>2. \A u \in Templates : /\ log'[u].status = log[u].status /\ log'[u].attempts = log[u].attempts
                             /\ log'[u].at = log[u].at
    BY <2>1 DEF Row
  <2>3. \A k \in Senders : ~Idle(k)' => SenderFits(k)'
    BY <1>0, <1>2, <1>9, <2>1, <2>2 DEF MatchInv, SenderFits, Idle
  <2>4. \A u \in Reminders : ReminderFits(u)'
    BY <1>0, <1>1, <1>9, <2>2 DEF MatchInv, ReminderFits
  <2> QED BY <1>0, <1>1, <1>9, <2>2, <2>3, <2>4 DEF MatchInv
<1>10. CASE QueueChooseNewTime
  <2>1. sender' = sender /\ \A u \in Templates : u # "choose_new_time" => log'[u] = log[u]
    BY <1>10 DEF QueueChooseNewTime
  <2>2. \A u \in FollowingTheSession : log'[u] = log[u]
    BY <1>1, <2>1
  <2>3. \A k \in Senders : ~Idle(k)' => SenderFits(k)'
    BY <1>0, <1>1, <1>10, <2>1, <2>2 DEF MatchInv, SenderFits, Idle
  <2> QED BY <1>0, <1>1, <1>10, <2>2, <2>3 DEF MatchInv, ReminderFits
<1>11. CASE UNCHANGED log /\ MailStays
  BY <1>0, <1>11 DEF MatchInv, SenderFits, ReminderFits, MailStays, Idle
<1> QED BY <1>3, <1>5, <1>7, <1>8, <1>9, <1>10, <1>11, SendingCases

\* So every sender's email fits, in every reachable state.
LEMMA MatchAlways == Spec => []MatchInv
<1>1. MatchInv /\ UNCHANGED vars => MatchInv'
  BY DEF vars, careVars, mailVars, MatchInv, SenderFits, ReminderFits, Idle, Fixed, Within
<1>2. BaseInv /\ MailTypes /\ MailInv /\ MatchInv /\ [Next]_vars => MatchInv'
  BY <1>1, OthersMail, LogMoveMatch, SendingMatch
<1> QED BY <1>2, InitMatch, BaseAlways, MailAlways, PTL DEF Spec

\* MailMatchesTheBooking, of one sender.
MailMatches(s) ==
    Arriving(s) /\ sender[s].row \notin AboutWithdrawal =>
      \/ sender[s].about # Context
      \/ /\ sender[s].row \in Reminders
         /\ \/ sender[s].since # booking.moves
            \/ booking.moves > 0 /\ log[sender[s].row].attempts > 1
      \/ /\ booking.status # "cancelled"
         /\ sender[s].row \in Reminders => hour >= booking.time - Notice
         /\ sender[s].row \in Marketing =>
              customer = [consents |-> TRUE, confirmed |-> TRUE, unsubscribed |-> FALSE]

\* An email that arrives was sent in that step.
LEMMA ArrivingIsSending ==
    ASSUME BaseInv, MailTypes, MailInv, Next, NEW s \in Senders, Arriving(s)
    PROVE  Send(s)
<1>1. PICK t \in Templates : On(s, t) /\ inbox'[t] > inbox[t]
  BY DEF Arriving, On
<1>2. inbox[t] \in Nat
  BY DEF MailTypes
<1>3. ~(inbox' = inbox)
  BY <1>1, <1>2
<1>4. Sending \/ Acknowledging
  BY <1>3, OthersMail DEF MailStays
<1>5. CASE QueueChooseNewTime
  BY <1>1, <1>2, <1>5 DEF QueueChooseNewTime, MailTypes
<1>6. ASSUME NEW k \in Senders, Send(k) PROVE k = s
  <2>1. inbox' = [inbox EXCEPT ![sender[k].row] = @ + 1] /\ ~Idle(k)
    BY <1>3, <1>6, SendEffect DEF Posted, Send
  <2>2. sender[k].row = t
    BY <1>1, <1>2, <2>1
  <2> QED BY <1>1, <2>1, <2>2 DEF MailInv, On
<1> QED BY <1>3, <1>4, <1>5, <1>6, SendingCases, TakeEffect
        DEF BaseInv, Load, AskWhetherAhead, RecordSending, SenderCrashes, LeaseEnds, mailVars, MailStays

\* An email about the session says what the booking says as it goes, a reminder goes within
\* its day, and an offer goes only where it is wanted, unless that changed after the sender
\* had read it, or the reminder was tried before a move (deliver.ts:107, 142).
THEOREM MailAlwaysMatches == Spec => MailMatchesTheBooking
<1>1. ASSUME BaseInv, MailTypes, MailInv, MatchInv, Next, NEW s \in Senders PROVE MailMatches(s)
  <2> SUFFICES ASSUME Arriving(s), sender[s].row \notin AboutWithdrawal, sender[s].about = Context,
                      sender[s].row \in Reminders => /\ sender[s].since = booking.moves
                                                     /\ ~(booking.moves > 0 /\ log[sender[s].row].attempts > 1)
               PROVE  /\ booking.status # "cancelled"
                      /\ sender[s].row \in Reminders => Within
                      /\ sender[s].row \in Marketing =>
                           customer = [consents |-> TRUE, confirmed |-> TRUE, unsubscribed |-> FALSE]
    BY DEF MailMatches, Within
  <2>1. ~Idle(s) /\ sender[s].step = "send"
    BY <1>1, ArrivingIsSending DEF Send
  <2>2. SenderFits(s) /\ sender[s].row \in Templates
    BY <1>1, <2>1, NotIdle DEF MatchInv
  <2>3. Fits(Context, sender[s].row)
    BY <2>1, <2>2 DEF SenderFits
  <2>4. sender[s].row \in Reminders => Within
    <3>1. log[sender[s].row].attempts \in Nat /\ log[sender[s].row].attempts > 0 /\ booking.moves \in Nat
      BY <1>1, <2>1, <2>2, InstantAssumption
         DEF MailTypes, MailInv, On, WorkedRow, Row, BaseInv, RowsOK, BookingRow
    <3> QED BY <2>2, <3>1 DEF SenderFits
  <2> QED BY <2>3, <2>4 DEF Fits, Context
<1>2. BaseInv /\ MailTypes /\ MailInv /\ MatchInv /\ [Next]_vars => [\A s \in Senders : MailMatches(s)]_vars
  BY <1>1
<1>3. Spec => [][\A s \in Senders : MailMatches(s)]_vars
  BY <1>2, BaseAlways, MailAlways, MatchAlways, PTL DEF Spec
<1> QED BY <1>3 DEF MailMatchesTheBooking, MailMatches

(***************************************************************************)
(* The desk's alerts.                                                      *)
(***************************************************************************)

\* The rows of desk_alerts.
AlertRow == [id : Nat, open : BOOLEAN, sent : {"never", "today", "day_ago"},
             tried : {"never", "just", "half_hour_ago"}, claimed : BOOLEAN, sends : {0, 1}]

\* The steps at which a run holds a claim.
ClaimSteps == {"send", "release", "record"}

\* A run past its reading of the problems.
AtWork(w) ==
    /\ w = [step |-> w.step, queue |-> w.queue, id |-> w.id, open |-> w.open, gone |-> w.gone]
    /\ w.step \in {"closing", "open", "claim"} \cup ClaimSteps
    /\ w.open \in [Subjects -> Nat] /\ w.gone \subseteq Subjects

\* The rows and the runs.
DeskTypes ==
    /\ alert \in [Subjects -> AlertRow]
    /\ run = [r \in Runs |-> run[r]]
    /\ \A r \in Runs : RunOver(r) \/ run[r].step = "listed" \/ AtWork(run[r])

\* A run at work on a subject's row as it is now.
Handling(r, x) ==
    ~RunOver(r) /\ run[r].step \in ClaimSteps /\ Subject(r) = x /\ run[r].id = alert[x].id

\* One run at a time has a row in its hands, claimed and just tried; and what a run read of a
\* row is not newer than the row.
AlertInv ==
    /\ mishaps \in Nat
    /\ \A x \in Subjects, r, q \in Runs : Handling(r, x) /\ Handling(q, x) => r = q
    /\ \A x \in Subjects, r \in Runs : Handling(r, x) =>
         /\ alert[x].open => alert[x].claimed
         /\ alert[x].tried = "just"
         /\ run[r].step = "send" => alert[x].sent # "today"
    /\ \A x \in Subjects, r \in Runs : ~RunOver(r) /\ run[r].step # "listed" =>
         /\ run[r].open[x] <= alert[x].id
         /\ run[r].step \in {"claim"} \cup ClaimSteps /\ Subject(r) = x =>
              run[r].id \in Nat /\ run[r].id <= alert[x].id

\* At the start no run is at work.
LEMMA InitDesk == Init => DeskTypes /\ AlertInv
<1> SUFFICES ASSUME Init PROVE DeskTypes /\ AlertInv
  OBVIOUS
<1>1. alert = [x \in Subjects |-> NoAlert] /\ run = [r \in Runs |-> NoRun] /\ mishaps = 0
  BY DEF Init, DeskInit, CareInit
<1>2. NoAlert \in AlertRow
  BY DEF NoAlert, AlertRow
<1>3. \A r \in Runs : RunOver(r)
  BY <1>1 DEF RunOver
<1> QED BY <1>1, <1>2, <1>3 DEF DeskTypes, AlertInv, Handling

\* A step holds one mishap at most, and only while there may be another.
LEMMA MishapsGrow ==
    ASSUME Next
    PROVE  mishaps' = mishaps \/ (mishaps < MaxMishaps /\ mishaps' = mishaps + 1)
<1>1. CASE Sweeping
  BY <1>1 DEF Sweeping, SweepStep, SweepMishap, WorkAppears, BeginSweep, ReadRows, RowDone, RowFails,
              StepDone, CheckIn, StepFails, CalendarMissing, SweepFails
<1>2. CASE Alerting
  BY <1>2 DEF Alerting, SendAlert, AlertAnswerLost, AlertRefused, RunCrashes
<1>3. CASE Sending
  <2>1. ASSUME NEW k \in Senders, SenderStep(k)
        PROVE  mishaps' = mishaps \/ (mishaps < MaxMishaps /\ mishaps' = mishaps + 1)
    BY <2>1 DEF SenderStep, Send, Accepted, Refused, AnswerLost
  <2>2. ASSUME NEW k \in Senders, SenderCrashes(k)
        PROVE  mishaps < MaxMishaps /\ mishaps' = mishaps + 1
    BY <2>2 DEF SenderCrashes
  <2> QED BY <1>3, <2>1, <2>2 DEF Sending
<1>4. CASE Moving
  BY <1>4 DEF Moving, CalendarDown, MoverCrashes, ReturnToWaiting
<1>5. CASE HearingOfThePayment
  BY <1>5 DEF HearingOfThePayment, RollBack
<1>6. CASE Meddling
  BY <1>6 DEF Meddling, CoachDeletes, CoachMoves, CoachRestores
<1> QED
  BY <1>1, <1>2, <1>3, <1>4, <1>5, <1>6
     DEF Next, Withdrawing, Money, Watching, Living, Tick

\* No other part touches the alerts.
LEMMA DeskStands == ASSUME Next PROVE Alerting \/ UNCHANGED <<problem, alert, run, told, reasons>>
BY DEF Next, Sending, Moving, Withdrawing, Money, HearingOfThePayment, Watching, Meddling, Sweeping,
       Living, Tick, deskVars

\* A step of one run that leaves the rows alone.
LEMMA RunAlone ==
    ASSUME DeskTypes, AlertInv, NEW r \in Runs, NEW w, run' = [run EXCEPT ![r] = w],
           w = NoRun \/ w.step = "listed" \/ AtWork(w)
    PROVE  /\ DeskTypes /\ alert' \in [Subjects -> AlertRow] => DeskTypes'
           /\ run'[r] = w
           /\ \A q \in Runs : q # r => run'[q] = run[q]
<1>1. run = [q \in Runs |-> run[q]] /\ run' = [q \in Runs |-> run'[q]]
  BY DEF DeskTypes
<1>2. run'[r] = w /\ \A q \in Runs : q # r => run'[q] = run[q]
  BY <1>1
<1>3. \A q \in Runs : run'[q] = NoRun \/ run'[q].step = "listed" \/ AtWork(run'[q])
  BY <1>2 DEF DeskTypes, RunOver
<1> QED BY <1>1, <1>2, <1>3 DEF DeskTypes, RunOver

\* A run at work goes on to its next step, or its next subject.
LEMMA AtWorkShape ==
    ASSUME DeskTypes, NEW r \in Runs, ~RunOver(r), run[r].step # "listed"
    PROVE  /\ AtWork(run[r])
           /\ \A st \in {"closing", "open", "claim"} \cup ClaimSteps : AtWork([run[r] EXCEPT !.step = st])
           /\ AtWork(NextSubject(r)) \/ NextSubject(r) = NoRun
           /\ NextSubject(r) # NoRun => NextSubject(r).step = "open" /\ NextSubject(r).open = run[r].open
<1>1. AtWork(run[r])
  BY DEF DeskTypes
<1>2. PICK st, qu, id, op, go : run[r] = [step |-> st, queue |-> qu, id |-> id, open |-> op, gone |-> go]
                                /\ op \in [Subjects -> Nat] /\ go \subseteq Subjects
  BY <1>1 DEF AtWork
<1>3. \A st2 \in {"closing", "open", "claim"} \cup ClaimSteps : AtWork([run[r] EXCEPT !.step = st2])
  BY <1>2 DEF AtWork
<1>4. NextSubject(r) = NoRun \/ NextSubject(r) = [run[r] EXCEPT !.step = "open", !.queue = Tail(run[r].queue), !.id = 0]
  BY Zenon DEF NextSubject
<1>5. ASSUME NEW w, w = [run[r] EXCEPT !.step = "open", !.queue = Tail(run[r].queue), !.id = 0]
      PROVE  AtWork(w) /\ w.step = "open" /\ w.open = run[r].open
  <2>1. w = [[step |-> st, queue |-> qu, id |-> id, open |-> op, gone |-> go]
               EXCEPT !.step = "open", !.queue = Tail(run[r].queue), !.id = 0]
    BY <1>2, <1>5
  <2>2. /\ w = [step |-> w.step, queue |-> w.queue, id |-> w.id, open |-> w.open, gone |-> w.gone]
        /\ w.step = "open" /\ w.open = op /\ w.gone = go
    BY <2>1
  <2> QED BY <1>2, <2>2 DEF AtWork
<1> HIDE DEF NextSubject
<1> QED BY <1>1, <1>3, <1>4, <1>5

\* What the runs and the world do to the alerts.
LEMMA AlertingCases ==
    ASSUME Alerting
    PROVE  \/ \E r \in Runs : \/ ListProblems(r) \/ ListOpen(r) \/ CloseGone(r) \/ OpenAlert(r)
                              \/ ClaimAlert(r) \/ SendAlert(r) \/ AlertAnswerLost(r) \/ AlertRefused(r)
                              \/ ReleaseAlert(r) \/ RecordAlert(r) \/ RunCrashes(r)
           \/ \E x \in Subjects : HalfAnHour(x) \/ ADay(x) \/ ProblemAppears(x) \/ ProblemGoes(x)
BY DEF Alerting, RunStep

\* What a step writes of a row.
RowForms(x) ==
    {alert, [alert EXCEPT ![x].open = FALSE, ![x].claimed = FALSE],
     [alert EXCEPT ![x].claimed = TRUE, ![x].tried = "just"],
     [alert EXCEPT ![x].claimed = FALSE],
     [alert EXCEPT ![x].claimed = FALSE, ![x].sent = "today", ![x].sends = 1],
     [alert EXCEPT ![x].tried = "half_hour_ago", ![x].claimed = FALSE],
     [alert EXCEPT ![x].sent = "day_ago"],
     [alert EXCEPT ![x] = Opened(x)]}

\* Each of those is a row again.
LEMMA RowChanges ==
    ASSUME alert \in [Subjects -> AlertRow], NEW x
    PROVE  \A rows \in RowForms(x) : rows \in [Subjects -> AlertRow]
<1>1. [alert EXCEPT ![x].open = FALSE, ![x].claimed = FALSE] \in [Subjects -> AlertRow]
  BY DEF AlertRow
<1>2. [alert EXCEPT ![x].claimed = TRUE, ![x].tried = "just"] \in [Subjects -> AlertRow]
  BY DEF AlertRow
<1>3. [alert EXCEPT ![x].claimed = FALSE] \in [Subjects -> AlertRow]
  BY DEF AlertRow
<1>4. [alert EXCEPT ![x].claimed = FALSE, ![x].sent = "today", ![x].sends = 1] \in [Subjects -> AlertRow]
  BY DEF AlertRow
<1>5. [alert EXCEPT ![x].tried = "half_hour_ago", ![x].claimed = FALSE] \in [Subjects -> AlertRow]
  BY DEF AlertRow
<1>6. [alert EXCEPT ![x].sent = "day_ago"] \in [Subjects -> AlertRow]
  BY DEF AlertRow
<1>7. [alert EXCEPT ![x] = Opened(x)] \in [Subjects -> AlertRow]
  <2>1. x \in Subjects => alert[x].id + 1 \in Nat
    BY DEF AlertRow
  <2>2. PICK w : w = Opened(x)
    OBVIOUS
  <2>3. /\ w = [id |-> w.id, open |-> w.open, sent |-> w.sent, tried |-> w.tried,
                claimed |-> w.claimed, sends |-> w.sends]
        /\ w.id = alert[x].id + 1 /\ w.open = TRUE /\ w.sent = "never" /\ w.tried = "never"
        /\ w.claimed = FALSE /\ w.sends = 0
    BY <2>2 DEF Opened, NoAlert
  <2>4. x \in Subjects => w \in AlertRow
    BY <2>1, <2>3 DEF AlertRow
  <2> HIDE DEF Opened
  <2> QED BY <2>2, <2>4
<1> HIDE DEF Opened
<1> QED BY <1>1, <1>2, <1>3, <1>4, <1>5, <1>6, <1>7 DEF RowForms

\* So rows and runs keep their shape.
LEMMA DeskTypesStep == ASSUME DeskTypes, AlertInv, Next PROVE DeskTypes'
<1>1. alert \in [Subjects -> AlertRow]
  BY DEF DeskTypes
<1>2. ASSUME NEW r \in Runs, ListProblems(r) PROVE DeskTypes'
  BY <1>1, <1>2, RunAlone DEF ListProblems
<1>3. ASSUME NEW r \in Runs, ListOpen(r) PROVE DeskTypes'
  <2>1. PICK qu : run' = [run EXCEPT ![r] =
             [step |-> "closing", queue |-> qu, id |-> 0,
              open |-> [x \in Subjects |-> IF alert[x].open THEN alert[x].id ELSE 0],
              gone |-> {x \in Subjects \ run[r].problems : alert[x].open}]]
    BY <1>3, Zenon DEF ListOpen
  <2> DEFINE op == [x \in Subjects |-> IF alert[x].open THEN alert[x].id ELSE 0]
             go == {x \in Subjects \ run[r].problems : alert[x].open}
             w == [step |-> "closing", queue |-> qu, id |-> 0, open |-> op, gone |-> go]
  <2>2. op \in [Subjects -> Nat] /\ go \subseteq Subjects
    BY <1>1 DEF AlertRow
  <2>3. run' = [run EXCEPT ![r] = w]
    BY <2>1, Zenon
  <2> HIDE DEF op, go
  <2>4. AtWork(w)
    BY <2>2 DEF AtWork
  <2> HIDE DEF w
  <2>5. alert' = alert
    BY <1>3 DEF ListOpen
  <2> QED BY <1>1, <2>3, <2>4, <2>5, RunAlone
<1>4. ASSUME NEW r \in Runs, CloseGone(r) PROVE DeskTypes'
  <2>0. run[r] # NoRun /\ run[r].step # "listed"
    BY <1>4 DEF CloseGone, RunOver
  <2>1. AtWork(run[r]) /\ AtWork([run[r] EXCEPT !.step = "open"])
    BY <2>0, AtWorkShape DEF RunOver
  <2>2. CASE run[r].gone = {}
    <3>1. alert' = alert /\ \E w \in {NoRun, [run[r] EXCEPT !.step = "open"]} : run' = [run EXCEPT ![r] = w]
      BY <1>4, <2>2 DEF CloseGone, DeskTypes
    <3> QED BY <1>1, <2>0, <2>1, <3>1, RunAlone
  <2>3. CASE run[r].gone # {}
    <3>1. PICK x \in run[r].gone :
              /\ alert' = (IF alert[x].open /\ alert[x].id = run[r].open[x]
                           THEN [alert EXCEPT ![x].open = FALSE, ![x].claimed = FALSE] ELSE alert)
              /\ run' = [run EXCEPT ![r].gone = @ \ {x}]
      BY <1>4, <2>3 DEF CloseGone
    <3>0. alert' \in RowForms(x)
      BY <3>1, Zenon DEF RowForms
    <3>2. alert' \in [Subjects -> AlertRow]
      BY <1>1, <3>0, RowChanges
    <3>3. PICK w : w = [run[r] EXCEPT !.gone = @ \ {x}]
      OBVIOUS
    <3>4. run' = [run EXCEPT ![r] = w]
      BY <3>1, <3>3 DEF DeskTypes
    <3>5. AtWork(w)
      BY <2>1, <3>3 DEF AtWork
    <3> QED BY <1>1, <2>0, <3>2, <3>4, <3>5, RunAlone
  <2> QED BY <2>2, <2>3
<1>5. ASSUME NEW r \in Runs, OpenAlert(r) PROVE DeskTypes'
  <2>0. ~RunOver(r) /\ run[r].step # "listed"
    BY <1>5 DEF OpenAlert
  <2>1. AtWork(run[r])
    BY <2>0, AtWorkShape
  <2>9. PICK x : x = Subject(r)
    OBVIOUS
  <2>2. alert' \in RowForms(x)
    BY <1>5, <2>9, Zenon DEF OpenAlert, RowForms
  <2>4. alert' \in [Subjects -> AlertRow]
    BY <1>1, <2>2, RowChanges
  <2>5. PICK id : run' = [run EXCEPT ![r].step = "claim", ![r].id = id]
    BY <1>5, Zenon DEF OpenAlert
  <2>6. PICK w : w = [run[r] EXCEPT !.step = "claim", !.id = id]
    OBVIOUS
  <2>7. run' = [run EXCEPT ![r] = w]
    BY <2>5, <2>6 DEF DeskTypes
  <2>8. AtWork(w)
    BY <2>1, <2>6 DEF AtWork
  <2> QED BY <1>1, <2>4, <2>7, <2>8, RunAlone
<1>6. ASSUME NEW r \in Runs, ~RunOver(r), run[r].step # "listed",
             \/ run' = [run EXCEPT ![r] = NextSubject(r)]
             \/ \E st \in ClaimSteps : run' = [run EXCEPT ![r].step = st],
             alert' \in [Subjects -> AlertRow]
      PROVE DeskTypes'
  <2>1. PICK w : run' = [run EXCEPT ![r] = w] /\ (w = NextSubject(r) \/ \E st \in ClaimSteps : w = [run[r] EXCEPT !.step = st])
    BY <1>6 DEF DeskTypes
  <2>2. AtWork(w) \/ w = NoRun
    BY <1>6, <2>1, AtWorkShape
  <2> QED BY <1>6, <2>1, <2>2, RunAlone
<1>7. ASSUME NEW r \in Runs, ClaimAlert(r) PROVE DeskTypes'
  <2>1. PICK x : x = Subject(r)
    OBVIOUS
  <2>2. alert' \in RowForms(x)
    BY <1>7, <2>1, Zenon DEF ClaimAlert, RowForms
  <2>5. alert' \in [Subjects -> AlertRow]
    BY <1>1, <2>2, RowChanges
  <2>3. \/ run' = [run EXCEPT ![r] = NextSubject(r)]
        \/ \E st \in {"send", "release"} : run' = [run EXCEPT ![r].step = st]
    BY <1>7 DEF ClaimAlert
  <2>4. ~RunOver(r) /\ run[r].step # "listed"
    BY <1>7 DEF ClaimAlert
  <2> QED BY <1>6, <2>3, <2>4, <2>5 DEF ClaimSteps
<1>8. ASSUME NEW r \in Runs, SendAlert(r) \/ AlertAnswerLost(r) \/ AlertRefused(r) PROVE DeskTypes'
  <2>1. ~RunOver(r) /\ run[r].step = "send" /\ alert' = alert
    BY <1>8 DEF SendAlert, AlertAnswerLost, AlertRefused
  <2>2. \E st \in ClaimSteps : run' = [run EXCEPT ![r].step = st]
    BY <1>8 DEF SendAlert, AlertAnswerLost, AlertRefused, ClaimSteps
  <2> QED BY <1>1, <1>6, <2>1, <2>2
<1>10. ASSUME NEW r \in Runs, ReleaseAlert(r) \/ RecordAlert(r) PROVE DeskTypes'
  <2>1. PICK x : x = Subject(r)
    OBVIOUS
  <2>2. /\ run' = [run EXCEPT ![r] = NextSubject(r)]
        /\ ~RunOver(r) /\ run[r].step # "listed"
    BY <1>10 DEF ReleaseAlert, RecordAlert
  <2>3. alert' \in RowForms(x)
    BY <1>10, <2>1, Zenon DEF ReleaseAlert, RecordAlert, RowForms
  <2>4. alert' \in [Subjects -> AlertRow]
    BY <1>1, <2>3, RowChanges
  <2> QED BY <1>6, <2>2, <2>4
<1>11. ASSUME NEW r \in Runs, RunCrashes(r) PROVE DeskTypes'
  BY <1>1, <1>11, RunAlone DEF RunCrashes
<1>12. ASSUME NEW x \in Subjects, HalfAnHour(x) \/ ADay(x) PROVE DeskTypes'
  <2>1. run' = run
    BY <1>12 DEF HalfAnHour, ADay
  <2>2. alert' \in RowForms(x)
    BY <1>12, Zenon DEF HalfAnHour, ADay, RowForms
  <2>3. alert' \in [Subjects -> AlertRow]
    BY <1>1, <2>2, RowChanges
  <2> QED BY <2>1, <2>3 DEF DeskTypes, RunOver
<1>13. CASE UNCHANGED <<alert, run>>
  BY <1>1, <1>13 DEF DeskTypes, RunOver
<1>14. ASSUME NEW x \in Subjects, ProblemAppears(x) \/ ProblemGoes(x) PROVE UNCHANGED <<alert, run>>
  BY <1>14 DEF ProblemAppears, ProblemGoes
<1> QED
  BY <1>2, <1>3, <1>4, <1>5, <1>7, <1>8, <1>10, <1>11, <1>12, <1>13, <1>14, AlertingCases, DeskStands

\* What any step of one run that writes no row keeps.
LEMMA RunAloneFits ==
    ASSUME DeskTypes, DeskTypes', AlertInv, NEW r \in Runs, NEW w, run'[r] = w,
           \A q \in Runs : q # r => run'[q] = run[q],
           alert' = alert, mishaps' = mishaps \/ mishaps' = mishaps + 1,
           \/ w = NoRun \/ w.step \in {"listed", "closing", "open"}
           \/ /\ run[r].step = "send" /\ w.step = "release" /\ ~RunOver(r)
              /\ w.queue = run[r].queue /\ w.id = run[r].id /\ w.open = run[r].open,
           w # NoRun /\ w.step # "listed" => \A x \in Subjects : w.open[x] <= alert[x].id
    PROVE  AlertInv'
<1>1. \A q \in Runs, x \in Subjects : q # r => (Handling(q, x)' <=> Handling(q, x))
  BY DEF Handling, RunOver, Subject
<1>2. \A x \in Subjects : Handling(r, x)' => Handling(r, x) /\ run[r].step = "send" /\ w.step = "release"
  BY DEF Handling, RunOver, Subject, ClaimSteps, NoRun
<1>3. mishaps' \in Nat
  BY DEF AlertInv
<1>4. \A x \in Subjects, p, q \in Runs : Handling(p, x)' /\ Handling(q, x)' => p = q
  BY <1>1, <1>2 DEF AlertInv
<1>5. \A x \in Subjects, q \in Runs : Handling(q, x)' =>
         /\ alert[x].open => alert[x].claimed
         /\ alert[x].tried = "just"
         /\ run'[q].step = "send" => alert[x].sent # "today"
  BY <1>1, <1>2 DEF AlertInv
<1>6. \A x \in Subjects, q \in Runs : ~RunOver(q)' /\ run'[q].step # "listed" =>
         /\ run'[q].open[x] <= alert[x].id
         /\ run'[q].step \in {"claim"} \cup ClaimSteps /\ Subject(q)' = x =>
              run'[q].id \in Nat /\ run'[q].id <= alert[x].id
  <2> SUFFICES ASSUME NEW x \in Subjects, NEW q \in Runs, ~RunOver(q)', run'[q].step # "listed"
               PROVE  /\ run'[q].open[x] <= alert[x].id
                      /\ run'[q].step \in {"claim"} \cup ClaimSteps /\ Subject(q)' = x =>
                           run'[q].id \in Nat /\ run'[q].id <= alert[x].id
    OBVIOUS
  <2>1. CASE q # r
    BY <2>1 DEF AlertInv, RunOver, Subject
  <2>2. CASE q = r
    BY <2>2 DEF AlertInv, RunOver, Subject, ClaimSteps
  <2> QED BY <2>1, <2>2
<1> QED BY <1>3, <1>4, <1>5, <1>6 DEF AlertInv

\* What a step that writes one row keeps, the runs at work on the others untouched.
LEMMA RowWrittenFits ==
    ASSUME DeskTypes, DeskTypes', AlertInv, mishaps' = mishaps \/ mishaps' = mishaps + 1,
           NEW x \in Subjects,
           \A y \in Subjects : y # x => alert'[y] = alert[y],
           alert[x].id <= alert'[x].id,
           \A q \in Runs : ~RunOver(q)' /\ run'[q].step # "listed" =>
              ~RunOver(q) /\ run[q].step # "listed" /\ run'[q].open = run[q].open,
           \A q \in Runs, y \in Subjects :
              /\ Handling(q, y)' => \/ Handling(q, y) /\ run'[q].step = run[q].step
                                    \/ y = x
              /\ y # x /\ Handling(q, y) => Handling(q, y)' /\ run'[q].step = run[q].step
              /\ ~RunOver(q)' /\ run'[q].step \in {"claim"} \cup ClaimSteps /\ Subject(q)' = y =>
                   run'[q].id \in Nat /\ run'[q].id <= alert'[y].id,
           \A p, q \in Runs : Handling(p, x)' /\ Handling(q, x)' => p = q,
           \A q \in Runs : Handling(q, x)' =>
              /\ alert'[x].open => alert'[x].claimed
              /\ alert'[x].tried = "just"
              /\ run'[q].step = "send" => alert'[x].sent # "today"
    PROVE  AlertInv'
<1>1. \A y \in Subjects, p, q \in Runs : Handling(p, y)' /\ Handling(q, y)' => p = q
  BY DEF AlertInv
<1>2. \A y \in Subjects, q \in Runs : Handling(q, y)' =>
         /\ alert'[y].open => alert'[y].claimed
         /\ alert'[y].tried = "just"
         /\ run'[q].step = "send" => alert'[y].sent # "today"
  BY DEF AlertInv
<1>3. \A y \in Subjects, q \in Runs : ~RunOver(q)' /\ run'[q].step # "listed" =>
         run'[q].open[y] <= alert'[y].id
  <2> SUFFICES ASSUME NEW y \in Subjects, NEW q \in Runs, ~RunOver(q)', run'[q].step # "listed"
               PROVE  run'[q].open[y] <= alert'[y].id
    OBVIOUS
  <2>1. run[q].open[y] <= alert[y].id /\ run'[q].open = run[q].open
    BY DEF AlertInv
  <2>2. alert[y].id \in Nat /\ alert'[y].id \in Nat /\ AtWork(run[q])
    BY AtWorkShape DEF DeskTypes, AlertRow
  <2>3. run[q].open[y] \in Nat
    BY <2>2 DEF AtWork
  <2> QED BY <2>1, <2>2, <2>3
<1>5. mishaps' \in Nat
  BY DEF AlertInv
<1> QED BY <1>1, <1>2, <1>3, <1>5 DEF AlertInv

\* A claim looks at the row as it is now, not as it was read; a new row has a new id, which
\* no older run holds; and time runs out on a row only when no send of it is under way.
LEMMA AlertStep == ASSUME DeskTypes, DeskTypes', AlertInv, Next PROVE AlertInv'
<1>0. alert \in [Subjects -> AlertRow] /\ mishaps \in Nat
  BY DEF DeskTypes, AlertInv
<1>1. mishaps' = mishaps \/ mishaps' = mishaps + 1
  BY MishapsGrow
<1>2. ASSUME NEW r \in Runs, ~RunOver(r), run[r].step # "listed", alert' = alert,
             run' = [run EXCEPT ![r] = NextSubject(r)]
      PROVE  AlertInv'
  <2>1. PICK w : w = NextSubject(r)
    OBVIOUS
  <2>2. w # NoRun => w.step = "open" /\ w.open = run[r].open
    BY <1>2, <2>1, AtWorkShape
  <2>3. run'[r] = w /\ \A q \in Runs : q # r => run'[q] = run[q]
    BY <1>2, <2>1 DEF DeskTypes
  <2>4. \A x \in Subjects : run[r].open[x] <= alert[x].id
    BY <1>2 DEF AlertInv
  <2> QED BY <1>1, <1>2, <2>2, <2>3, <2>4, RunAloneFits
<1>3. ASSUME NEW r \in Runs, ListProblems(r) PROVE AlertInv'
  <2>1. PICK w : w = [step |-> "listed", problems |-> problem]
    OBVIOUS
  <2>2. run'[r] = w /\ \A q \in Runs : q # r => run'[q] = run[q]
    BY <1>3, <2>1 DEF ListProblems, DeskTypes
  <2>3. w.step = "listed" /\ RunOver(r) /\ alert' = alert
    BY <1>3, <2>1 DEF ListProblems
  <2> QED BY <1>1, <2>2, <2>3, RunAloneFits DEF Handling
<1>4. ASSUME NEW r \in Runs, ListOpen(r) PROVE AlertInv'
  <2>1. PICK qu : run' = [run EXCEPT ![r] =
             [step |-> "closing", queue |-> qu, id |-> 0,
              open |-> [x \in Subjects |-> IF alert[x].open THEN alert[x].id ELSE 0],
              gone |-> {x \in Subjects \ run[r].problems : alert[x].open}]]
    BY <1>4, Zenon DEF ListOpen
  <2>2. PICK w : w = [step |-> "closing", queue |-> qu, id |-> 0,
              open |-> [x \in Subjects |-> IF alert[x].open THEN alert[x].id ELSE 0],
              gone |-> {x \in Subjects \ run[r].problems : alert[x].open}]
    OBVIOUS
  <2>3. run' = [run EXCEPT ![r] = w]
    BY <2>1, <2>2, Zenon
  <2>4. w.step = "closing" /\ \A x \in Subjects : w.open[x] <= alert[x].id
    BY <1>0, <2>2 DEF AlertRow
  <2>5. run'[r] = w /\ \A q \in Runs : q # r => run'[q] = run[q]
    BY <2>3 DEF DeskTypes
  <2>6. run[r].step = "listed" /\ alert' = alert
    BY <1>4 DEF ListOpen
  <2> QED BY <1>1, <2>4, <2>5, <2>6, RunAloneFits DEF Handling, ClaimSteps
<1>5. ASSUME NEW r \in Runs, CloseGone(r) PROVE AlertInv'
  <2>0. /\ ~RunOver(r) /\ run[r].step = "closing"
        /\ AtWork(run[r]) /\ \A x \in Subjects : run[r].open[x] <= alert[x].id
    BY <1>5, AtWorkShape DEF CloseGone, AlertInv
  <2>1. CASE run[r].gone = {}
    <3>1. PICK w : /\ run' = [run EXCEPT ![r] = w] /\ alert' = alert
                   /\ w = NoRun \/ w = [run[r] EXCEPT !.step = "open"]
      BY <1>5, <2>1 DEF CloseGone, DeskTypes
    <3>2. w # NoRun => w.step = "open" /\ w.open = run[r].open
      BY <2>0, <3>1 DEF AtWork
    <3>3. run'[r] = w /\ \A q \in Runs : q # r => run'[q] = run[q]
      BY <3>1 DEF DeskTypes
    <3> QED BY <1>1, <2>0, <3>1, <3>2, <3>3, RunAloneFits DEF Handling, ClaimSteps
  <2>2. CASE run[r].gone # {}
    <3>1. PICK x \in run[r].gone :
              /\ alert' = (IF alert[x].open /\ alert[x].id = run[r].open[x]
                           THEN [alert EXCEPT ![x].open = FALSE, ![x].claimed = FALSE] ELSE alert)
              /\ run' = [run EXCEPT ![r].gone = @ \ {x}]
      BY <1>5, <2>2 DEF CloseGone
    <3>2. x \in Subjects
      BY <2>0 DEF AtWork
    <3>3. /\ alert'[x].id = alert[x].id /\ alert'[x].tried = alert[x].tried
          /\ alert'[x].sent = alert[x].sent
          /\ alert'[x] = alert[x] \/ alert'[x].open = FALSE
          /\ \A y \in Subjects : y # x => alert'[y] = alert[y]
      BY <1>0, <3>1, <3>2 DEF AlertRow
    <3>4. \A q \in Runs : q # r => run'[q] = run[q]
      BY <3>1 DEF DeskTypes
    <3>5. /\ run'[r].step = "closing" /\ run'[r].open = run[r].open
      BY <2>0, <3>1 DEF AtWork, DeskTypes
    <3>6. \A q \in Runs, y \in Subjects : (Handling(q, y)' <=> Handling(q, y)) /\ (Handling(q, y) => run'[q] = run[q])
      <4>1. \A q \in Runs, y \in Subjects : q # r => (Handling(q, y)' <=> Handling(q, y))
        BY <3>3, <3>4 DEF Handling, RunOver, Subject
      <4>2. \A y \in Subjects : ~Handling(r, y)' /\ ~Handling(r, y)
        BY <2>0, <3>5 DEF Handling, ClaimSteps
      <4> QED BY <3>4, <4>1, <4>2
    <3>7. \A q \in Runs, y \in Subjects :
             ~RunOver(q)' /\ run'[q].step \in {"claim"} \cup ClaimSteps /\ Subject(q)' = y =>
                run'[q].id \in Nat /\ run'[q].id <= alert'[y].id
      BY <3>3, <3>4, <3>5 DEF AlertInv, RunOver, Subject, ClaimSteps
    <3>8. \A q \in Runs : ~RunOver(q)' /\ run'[q].step # "listed" =>
              ~RunOver(q) /\ run[q].step # "listed" /\ run'[q].open = run[q].open
      BY <2>0, <3>4, <3>5 DEF RunOver
    <3>10. alert[x].id <= alert'[x].id
      BY <1>0, <3>2, <3>3 DEF AlertRow
    <3>11. \A p, q \in Runs : Handling(p, x)' /\ Handling(q, x)' => p = q
      BY <3>2, <3>6 DEF AlertInv
    <3>12. \A q \in Runs : Handling(q, x)' =>
              /\ alert'[x].open => alert'[x].claimed
              /\ alert'[x].tried = "just"
              /\ run'[q].step = "send" => alert'[x].sent # "today"
      BY <3>2, <3>3, <3>6 DEF AlertInv
    <3> QED BY <1>1, <2>0, <3>2, <3>3, <3>6, <3>7, <3>8, <3>10, <3>11, <3>12, RowWrittenFits
  <2> QED BY <2>1, <2>2
<1>6. ASSUME NEW r \in Runs, OpenAlert(r) PROVE AlertInv'
  <2>0. /\ ~RunOver(r) /\ run[r].step = "open" /\ AtWork(run[r])
        /\ \A x \in Subjects : run[r].open[x] <= alert[x].id /\ run[r].open[x] \in Nat
    BY <1>6, AtWorkShape DEF OpenAlert, AlertInv, AtWork
  <2>1. PICK x : x = Subject(r)
    OBVIOUS
  <2>2. PICK new \in BOOLEAN : new = (run[r].open[x] = 0 /\ ~alert[x].open)
    OBVIOUS
  <2>3. /\ alert' = (IF new THEN [alert EXCEPT ![x] = Opened(x)] ELSE alert)
        /\ run' = [run EXCEPT ![r].step = "claim",
                      ![r].id = IF run[r].open[x] # 0 THEN run[r].open[x] ELSE alert'[x].id]
    <3>1. /\ alert' = (IF run[r].open[Subject(r)] = 0 /\ ~alert[Subject(r)].open
                       THEN [alert EXCEPT ![Subject(r)] = Opened(Subject(r))] ELSE alert)
          /\ run' = [run EXCEPT ![r].step = "claim",
                 ![r].id = IF run[r].open[Subject(r)] # 0 THEN run[r].open[Subject(r)]
                           ELSE alert'[Subject(r)].id]
      BY <1>6, Zenon DEF OpenAlert
    <3>2. alert' = (IF run[r].open[x] = 0 /\ ~alert[x].open
                    THEN [alert EXCEPT ![x] = Opened(x)] ELSE alert)
      BY <2>1, <3>1, Zenon
    <3>4. run' = [run EXCEPT ![r].step = "claim",
                     ![r].id = IF run[r].open[x] # 0 THEN run[r].open[x] ELSE alert'[x].id]
      BY <2>1, <3>1
    <3> HIDE DEF Opened
    <3> QED BY <2>2, <3>2, <3>4
  <2>4. PICK id : id = IF run[r].open[x] # 0 THEN run[r].open[x] ELSE alert'[x].id
    OBVIOUS
  <2>5. /\ run'[r] = [run[r] EXCEPT !.step = "claim", !.id = id]
        /\ \A q \in Runs : q # r => run'[q] = run[q]
    BY <2>3, <2>4 DEF DeskTypes
  <2>6. PICK w : w = [run[r] EXCEPT !.step = "claim", !.id = id]
    OBVIOUS
  <2>7. /\ run'[r] = w /\ w.step = "claim" /\ w.id = id /\ w.open = run[r].open
        /\ w.queue = run[r].queue
    BY <2>0, <2>5, <2>6 DEF AtWork
  <2>8. \A y \in Subjects : y # x => alert'[y] = alert[y]
    BY <1>0, <2>3
  <2>9. \A q \in Runs : q # r => run'[q] = run[q]
    BY <2>5
  <2>10. Opened(x).id = alert[x].id + 1 /\ Opened(x).sent = "never"
    BY DEF Opened, NoAlert
  <2>11. x \in Subjects => /\ alert[x].id \in Nat /\ alert[x].id <= alert'[x].id
                           /\ new => alert'[x].id = alert[x].id + 1
                           /\ ~new => alert'[x] = alert[x]
    <3> HIDE DEF Opened
    <3> QED BY <1>0, <2>3, <2>10 DEF AlertRow
  <2>12. \A y \in Subjects : ~Handling(r, y) /\ ~Handling(r, y)'
    BY <2>0, <2>7 DEF Handling, ClaimSteps
  <2>13. \A q \in Runs, y \in Subjects : Handling(q, y) => run[q].id \in Nat /\ run[q].id <= alert[y].id
    BY DEF AlertInv, Handling, ClaimSteps, NoRun
  <2>14. \A q \in Runs, y \in Subjects :
            /\ Handling(q, y)' => ~(y = x /\ new) /\ Handling(q, y) /\ run'[q] = run[q]
            /\ ~(y = x /\ new) /\ Handling(q, y) => Handling(q, y)' /\ run'[q] = run[q]
    <3> SUFFICES ASSUME NEW q \in Runs, NEW y \in Subjects
                 PROVE  /\ Handling(q, y)' => ~(y = x /\ new) /\ Handling(q, y) /\ run'[q] = run[q]
                        /\ ~(y = x /\ new) /\ Handling(q, y) => Handling(q, y)' /\ run'[q] = run[q]
      OBVIOUS
    <3>1. CASE q = r
      BY <2>12, <3>1
    <3>2. CASE q # r /\ ~(y = x /\ new)
      BY <2>8, <2>9, <2>11, <3>2 DEF Handling, RunOver, Subject
    <3>3. CASE q # r /\ y = x /\ new
      <4> SUFFICES ASSUME Handling(q, x)' PROVE FALSE
        BY <2>9, <3>3
      <4>1. /\ run'[q] = run[q] /\ ~RunOver(q) /\ run[q].step \in ClaimSteps /\ Subject(q) = x
            /\ run[q].id = alert'[x].id
        BY <2>9, <3>3 DEF Handling, RunOver, Subject
      <4>2. run[q].id \in Nat /\ run[q].id <= alert[x].id
        BY <3>3, <4>1 DEF AlertInv, ClaimSteps
      <4> QED BY <2>11, <3>3, <4>1, <4>2
    <3> QED BY <3>1, <3>2, <3>3
  <2>15. \A q \in Runs, y \in Subjects :
            ~RunOver(q)' /\ run'[q].step \in {"claim"} \cup ClaimSteps /\ Subject(q)' = y =>
               run'[q].id \in Nat /\ run'[q].id <= alert'[y].id
    <3> SUFFICES ASSUME NEW q \in Runs, NEW y \in Subjects, ~RunOver(q)',
                        run'[q].step \in {"claim"} \cup ClaimSteps, Subject(q)' = y
                 PROVE  run'[q].id \in Nat /\ run'[q].id <= alert'[y].id
      OBVIOUS
    <3>1. CASE q = r
      <4>1. y = x
        BY <2>1, <2>7, <3>1 DEF Subject
      <4>2. alert'[x].id \in Nat
        BY <2>11, <4>1
      <4>3. run[r].open[x] \in Nat /\ run[r].open[x] <= alert[x].id
        BY <2>0, <4>1
      <4> QED BY <2>4, <2>7, <2>11, <3>1, <4>1, <4>2, <4>3
    <3>2. CASE q # r
      <4>1. run[q].id \in Nat /\ run[q].id <= alert[y].id
        BY <2>9, <3>2 DEF AlertInv, RunOver, Subject, ClaimSteps
      <4>2. alert[y].id \in Nat /\ alert[y].id <= alert'[y].id /\ alert'[y].id \in Nat
        BY <1>0, <2>8, <2>11 DEF AlertRow, DeskTypes
      <4> QED BY <2>9, <3>2, <4>1, <4>2
    <3> QED BY <3>1, <3>2
  <2>16. \A q \in Runs : ~RunOver(q)' /\ run'[q].step # "listed" =>
            ~RunOver(q) /\ run[q].step # "listed" /\ run'[q].open = run[q].open
    BY <2>0, <2>7, <2>9 DEF RunOver
  <2>17. CASE x \in Subjects
    <3>2. \A p, q \in Runs : Handling(p, x)' /\ Handling(q, x)' => p = q
      BY <2>14, <2>17 DEF AlertInv
    <3>3. \A q \in Runs : Handling(q, x)' =>
              /\ alert'[x].open => alert'[x].claimed
              /\ alert'[x].tried = "just"
              /\ run'[q].step = "send" => alert'[x].sent # "today"
      BY <2>11, <2>14, <2>17 DEF AlertInv
    <3> QED BY <1>1, <2>8, <2>11, <2>14, <2>15, <2>16, <2>17, <3>2, <3>3, RowWrittenFits
  <2>18. CASE x \notin Subjects
    <3>1. alert' = alert
      BY <1>0, <2>3, <2>18
    <3>5. \A y \in Subjects, p, q \in Runs : Handling(p, y)' /\ Handling(q, y)' => p = q
      BY <2>14 DEF AlertInv
    <3>6. \A y \in Subjects, q \in Runs : Handling(q, y)' =>
              /\ alert'[y].open => alert'[y].claimed
              /\ alert'[y].tried = "just"
              /\ run'[q].step = "send" => alert'[y].sent # "today"
      BY <2>14, <3>1 DEF AlertInv
    <3>7. \A y \in Subjects, q \in Runs : ~RunOver(q)' /\ run'[q].step # "listed" => run'[q].open[y] <= alert'[y].id
      BY <2>16, <3>1 DEF AlertInv
    <3>8. mishaps' \in Nat
      BY <1>0, <1>1
    <3> QED BY <2>15, <3>5, <3>6, <3>7, <3>8 DEF AlertInv
  <2> QED BY <2>17, <2>18
<1>7. ASSUME NEW r \in Runs, NEW st \in ClaimSteps, NEW x, x = Subject(r), ~RunOver(r),
             run[r].step \in {"claim"} \cup ClaimSteps, run' = [run EXCEPT ![r].step = st],
             alert' \in [Subjects -> AlertRow],
             \A y \in Subjects : y # x => alert'[y] = alert[y],
             x \in Subjects =>
                /\ alert'[x].id = alert[x].id /\ alert'[x].sent = alert[x].sent
                /\ run[r].step = "claim" => ~ \E q \in Runs : Handling(q, x)
                /\ \A q \in Runs : Handling(q, x)' =>
                     /\ alert'[x].open => alert'[x].claimed
                     /\ alert'[x].tried = "just"
                     /\ run'[q].step = "send" => alert'[x].sent # "today"
      PROVE  AlertInv'
  <2>0. run[r].step # "listed" /\ AtWork(run[r])
    BY <1>7, AtWorkShape DEF ClaimSteps
  <2>1. PICK w : w = [run[r] EXCEPT !.step = st]
    OBVIOUS
  <2>2. run'[r] = w /\ \A q \in Runs : q # r => run'[q] = run[q]
    BY <1>7, <2>1 DEF DeskTypes
  <2>3. w.step = st /\ w.queue = run[r].queue /\ w.id = run[r].id /\ w.open = run[r].open
    BY <2>0, <2>1 DEF AtWork
  <2>4. /\ \A q \in Runs : q # r => run'[q] = run[q]
        /\ run'[r].step = st /\ Subject(r)' = x /\ run'[r].id = run[r].id
        /\ run'[r].open = run[r].open /\ ~RunOver(r)'
    BY <1>7, <2>2, <2>3 DEF Subject, RunOver, NoRun, ClaimSteps
  <2>5. \A q \in Runs, y \in Subjects : alert'[y].id = alert[y].id /\ alert[y].id \in Nat
    BY <1>0, <1>7 DEF AlertRow
  <2>6. \A q \in Runs, y \in Subjects : q # r => (Handling(q, y)' <=> Handling(q, y))
    BY <2>4, <2>5 DEF Handling, RunOver, Subject
  <2>7. \A y \in Subjects : Handling(r, y)' => y = x
    BY <1>7, <2>4 DEF Handling
  <2>8. \A y \in Subjects : Handling(r, y) => y = x
    BY <1>7 DEF Handling
  <2>9. \A q \in Runs, y \in Subjects :
           ~RunOver(q)' /\ run'[q].step \in {"claim"} \cup ClaimSteps /\ Subject(q)' = y =>
              run'[q].id \in Nat /\ run'[q].id <= alert'[y].id
    <3> SUFFICES ASSUME NEW q \in Runs, NEW y \in Subjects, ~RunOver(q)',
                        run'[q].step \in {"claim"} \cup ClaimSteps, Subject(q)' = y
                 PROVE  run'[q].id \in Nat /\ run'[q].id <= alert'[y].id
      OBVIOUS
    <3>1. CASE q = r
      <4>1. run[r].id \in Nat /\ run[r].id <= alert[y].id
        BY <1>7, <2>0, <2>4, <3>1 DEF AlertInv
      <4> QED BY <2>4, <2>5, <3>1, <4>1
    <3>2. CASE q # r
      <4>1. run[q].id \in Nat /\ run[q].id <= alert[y].id
        BY <2>4, <3>2 DEF AlertInv, RunOver, Subject, ClaimSteps
      <4> QED BY <2>4, <2>5, <3>2, <4>1
    <3> QED BY <3>1, <3>2
  <2>10. \A q \in Runs : ~RunOver(q)' /\ run'[q].step # "listed" =>
            ~RunOver(q) /\ run[q].step # "listed" /\ run'[q].open = run[q].open
    BY <1>7, <2>0, <2>4 DEF RunOver
  <2>11. CASE x \in Subjects
    <3>1. \A p, q \in Runs : Handling(p, x)' /\ Handling(q, x)' => p = q
      <4>1. Handling(r, x)' /\ run[r].step # "claim" => Handling(r, x)
        BY <1>7, <2>4, <2>5, <2>11 DEF Handling
      <4>2. \A p, q \in Runs : Handling(p, x) /\ Handling(q, x) => p = q
        BY <2>11 DEF AlertInv
      <4> QED BY <1>7, <2>6, <2>11, <4>1, <4>2
    <3>2. \A q \in Runs, y \in Subjects :
              /\ Handling(q, y)' => \/ Handling(q, y) /\ run'[q].step = run[q].step
                                    \/ y = x
              /\ y # x /\ Handling(q, y) => Handling(q, y)' /\ run'[q].step = run[q].step
      BY <2>4, <2>6, <2>7, <2>8
    <3>3. alert[x].id <= alert'[x].id
      BY <2>5, <2>11
    <3> HIDE DEF Handling
    <3> QED BY <1>1, <1>7, <2>9, <2>10, <2>11, <3>1, <3>2, <3>3, RowWrittenFits
  <2>12. CASE x \notin Subjects
    <3>1. \A y \in Subjects : alert'[y] = alert[y]
      BY <1>7, <2>12
    <3>2. \A q \in Runs, y \in Subjects :
             /\ Handling(q, y)' <=> Handling(q, y)
             /\ Handling(q, y) => run'[q].step = run[q].step
      BY <2>4, <2>6, <2>7, <2>8, <2>12
    <3>6. \A y \in Subjects, q \in Runs : ~RunOver(q)' /\ run'[q].step # "listed" => run'[q].open[y] <= alert'[y].id
      BY <2>10, <3>1 DEF AlertInv
    <3>7. \A y \in Subjects, q \in Runs : Handling(q, y)' =>
              /\ alert'[y].open => alert'[y].claimed
              /\ alert'[y].tried = "just"
              /\ run'[q].step = "send" => alert'[y].sent # "today"
      BY <3>1, <3>2 DEF AlertInv
    <3>8. \A y \in Subjects, p, q \in Runs : Handling(p, y)' /\ Handling(q, y)' => p = q
      BY <3>2 DEF AlertInv
    <3>9. mishaps' \in Nat
      BY <1>0, <1>1
    <3> QED BY <2>9, <3>6, <3>7, <3>8, <3>9 DEF AlertInv
  <2> QED BY <2>11, <2>12
<1>8. ASSUME NEW r \in Runs, ClaimAlert(r) PROVE AlertInv'
  <2>0. ~RunOver(r) /\ run[r].step = "claim"
    BY <1>8 DEF ClaimAlert
  <2>1. PICK x : x = Subject(r)
    OBVIOUS
  <2>2. CASE RowHeld(r) /\ MayClaim(alert[x])
    <3>1. /\ alert' = [alert EXCEPT ![x].claimed = TRUE, ![x].tried = "just"]
          /\ \E st \in ClaimSteps : run' = [run EXCEPT ![r].step = st]
      BY <1>8, <2>1, <2>2 DEF ClaimAlert, ClaimSteps
    <3>2. alert' \in [Subjects -> AlertRow]
      BY <1>0, <3>1, RowChanges DEF RowForms
    <3>3. /\ \A y \in Subjects : y # x => alert'[y] = alert[y]
          /\ x \in Subjects => /\ alert'[x].id = alert[x].id /\ alert'[x].sent = alert[x].sent
                               /\ alert'[x].claimed = TRUE /\ alert'[x].tried = "just"
      BY <1>0, <3>1 DEF AlertRow
    <3>4. alert[x].open /\ ~alert[x].claimed /\ alert[x].sent # "today"
      BY <2>2 DEF MayClaim
    <3>5. x \in Subjects => ~ \E q \in Runs : Handling(q, x)
      BY <3>4 DEF AlertInv
    <3>8. x \in Subjects => \A q \in Runs : Handling(q, x)' =>
                     /\ alert'[x].open => alert'[x].claimed
                     /\ alert'[x].tried = "just"
                     /\ run'[q].step = "send" => alert'[x].sent # "today"
      BY <3>3, <3>4
    <3>9. PICK st \in ClaimSteps : run' = [run EXCEPT ![r].step = st]
      BY <3>1
    <3>10. /\ \A y \in Subjects : y # x => alert'[y] = alert[y]
           /\ run[r].step \in {"claim"} \cup ClaimSteps
      BY <2>0, <3>3
    <3>11. x \in Subjects =>
                /\ alert'[x].id = alert[x].id /\ alert'[x].sent = alert[x].sent
                /\ run[r].step = "claim" => ~ \E q \in Runs : Handling(q, x)
                /\ \A q \in Runs : Handling(q, x)' =>
                     /\ alert'[x].open => alert'[x].claimed
                     /\ alert'[x].tried = "just"
                     /\ run'[q].step = "send" => alert'[x].sent # "today"
      BY <3>3, <3>5, <3>8
    <3> HIDE DEF Handling
    <3> QED BY <1>7, <2>0, <2>1, <3>2, <3>9, <3>10, <3>11
  <2>3. CASE ~(RowHeld(r) /\ MayClaim(alert[x]))
    <3>1. alert' = alert /\ run' = [run EXCEPT ![r] = NextSubject(r)]
      BY <1>8, <2>1, <2>3 DEF ClaimAlert
    <3> QED BY <1>2, <2>0, <3>1
  <2> QED BY <2>2, <2>3
<1>9. ASSUME NEW r \in Runs, SendAlert(r) \/ AlertAnswerLost(r) \/ AlertRefused(r) PROVE AlertInv'
  <2>0. ~RunOver(r) /\ run[r].step = "send" /\ alert' = alert
    BY <1>9 DEF SendAlert, AlertAnswerLost, AlertRefused
  <2>1. PICK x : x = Subject(r)
    OBVIOUS
  <2>3. PICK st \in ClaimSteps : run' = [run EXCEPT ![r].step = st]
    BY <1>9 DEF SendAlert, AlertAnswerLost, AlertRefused, ClaimSteps
  <2>4. AtWork(run[r])
    BY <2>0, AtWorkShape
  <2>5. /\ run'[r].step = st /\ run'[r].queue = run[r].queue /\ run'[r].id = run[r].id
        /\ \A q \in Runs : q # r => run'[q] = run[q]
    BY <2>3, <2>4 DEF DeskTypes, AtWork
  <2>8. ASSUME x \in Subjects, NEW q \in Runs, Handling(q, x)'
        PROVE  /\ alert'[x].open => alert'[x].claimed
               /\ alert'[x].tried = "just"
               /\ run'[q].step = "send" => alert'[x].sent # "today"
    <3>1. Handling(q, x) /\ (run'[q].step = "send" => run[q].step = "send")
      BY <2>0, <2>5, <2>8 DEF Handling, RunOver, Subject, ClaimSteps, NoRun
    <3> QED BY <2>0, <2>8, <3>1 DEF AlertInv
  <2>9. /\ run[r].step \in {"claim"} \cup ClaimSteps /\ run[r].step # "claim"
        /\ \A y \in Subjects : y # x => alert'[y] = alert[y]
    BY <2>0 DEF ClaimSteps
  <2>10. x \in Subjects =>
                /\ alert'[x].id = alert[x].id /\ alert'[x].sent = alert[x].sent
                /\ run[r].step = "claim" => ~ \E q \in Runs : Handling(q, x)
                /\ \A q \in Runs : Handling(q, x)' =>
                     /\ alert'[x].open => alert'[x].claimed
                     /\ alert'[x].tried = "just"
                     /\ run'[q].step = "send" => alert'[x].sent # "today"
    BY <2>0, <2>8, <2>9
  <2>11. alert' \in [Subjects -> AlertRow]
    BY <1>0, <2>0
  <2> HIDE DEF Handling
  <2> QED BY <1>7, <2>0, <2>1, <2>3, <2>9, <2>10, <2>11
<1>11. ASSUME NEW r \in Runs, RunCrashes(r) PROVE AlertInv'
  <2>0. /\ alert' = alert /\ mishaps' = mishaps + 1
        /\ run' = [run EXCEPT ![r] = NoRun]
    BY <1>11 DEF RunCrashes
  <2>1. run'[r] = NoRun /\ \A q \in Runs : q # r => run'[q] = run[q]
    BY <2>0 DEF DeskTypes
  <2> QED BY <1>1, <2>0, <2>1, RunAloneFits
<1>12. ASSUME NEW r \in Runs, ReleaseAlert(r) \/ RecordAlert(r) PROVE AlertInv'
  <2>0. /\ ~RunOver(r) /\ run[r].step \in {"release", "record"}
        /\ run' = [run EXCEPT ![r] = NextSubject(r)]
    BY <1>12 DEF ReleaseAlert, RecordAlert
  <2>1. PICK x : x = Subject(r)
    OBVIOUS
  <2>2. CASE RowHeld(r) /\ x \in Subjects
    <3>1. /\ alert'[x].id = alert[x].id /\ alert'[x].open = alert[x].open
          /\ run[r].step = "release" => alert'[x].sent = alert[x].sent
          /\ run[r].step = "record" => alert'[x].sent = "today"
          /\ \A y \in Subjects : y # x => alert'[y] = alert[y]
      BY <1>0, <1>12, <2>1, <2>2 DEF ReleaseAlert, RecordAlert, AlertRow
    <3>2. Handling(r, x)
      BY <2>0, <2>1, <2>2 DEF Handling, ClaimSteps, RowHeld
    <3>3. \A q \in Runs : Handling(q, x) => q = r
      BY <2>2, <3>2 DEF AlertInv
    <3>4. PICK w : w = NextSubject(r)
      OBVIOUS
    <3>5. w # NoRun => w.step = "open" /\ w.open = run[r].open
      BY <2>0, <3>4, AtWorkShape
    <3>6. run'[r] = w /\ \A q \in Runs : q # r => run'[q] = run[q]
      BY <2>0, <3>4 DEF DeskTypes
    <3>7. \A y \in Subjects : alert'[y].id = alert[y].id /\ alert[y].id \in Nat
      BY <1>0, <3>1 DEF AlertRow
    <3>8. \A y \in Subjects : ~Handling(r, y)'
      BY <3>5, <3>6 DEF Handling, RunOver, ClaimSteps, NoRun
    <3>9. \A q \in Runs, y \in Subjects :
             q # r => (Handling(q, y)' <=> Handling(q, y)) /\ run'[q] = run[q]
      BY <3>6, <3>7 DEF Handling, RunOver, Subject
    <3>10. \A y \in Subjects : Handling(r, y) => y = x
      BY <2>1 DEF Handling
    <3>11. \A q \in Runs : ~Handling(q, x)'
      BY <2>2, <3>3, <3>8, <3>9
    <3>13. \A q \in Runs : ~RunOver(q)' /\ run'[q].step # "listed" =>
              ~RunOver(q) /\ run[q].step # "listed" /\ run'[q].open = run[q].open
      BY <2>0, <3>5, <3>6 DEF RunOver
    <3>14. \A q \in Runs, y \in Subjects :
              ~RunOver(q)' /\ run'[q].step \in {"claim"} \cup ClaimSteps /\ Subject(q)' = y =>
                 run'[q].id \in Nat /\ run'[q].id <= alert'[y].id
      <4> SUFFICES ASSUME NEW q \in Runs, NEW y \in Subjects, ~RunOver(q)',
                          run'[q].step \in {"claim"} \cup ClaimSteps, Subject(q)' = y
                   PROVE  run'[q].id \in Nat /\ run'[q].id <= alert'[y].id
        OBVIOUS
      <4>1. q # r
        BY <3>5, <3>6 DEF RunOver, ClaimSteps
      <4> QED BY <3>6, <3>7, <4>1 DEF AlertInv, RunOver, Subject, ClaimSteps
    <3>15. \A q \in Runs, y \in Subjects :
              /\ Handling(q, y)' => \/ Handling(q, y) /\ run'[q].step = run[q].step
                                    \/ y = x
              /\ y # x /\ Handling(q, y) => Handling(q, y)' /\ run'[q].step = run[q].step
      BY <3>8, <3>9, <3>10
    <3>16. alert[x].id <= alert'[x].id /\ \A y \in Subjects : y # x => alert'[y] = alert[y]
      BY <2>0, <2>2, <3>1, <3>7
    <3> HIDE DEF Handling
    <3> QED BY <1>1, <2>2, <3>11, <3>13, <3>14, <3>15, <3>16, RowWrittenFits
  <2>3. CASE ~(RowHeld(r) /\ x \in Subjects)
    <3>1. alert' = alert
      BY <1>0, <1>12, <2>1, <2>3 DEF ReleaseAlert, RecordAlert
    <3> QED BY <1>2, <2>0, <3>1 DEF ClaimSteps
  <2> QED BY <2>2, <2>3
<1>13. ASSUME NEW x \in Subjects, HalfAnHour(x) \/ ADay(x) PROVE AlertInv'
  <2>0. /\ run' = run
        /\ alert[x].tried = "just" => ~BeingSent(x)
        /\ \A y \in Subjects : y # x => alert'[y] = alert[y]
        /\ alert'[x].id = alert[x].id
    BY <1>0, <1>13 DEF HalfAnHour, ADay, AlertRow
  <2>1. \A q \in Runs : ~Handling(q, x)
    BY <2>0 DEF AlertInv, BeingSent, Handling, ClaimSteps
  <2>2. \A y \in Subjects : alert'[y].id = alert[y].id /\ alert[y].id \in Nat
    BY <1>0, <2>0 DEF AlertRow
  <2>3. \A q \in Runs, y \in Subjects : Handling(q, y)' <=> Handling(q, y)
    BY <2>0, <2>2 DEF Handling, RunOver, Subject
  <2>5. \A q \in Runs : ~RunOver(q)' /\ run'[q].step # "listed" =>
           ~RunOver(q) /\ run[q].step # "listed" /\ run'[q].open = run[q].open
    BY <2>0 DEF RunOver
  <2>6. \A q \in Runs, y \in Subjects :
           ~RunOver(q)' /\ run'[q].step \in {"claim"} \cup ClaimSteps /\ Subject(q)' = y =>
              run'[q].id \in Nat /\ run'[q].id <= alert'[y].id
    BY <2>0, <2>2 DEF AlertInv, RunOver, Subject, ClaimSteps
  <2>7. \A q \in Runs, y \in Subjects : ~Handling(q, x)' /\ run'[q].step = run[q].step
    BY <2>0, <2>1, <2>3
  <2>8. alert[x].id <= alert'[x].id
    BY <2>2
  <2> HIDE DEF Handling
  <2> QED BY <1>1, <2>0, <2>3, <2>5, <2>6, <2>7, <2>8, RowWrittenFits
<1>14. CASE UNCHANGED <<alert, run>>
  <2>1. \A q \in Runs, y \in Subjects : Handling(q, y)' <=> Handling(q, y)
    BY <1>14 DEF Handling, RunOver, Subject
  <2>4. mishaps' \in Nat
    BY <1>0, <1>1
  <2> QED BY <1>14, <2>1, <2>4 DEF AlertInv, RunOver, Subject
<1>15. ASSUME NEW x \in Subjects, ProblemAppears(x) \/ ProblemGoes(x) PROVE UNCHANGED <<alert, run>>
  BY <1>15 DEF ProblemAppears, ProblemGoes
<1> QED
  BY <1>3, <1>4, <1>5, <1>6, <1>8, <1>9, <1>11, <1>12, <1>13, <1>14, <1>15, AlertingCases, DeskStands

\* So one run has a row at a time in every reachable state.
LEMMA DeskAlways == Spec => [](DeskTypes /\ AlertInv)
<1>1. DeskTypes /\ AlertInv /\ UNCHANGED vars => (DeskTypes /\ AlertInv)'
  <2> SUFFICES ASSUME DeskTypes, AlertInv, UNCHANGED vars PROVE (DeskTypes /\ AlertInv)'
    OBVIOUS
  <2>1. UNCHANGED <<alert, run, mishaps>>
    BY DEF vars, deskVars, careVars
  <2> QED BY <2>1 DEF DeskTypes, AlertInv, Handling, RunOver, Subject
<1>2. DeskTypes /\ AlertInv /\ [Next]_vars => (DeskTypes /\ AlertInv)'
  BY <1>1, DeskTypesStep, AlertStep
<1> QED BY <1>2, InitDesk, PTL DEF Spec

(***************************************************************************)
(* How many emails the desk gets about a subject.  A row owes one email    *)
(* until the desk is told that day, one run at a time has it in hand, and  *)
(* a row is opened for a reason: so emails, less one a day, stay within    *)
(* the rows and the mishaps, and the rows within the reasons.              *)
(***************************************************************************)

\* The runs about to send an email about a subject, on its row or on an old one.
Sends(x) == {r \in Runs : ~RunOver(r) /\ run[r].step = "send" /\ Subject(r) = x}

\* A run at one of two steps.
Mailing(r) == ~RunOver(r) /\ run[r].step \in {"send", "record"}

\* The day's email of a subject's row is in hand, or has gone unrecorded.
InHand(x) == \E r \in Runs : Handling(r, x) /\ run[r].step \in {"send", "record"}
Unrecorded(x) == \E r \in Runs : Handling(r, x) /\ run[r].step = "record"

\* A row that owes an email nobody has in hand, and a problem without a row.
Owed(x) == IF alert[x].open /\ alert[x].sent # "today" /\ ~InHand(x) THEN 1 ELSE 0
Missing(x) == IF x \in problem /\ ~alert[x].open THEN 1 ELSE 0

\* One subject's balance.
Balanced(x) ==
    /\ IsFiniteSet(Sends(x))
    /\ alert[x].sent = "today" \/ Unrecorded(x) => told[x] > 0
    /\ told[x] + Cardinality(Sends(x)) + Owed(x) <= alert[x].id + mishaps
    /\ alert[x].id + Missing(x) <= reasons[x]

CountTypes == told \in [Subjects -> Nat] /\ reasons \in [Subjects -> Nat]

CountInv == CountTypes /\ \A x \in Subjects : Balanced(x)

\* At the start nothing was sent, and nobody is sending.
LEMMA InitCount == Init => CountInv
<1> SUFFICES ASSUME Init PROVE CountInv
  OBVIOUS
<1>1. /\ alert = [x \in Subjects |-> NoAlert] /\ run = [r \in Runs |-> NoRun] /\ mishaps = 0
      /\ problem = {} /\ told = [x \in Subjects |-> 0] /\ reasons = [x \in Subjects |-> 0]
  BY DEF Init, DeskInit, CareInit
<1>2. \A r \in Runs : RunOver(r)
  BY <1>1 DEF RunOver
<1>3. NoAlert.id = 0 /\ NoAlert.open = FALSE /\ NoAlert.sent = "never"
  BY DEF NoAlert
<1>4. ASSUME NEW x \in Subjects PROVE Balanced(x)
  <2>1. Sends(x) = {}
    BY <1>2 DEF Sends
  <2>2. IsFiniteSet(Sends(x)) /\ Cardinality(Sends(x)) = 0
    BY <2>1, FS_EmptySet
  <2>3. Owed(x) = 0 /\ Missing(x) = 0 /\ ~Unrecorded(x)
    BY <1>1, <1>2, <1>3 DEF Owed, Missing, Unrecorded, Handling
  <2> QED BY <1>1, <1>3, <2>2, <2>3 DEF Balanced
<1> QED BY <1>1, <1>4 DEF CountInv, CountTypes

\* A balance that gains no more than rows, mishaps and reasons do still holds.
LEMMA StillBalanced ==
    ASSUME NEW x \in Subjects, Balanced(x), CountTypes, CountTypes', DeskTypes, DeskTypes',
           AlertInv, AlertInv', IsFiniteSet(Sends(x)'),
           alert'[x].sent = "today" \/ Unrecorded(x)' => told'[x] > 0,
           told'[x] + Cardinality(Sends(x)') + Owed(x)' + alert[x].id + mishaps
              <= told[x] + Cardinality(Sends(x)) + Owed(x) + alert'[x].id + mishaps',
           alert'[x].id + Missing(x)' + reasons[x] <= alert[x].id + Missing(x) + reasons'[x]
    PROVE  Balanced(x)'
<1>1. /\ told[x] \in Nat /\ told'[x] \in Nat /\ reasons[x] \in Nat /\ reasons'[x] \in Nat
      /\ mishaps \in Nat /\ mishaps' \in Nat
  BY DEF CountTypes, AlertInv
<1>2. alert[x].id \in Nat /\ alert'[x].id \in Nat
  BY DEF DeskTypes, AlertRow
<1>3. Cardinality(Sends(x)) \in Nat /\ Cardinality(Sends(x)') \in Nat
  BY FS_CardinalityType DEF Balanced
<1>4. Owed(x) \in Nat /\ Owed(x)' \in Nat /\ Missing(x) \in Nat /\ Missing(x)' \in Nat
  BY DEF Owed, Missing
<1>5. /\ told[x] + Cardinality(Sends(x)) + Owed(x) <= alert[x].id + mishaps
      /\ alert[x].id + Missing(x) <= reasons[x]
  BY DEF Balanced
<1> HIDE DEF Sends, Owed, Missing, Unrecorded
<1>6. told'[x] + Cardinality(Sends(x)') + Owed(x)' <= alert'[x].id + mishaps'
  BY <1>1, <1>2, <1>3, <1>4, <1>5
<1>7. alert'[x].id + Missing(x)' <= reasons'[x]
  BY <1>1, <1>2, <1>3, <1>4, <1>5
<1> QED BY <1>6, <1>7 DEF Balanced

\* A step of one run adds it to those about to send, or takes it away.
LEMMA SendsOf ==
    ASSUME NEW r \in Runs, \A q \in Runs : q # r => run'[q] = run[q], NEW x,
           IsFiniteSet(Sends(x))
    PROVE  /\ IsFiniteSet(Sends(x)')
           /\ Cardinality(Sends(x)) \in Nat /\ Cardinality(Sends(x)') \in Nat
           /\ (r \in Sends(x)') = (r \in Sends(x)) => Sends(x)' = Sends(x)
           /\ r \in Sends(x)' /\ r \notin Sends(x) =>
                 Cardinality(Sends(x)') = Cardinality(Sends(x)) + 1
           /\ r \notin Sends(x)' /\ r \in Sends(x) =>
                 Cardinality(Sends(x)') = Cardinality(Sends(x)) - 1
<1>1. \A q \in Runs : q # r => (q \in Sends(x)' <=> q \in Sends(x))
  BY DEF Sends, RunOver, Subject
<1>2. Sends(x) \subseteq Runs /\ Sends(x)' \subseteq Runs
  BY DEF Sends
<1>3. Sends(x)' = IF r \in Sends(x)' THEN Sends(x) \cup {r} ELSE Sends(x) \ {r}
  BY <1>1, <1>2
<1>4. /\ IsFiniteSet(Sends(x) \cup {r})
      /\ Cardinality(Sends(x) \cup {r})
            = IF r \in Sends(x) THEN Cardinality(Sends(x)) ELSE Cardinality(Sends(x)) + 1
  BY FS_AddElement
<1>5. /\ IsFiniteSet(Sends(x) \ {r})
      /\ Cardinality(Sends(x) \ {r})
            = IF r \in Sends(x) THEN Cardinality(Sends(x)) - 1 ELSE Cardinality(Sends(x))
  BY FS_RemoveElement
<1>6. IsFiniteSet(Sends(x)')
  BY <1>3, <1>4, <1>5
<1>7. Cardinality(Sends(x)) \in Nat /\ Cardinality(Sends(x)') \in Nat
  BY <1>6, FS_CardinalityType
<1>8. (r \in Sends(x)') = (r \in Sends(x)) => Sends(x)' = Sends(x)
  BY <1>1, <1>2
<1>9. r \in Sends(x)' /\ r \notin Sends(x) => Cardinality(Sends(x)') = Cardinality(Sends(x)) + 1
  BY <1>3, <1>4
<1>10. r \notin Sends(x)' /\ r \in Sends(x) => Cardinality(Sends(x)') = Cardinality(Sends(x)) - 1
  BY <1>3, <1>5
<1> QED BY <1>6, <1>7, <1>8, <1>9, <1>10

\* A run that is about neither sending nor recording changes nothing of who does.
LEMMA Quiet ==
    ASSUME NEW r \in Runs, \A q \in Runs : q # r => run'[q] = run[q], ~Mailing(r), ~Mailing(r)',
           NEW x, alert'[x].id = alert[x].id
    PROVE  Sends(x)' = Sends(x) /\ InHand(x)' = InHand(x) /\ Unrecorded(x)' = Unrecorded(x)
<1>1. \A q \in Runs : q # r => (Handling(q, x)' <=> Handling(q, x)) /\ run'[q] = run[q]
  BY DEF Handling, RunOver, Subject
<1>2. /\ ~(Handling(r, x) /\ run[r].step \in {"send", "record"})
      /\ ~(Handling(r, x)' /\ run'[r].step \in {"send", "record"})
  BY DEF Handling, Mailing
<1>3. InHand(x)' <=> InHand(x)
  <2> HIDE DEF Handling
  <2> QED BY <1>1, <1>2 DEF InHand
<1>4. Unrecorded(x)' <=> Unrecorded(x)
  <2> HIDE DEF Handling
  <2> QED BY <1>1, <1>2 DEF Unrecorded
<1>5. \A q \in Runs : q \in Sends(x)' <=> q \in Sends(x)
  BY DEF Sends, Mailing, RunOver, Subject
<1>6. Sends(x)' = Sends(x)
  BY <1>5 DEF Sends
<1> QED BY <1>3, <1>4, <1>6 DEF InHand, Unrecorded

\* So a step of such a run that leaves what is told and the row's state alone is balanced.
LEMMA QuietCount ==
    ASSUME DeskTypes, DeskTypes', AlertInv, AlertInv', CountInv, Next,
           NEW r \in Runs, \A q \in Runs : q # r => run'[q] = run[q], ~Mailing(r), ~Mailing(r)',
           UNCHANGED <<problem, told, reasons>>,
           \A y \in Subjects : /\ alert'[y].id = alert[y].id /\ alert'[y].open = alert[y].open
                               /\ alert'[y].sent = alert[y].sent
    PROVE  CountInv'
<1>1. CountTypes /\ CountTypes'
  BY DEF CountInv, CountTypes
<1>2. ASSUME NEW y \in Subjects PROVE Balanced(y)'
  <2>1. Sends(y)' = Sends(y) /\ InHand(y)' = InHand(y) /\ Unrecorded(y)' = Unrecorded(y)
    BY Quiet
  <2>2. Owed(y)' = Owed(y) /\ Missing(y)' = Missing(y)
    BY <2>1 DEF Owed, Missing
  <2>3. Balanced(y) /\ told'[y] = told[y] /\ reasons'[y] = reasons[y]
    BY DEF CountInv
  <2>4. mishaps \in Nat /\ mishaps' \in Nat /\ mishaps <= mishaps'
    BY MishapsGrow DEF AlertInv
  <2>5. alert'[y].sent = "today" \/ Unrecorded(y)' => told'[y] > 0
    BY <2>1, <2>3 DEF Balanced
  <2>6. IsFiniteSet(Sends(y)')
    BY <2>1, <2>3 DEF Balanced
  <2>7. told[y] \in Nat /\ reasons[y] \in Nat /\ alert[y].id \in Nat
    BY <1>1 DEF CountTypes, DeskTypes, AlertRow
  <2>8. Cardinality(Sends(y)) \in Nat /\ Owed(y) \in Nat /\ Missing(y) \in Nat
    BY <2>3, FS_CardinalityType DEF Balanced, Owed, Missing
  <2>9. Cardinality(Sends(y)') = Cardinality(Sends(y))
    BY <2>1
  <2> HIDE DEF Sends, Owed, Missing, Unrecorded
  <2>10. /\ told'[y] + Cardinality(Sends(y)') + Owed(y)' + alert[y].id + mishaps
              <= told[y] + Cardinality(Sends(y)) + Owed(y) + alert'[y].id + mishaps'
         /\ alert'[y].id + Missing(y)' + reasons[y] <= alert[y].id + Missing(y) + reasons'[y]
    BY <2>2, <2>3, <2>4, <2>7, <2>8, <2>9
  <2> QED BY <1>1, <2>3, <2>5, <2>6, <2>10, StillBalanced
<1> QED BY <1>1, <1>2 DEF CountInv

\* What a run's step leaves alone of the subjects it is not about.
LEMMA OthersBalanced ==
    ASSUME DeskTypes, DeskTypes', AlertInv, AlertInv', CountInv, CountTypes', Next,
           NEW r \in Runs, \A q \in Runs : q # r => run'[q] = run[q],
           NEW y \in Subjects, Mailing(r) => Subject(r) # y, Mailing(r)' => Subject(r)' # y,
           alert'[y] = alert[y], told'[y] = told[y], reasons'[y] = reasons[y], problem' = problem
    PROVE  Balanced(y)'
<1>1. \A q \in Runs : q # r => (Handling(q, y)' <=> Handling(q, y)) /\ run'[q] = run[q]
  BY DEF Handling, RunOver, Subject
<1>2. /\ ~(Handling(r, y) /\ run[r].step \in {"send", "record"})
      /\ ~(Handling(r, y)' /\ run'[r].step \in {"send", "record"})
  BY DEF Handling, Mailing
<1>3. (InHand(y)' <=> InHand(y)) /\ (Unrecorded(y)' <=> Unrecorded(y))
  <2> HIDE DEF Handling
  <2> QED BY <1>1, <1>2 DEF InHand, Unrecorded
<1>4. r \notin Sends(y) /\ r \notin Sends(y)'
  BY DEF Sends, Mailing
<1>5. Balanced(y) /\ CountTypes
  BY DEF CountInv
<1>6. Sends(y)' = Sends(y)
  BY <1>4, <1>5, SendsOf DEF Balanced
<1>7. Owed(y)' = Owed(y) /\ Missing(y)' = Missing(y)
  BY <1>3 DEF Owed, Missing
<1>8. mishaps \in Nat /\ mishaps' \in Nat /\ mishaps <= mishaps'
  BY MishapsGrow DEF AlertInv
<1>9. /\ alert'[y].sent = "today" \/ Unrecorded(y)' => told'[y] > 0
      /\ IsFiniteSet(Sends(y)')
  BY <1>3, <1>5, <1>6 DEF Balanced
<1>10. told[y] \in Nat /\ reasons[y] \in Nat /\ alert[y].id \in Nat
  BY <1>5 DEF CountTypes, DeskTypes, AlertRow
<1>11. Cardinality(Sends(y)) \in Nat /\ Owed(y) \in Nat /\ Missing(y) \in Nat
  BY <1>5, FS_CardinalityType DEF Balanced, Owed, Missing
<1>12. Cardinality(Sends(y)') = Cardinality(Sends(y))
  BY <1>6
<1> HIDE DEF Sends, Owed, Missing, Unrecorded
<1>13. /\ told'[y] + Cardinality(Sends(y)') + Owed(y)' + alert[y].id + mishaps
              <= told[y] + Cardinality(Sends(y)) + Owed(y) + alert'[y].id + mishaps'
       /\ alert'[y].id + Missing(y)' + reasons[y] <= alert[y].id + Missing(y) + reasons'[y]
  BY <1>7, <1>8, <1>10, <1>11, <1>12
<1> QED BY <1>5, <1>9, <1>13, StillBalanced

\* An alert closed under a problem, or opened for none, is one reason more.
LEMMA OpenAndCloseCount ==
    ASSUME DeskTypes, DeskTypes', AlertInv, AlertInv', CountInv, Next, NEW r \in Runs,
           CloseGone(r) \/ OpenAlert(r)
    PROVE  CountInv'
<1>0. /\ alert \in [Subjects -> AlertRow] /\ CountTypes
      /\ mishaps \in Nat /\ mishaps' \in Nat /\ mishaps <= mishaps'
  BY MishapsGrow DEF DeskTypes, CountInv, AlertInv
<1>1. ~RunOver(r) /\ run[r].step \in {"closing", "open"} /\ UNCHANGED <<problem, told>>
  BY DEF CloseGone, OpenAlert
<1>2. AtWork(run[r])
  BY <1>1, AtWorkShape
<1>3. /\ \A q \in Runs : q # r => run'[q] = run[q]
      /\ RunOver(r)' \/ run'[r].step \in {"closing", "open", "claim"}
  <2>1. CASE OpenAlert(r)
    <3>1. PICK id : run' = [run EXCEPT ![r].step = "claim", ![r].id = id]
      BY <2>1, Zenon DEF OpenAlert
    <3>2. /\ run'[r] = [run[r] EXCEPT !.step = "claim", !.id = id]
          /\ \A q \in Runs : q # r => run'[q] = run[q]
      BY <3>1 DEF DeskTypes
    <3> QED BY <1>2, <3>2 DEF AtWork
  <2>2. CASE CloseGone(r) /\ run[r].gone = {}
    <3>1. PICK w : /\ run' = [run EXCEPT ![r] = w]
                   /\ w = NoRun \/ w = [run[r] EXCEPT !.step = "open"]
      BY <2>2 DEF CloseGone, DeskTypes
    <3>2. run'[r] = w /\ \A q \in Runs : q # r => run'[q] = run[q]
      BY <3>1 DEF DeskTypes
    <3> QED BY <1>2, <3>1, <3>2 DEF AtWork, RunOver
  <2>3. CASE CloseGone(r) /\ run[r].gone # {}
    <3>1. PICK x : run' = [run EXCEPT ![r].gone = @ \ {x}]
      BY <2>3 DEF CloseGone
    <3>2. /\ run'[r] = [run[r] EXCEPT !.gone = @ \ {x}]
          /\ \A q \in Runs : q # r => run'[q] = run[q]
      BY <3>1 DEF DeskTypes
    <3> QED BY <1>1, <1>2, <3>2 DEF AtWork
  <2> QED BY <2>1, <2>2, <2>3
<1>4. ~Mailing(r) /\ ~Mailing(r)'
  BY <1>1, <1>3 DEF Mailing
<1>5. CASE UNCHANGED <<alert, reasons>>
  BY <1>1, <1>3, <1>4, <1>5, QuietCount
<1>6. ASSUME NEW x \in Subjects, reasons' = [reasons EXCEPT ![x] = @ + 1] \/ reasons' = reasons,
             \A y \in Subjects : y # x => alert'[y] = alert[y],
             Unrecorded(x)' => Unrecorded(x), alert'[x].sent = "today" => alert[x].sent = "today",
             \/ /\ alert[x].open /\ ~alert'[x].open /\ alert'[x].id = alert[x].id
                /\ x \in problem => reasons'[x] = reasons[x] + 1
             \/ /\ ~alert[x].open /\ alert'[x].open /\ alert'[x].id = alert[x].id + 1
                /\ x \notin problem => reasons'[x] = reasons[x] + 1
      PROVE  CountInv'
  <2>1. CountTypes'
    BY <1>0, <1>1, <1>6 DEF CountTypes
  <2>2. ASSUME NEW y \in Subjects, y # x PROVE Balanced(y)'
    <3>1. told'[y] = told[y] /\ reasons'[y] = reasons[y] /\ alert'[y] = alert[y]
      BY <1>0, <1>1, <1>6, <2>2 DEF CountTypes
    <3> QED BY <1>1, <1>3, <1>4, <2>1, <3>1, OthersBalanced
  <2>3. Balanced(x) /\ told'[x] = told[x] /\ told[x] \in Nat /\ reasons[x] \in Nat /\ alert[x].id \in Nat
    BY <1>0, <1>1 DEF CountInv, CountTypes, AlertRow
  <2>4. r \notin Sends(x) /\ r \notin Sends(x)'
    BY <1>4 DEF Sends, Mailing
  <2>5. Sends(x)' = Sends(x) /\ IsFiniteSet(Sends(x)')
    BY <1>3, <2>3, <2>4, SendsOf DEF Balanced
  <2>6. Cardinality(Sends(x)') = Cardinality(Sends(x)) /\ Cardinality(Sends(x)) \in Nat
    BY <2>3, <2>5, FS_CardinalityType DEF Balanced
  <2>7. alert'[x].sent = "today" \/ Unrecorded(x)' => told'[x] > 0
    BY <1>6, <2>3 DEF Balanced
  <2>8. reasons'[x] \in Nat /\ reasons'[x] >= reasons[x]
    BY <1>0, <1>6, <2>3 DEF CountTypes
  <2>9. CASE alert[x].open /\ ~alert'[x].open /\ alert'[x].id = alert[x].id
    <3>1. Owed(x) \in Nat /\ Owed(x)' = 0 /\ Missing(x) = 0
      BY <2>9 DEF Owed, Missing
    <3>2. Missing(x)' <= reasons'[x] - reasons[x] /\ Missing(x)' \in Nat
      BY <1>1, <1>6, <2>3, <2>8, <2>9 DEF Missing
    <3> HIDE DEF Sends, Owed, Missing, Unrecorded
    <3>3. /\ told'[x] + Cardinality(Sends(x)') + Owed(x)' + alert[x].id + mishaps
               <= told[x] + Cardinality(Sends(x)) + Owed(x) + alert'[x].id + mishaps'
          /\ alert'[x].id + Missing(x)' + reasons[x] <= alert[x].id + Missing(x) + reasons'[x]
      BY <1>0, <2>3, <2>6, <2>8, <2>9, <3>1, <3>2
    <3>4. Balanced(x)'
      BY <1>0, <1>6, <2>1, <2>3, <2>5, <2>7, <3>3, StillBalanced
    <3> QED BY <2>1, <2>2, <3>4 DEF CountInv
  <2>10. CASE ~alert[x].open /\ alert'[x].open /\ alert'[x].id = alert[x].id + 1
    <3>1. Owed(x) = 0 /\ Owed(x)' \in {0, 1} /\ Missing(x)' = 0
      BY <2>10 DEF Owed, Missing
    <3>2. 1 <= Missing(x) + reasons'[x] - reasons[x] /\ Missing(x) \in Nat
      BY <1>6, <2>3, <2>8, <2>10 DEF Missing
    <3> HIDE DEF Sends, Owed, Missing, Unrecorded
    <3>3. /\ told'[x] + Cardinality(Sends(x)') + Owed(x)' + alert[x].id + mishaps
               <= told[x] + Cardinality(Sends(x)) + Owed(x) + alert'[x].id + mishaps'
          /\ alert'[x].id + Missing(x)' + reasons[x] <= alert[x].id + Missing(x) + reasons'[x]
      BY <1>0, <2>3, <2>6, <2>8, <2>10, <3>1, <3>2
    <3>4. Balanced(x)'
      BY <1>0, <1>6, <2>1, <2>3, <2>5, <2>7, <3>3, StillBalanced
    <3> QED BY <2>1, <2>2, <3>4 DEF CountInv
  <2> QED BY <1>6, <2>9, <2>10
<1>7. CASE CloseGone(r) /\ run[r].gone # {}
  <2>1. PICK x \in run[r].gone :
            LET found == alert[x].open /\ alert[x].id = run[r].open[x] IN
            /\ alert' = IF found
                        THEN [alert EXCEPT ![x].open = FALSE, ![x].claimed = FALSE] ELSE alert
            /\ ByLateRun(x, found /\ x \in problem)
    BY <1>7 DEF CloseGone
  <2>2. x \in Subjects
    BY <1>2 DEF AtWork
  <2>3. CASE ~(alert[x].open /\ alert[x].id = run[r].open[x])
    BY <1>5, <2>1, <2>3 DEF ByLateRun
  <2>4. CASE alert[x].open /\ alert[x].id = run[r].open[x]
    <3>1. /\ \A y \in Subjects : y # x => alert'[y] = alert[y]
          /\ ~alert'[x].open /\ alert'[x].id = alert[x].id /\ alert'[x].sent = alert[x].sent
      BY <1>0, <2>1, <2>2, <2>4 DEF AlertRow
    <3>2. /\ reasons' = [reasons EXCEPT ![x] = @ + 1] \/ reasons' = reasons
          /\ x \in problem => reasons'[x] = reasons[x] + 1
      BY <1>0, <2>1, <2>2, <2>4 DEF ByLateRun, CountTypes
    <3>3. Unrecorded(x)' = Unrecorded(x)
      BY <1>3, <1>4, <3>1, Quiet
    <3> QED BY <1>6, <2>2, <2>4, <3>1, <3>2, <3>3
  <2> QED BY <2>3, <2>4
<1>8. CASE CloseGone(r) /\ run[r].gone = {}
  BY <1>5, <1>8 DEF CloseGone
<1>9. CASE OpenAlert(r)
  <2>1. PICK x : x = Subject(r)
    OBVIOUS
  <2>2. PICK new \in BOOLEAN : new = (run[r].open[x] = 0 /\ ~alert[x].open)
    OBVIOUS
  <2>3. /\ alert' = (IF new THEN [alert EXCEPT ![x] = Opened(x)] ELSE alert)
        /\ ByLateRun(x, new /\ x \notin problem)
    <3>1. /\ alert' = (IF run[r].open[Subject(r)] = 0 /\ ~alert[Subject(r)].open
                       THEN [alert EXCEPT ![Subject(r)] = Opened(Subject(r))] ELSE alert)
          /\ ByLateRun(Subject(r), (run[r].open[Subject(r)] = 0 /\ ~alert[Subject(r)].open)
                                     /\ Subject(r) \notin problem)
      BY <1>9, Zenon DEF OpenAlert
    <3> HIDE DEF Opened, ByLateRun, Subject
    <3> QED BY <2>1, <2>2, <3>1
  <2>4. CASE ~new
    BY <1>5, <2>3, <2>4 DEF ByLateRun
  <2>5. CASE x \notin Subjects
    <3>1. alert' = alert /\ reasons' = reasons
      BY <1>0, <2>3, <2>5 DEF ByLateRun, CountTypes
    <3> QED BY <1>5, <3>1
  <2>6. CASE new /\ x \in Subjects
    <3>1. /\ Opened(x).id = alert[x].id + 1 /\ Opened(x).sent = "never" /\ Opened(x).open
      BY DEF Opened, NoAlert
    <3>2. /\ \A y \in Subjects : y # x => alert'[y] = alert[y]
          /\ alert'[x].open /\ alert'[x].id = alert[x].id + 1 /\ alert'[x].sent = "never"
      <4> HIDE DEF Opened
      <4> QED BY <1>0, <2>3, <2>6, <3>1
    <3>3. /\ reasons' = [reasons EXCEPT ![x] = @ + 1] \/ reasons' = reasons
          /\ x \notin problem => reasons'[x] = reasons[x] + 1
      BY <1>0, <2>3, <2>6 DEF ByLateRun, CountTypes
    <3>4. ASSUME NEW q \in Runs PROVE ~Handling(q, x)'
      <4> SUFFICES ASSUME Handling(q, x)' PROVE FALSE
        OBVIOUS
      <4>1. q # r
        BY <1>3 DEF Handling, ClaimSteps
      <4>2. ~RunOver(q) /\ run[q].step \in ClaimSteps /\ Subject(q) = x /\ run[q].id = alert'[x].id
        BY <1>3, <4>1 DEF Handling, RunOver, Subject
      <4>3. run[q].id \in Nat /\ run[q].id <= alert[x].id /\ alert[x].id \in Nat
        BY <1>0, <2>6, <4>2 DEF AlertInv, ClaimSteps, AlertRow
      <4> QED BY <3>2, <4>2, <4>3
    <3>5. ~Unrecorded(x)'
      BY <3>4 DEF Unrecorded
    <3> QED BY <1>6, <2>2, <2>6, <3>2, <3>3, <3>5
  <2> QED BY <2>4, <2>5, <2>6
<1> QED BY <1>7, <1>8, <1>9

\* A claim takes the row's one email in hand.
LEMMA ClaimCount ==
    ASSUME DeskTypes, DeskTypes', AlertInv, AlertInv', CountInv, Next, NEW r \in Runs, ClaimAlert(r)
    PROVE  CountInv'
<1>0. /\ alert \in [Subjects -> AlertRow] /\ CountTypes
      /\ mishaps \in Nat /\ mishaps' \in Nat /\ mishaps <= mishaps'
  BY MishapsGrow DEF DeskTypes, CountInv, AlertInv
<1>1. ~RunOver(r) /\ run[r].step = "claim" /\ UNCHANGED <<problem, told, reasons>>
  BY DEF ClaimAlert
<1>2. AtWork(run[r])
  BY <1>1, AtWorkShape
<1>3. ~Mailing(r) /\ CountTypes'
  BY <1>0, <1>1 DEF Mailing, CountTypes
<1>4. CASE run' = [run EXCEPT ![r] = NextSubject(r)] /\ alert' = alert
  <2>1. run'[r] = NextSubject(r) /\ \A q \in Runs : q # r => run'[q] = run[q]
    BY <1>4 DEF DeskTypes
  <2>2. ~Mailing(r)'
    <3>1. RunOver(r)' \/ run'[r].step = "open"
      <4> HIDE DEF NextSubject
      <4> QED BY <1>1, <2>1, AtWorkShape DEF RunOver
    <3> QED BY <3>1 DEF Mailing
  <2> QED BY <1>1, <1>3, <1>4, <2>1, <2>2, QuietCount
<1>5. ASSUME RowHeld(r), MayClaim(alert[Subject(r)]), NEW st \in {"send", "release"},
             run' = [run EXCEPT ![r].step = st],
             alert' = [alert EXCEPT ![Subject(r)].claimed = TRUE, ![Subject(r)].tried = "just"]
      PROVE  CountInv'
  <2>1. PICK x : x = Subject(r)
    OBVIOUS
  <2>2. /\ run'[r].step = st /\ run'[r].queue = run[r].queue /\ run'[r].id = run[r].id
        /\ ~RunOver(r)'
        /\ \A q \in Runs : q # r => run'[q] = run[q]
    <3>1. run'[r] = [run[r] EXCEPT !.step = st] /\ \A q \in Runs : q # r => run'[q] = run[q]
      BY <1>5 DEF DeskTypes
    <3>2. run'[r].step = st /\ run'[r].queue = run[r].queue /\ run'[r].id = run[r].id
      BY <1>2, <3>1 DEF AtWork
    <3>3. run'[r] # NoRun
      BY <1>5, <3>2 DEF NoRun
    <3> QED BY <3>1, <3>2, <3>3 DEF RunOver
  <2>3. \A y \in Subjects : /\ alert'[y].id = alert[y].id /\ alert'[y].open = alert[y].open
                            /\ alert'[y].sent = alert[y].sent /\ (y # x => alert'[y] = alert[y])
    BY <1>0, <1>5, <2>1 DEF AlertRow
  <2>4. CASE st = "release"
    <3>1. ~Mailing(r)'
      BY <2>2, <2>4 DEF Mailing
    <3> QED BY <1>1, <1>3, <2>2, <2>3, <3>1, QuietCount
  <2>5. ASSUME st = "send", NEW y \in Subjects PROVE Balanced(y)'
    <3>1. Subject(r)' = x
      BY <2>1, <2>2 DEF Subject
    <3>2. CASE y # x
      BY <1>1, <1>3, <2>1, <2>2, <2>3, <2>5, <3>1, <3>2, OthersBalanced
    <3>3. CASE y = x
      <4>1. r \notin Sends(y) /\ r \in Sends(y)'
        BY <1>1, <2>2, <2>5, <3>1, <3>3 DEF Sends
      <4>2. Balanced(y) /\ told'[y] = told[y] /\ reasons'[y] = reasons[y]
            /\ told[y] \in Nat /\ reasons[y] \in Nat /\ alert[y].id \in Nat
        BY <1>0, <1>1, <2>5 DEF CountInv, CountTypes, AlertRow
      <4>3. /\ IsFiniteSet(Sends(y)') /\ Cardinality(Sends(y)) \in Nat
            /\ Cardinality(Sends(y)') = Cardinality(Sends(y)) + 1
        <5>1. IsFiniteSet(Sends(y))
          BY <4>2 DEF Balanced
        <5> HIDE DEF Sends
        <5> QED BY <2>2, <4>1, <5>1, SendsOf
      <4>4. alert[y].open /\ ~alert[y].claimed /\ alert[y].sent # "today"
        BY <1>5, <2>1, <3>3 DEF MayClaim
      <4>5. \A q \in Runs : ~Handling(q, y)
        BY <2>5, <4>4 DEF AlertInv
      <4>6. Owed(y) = 1
        BY <4>4, <4>5 DEF Owed, InHand
      <4>7. Handling(r, y)'
        BY <1>5, <2>1, <2>2, <2>3, <2>5, <3>1, <3>3 DEF Handling, ClaimSteps, RowHeld
      <4>8. Owed(y)' = 0
        BY <2>2, <2>5, <4>7 DEF Owed, InHand
      <4>9. ~Unrecorded(y)'
        <5>1. \A q \in Runs : q # r => ~Handling(q, y)'
          BY <2>2, <2>3, <2>5, <4>5 DEF Handling, RunOver, Subject
        <5> QED BY <2>2, <2>5, <5>1 DEF Unrecorded
      <4>10. alert'[y].sent # "today" /\ alert'[y].id = alert[y].id
        BY <2>3, <2>5, <4>4
      <4>11. Missing(y)' = Missing(y) /\ Missing(y) \in Nat
        BY <1>1, <2>3, <2>5 DEF Missing
      <4> HIDE DEF Sends, Owed, Missing, Unrecorded
      <4>12. /\ told'[y] + Cardinality(Sends(y)') + Owed(y)' + alert[y].id + mishaps
                  <= told[y] + Cardinality(Sends(y)) + Owed(y) + alert'[y].id + mishaps'
             /\ alert'[y].id + Missing(y)' + reasons[y] <= alert[y].id + Missing(y) + reasons'[y]
        BY <1>0, <4>2, <4>3, <4>6, <4>8, <4>10, <4>11
      <4> QED BY <1>0, <1>3, <2>5, <4>2, <4>3, <4>9, <4>10, <4>12, StillBalanced
    <3> QED BY <3>2, <3>3
  <2> QED BY <1>3, <1>5, <2>4, <2>5 DEF CountInv
<1>6. \/ run' = [run EXCEPT ![r] = NextSubject(r)] /\ alert' = alert
      \/ /\ RowHeld(r) /\ MayClaim(alert[Subject(r)])
         /\ \E st \in {"send", "release"} : run' = [run EXCEPT ![r].step = st]
         /\ alert' = [alert EXCEPT ![Subject(r)].claimed = TRUE, ![Subject(r)].tried = "just"]
  BY DEF ClaimAlert
<1> QED BY <1>4, <1>5, <1>6

\* An email that arrives is told; a mishap pays for one that is to be sent again.
LEMMA SendCount ==
    ASSUME DeskTypes, DeskTypes', AlertInv, AlertInv', CountInv, Next, NEW r \in Runs,
           SendAlert(r) \/ AlertAnswerLost(r) \/ AlertRefused(r)
    PROVE  CountInv'
<1>0. /\ alert \in [Subjects -> AlertRow] /\ CountTypes
      /\ mishaps \in Nat /\ mishaps' \in Nat
  BY DEF DeskTypes, CountInv, AlertInv
<1>1. /\ ~RunOver(r) /\ run[r].step = "send" /\ UNCHANGED <<problem, alert, reasons>>
  BY DEF SendAlert, AlertAnswerLost, AlertRefused
<1>2. AtWork(run[r])
  BY <1>1, AtWorkShape
<1>3. PICK x : x = Subject(r)
  OBVIOUS
<1>4. PICK st \in {"send", "record", "release"}, n \in {0, 1} :
        /\ run' = [run EXCEPT ![r].step = st]
        /\ told' = IF n = 1 THEN [told EXCEPT ![x] = @ + 1] ELSE told
        /\ st = "record" => n = 1 /\ mishaps' = mishaps
        /\ st # "record" => mishaps' = mishaps + 1
        /\ st = "send" => n = 1
  BY <1>3 DEF SendAlert, AlertAnswerLost, AlertRefused, Arrives
<1>5. /\ run'[r].step = st /\ run'[r].queue = run[r].queue /\ run'[r].id = run[r].id
      /\ ~RunOver(r)' /\ Subject(r)' = x
      /\ \A q \in Runs : q # r => run'[q] = run[q]
  <2>1. run'[r] = [run[r] EXCEPT !.step = st] /\ \A q \in Runs : q # r => run'[q] = run[q]
    BY <1>4 DEF DeskTypes
  <2>2. run'[r].step = st /\ run'[r].queue = run[r].queue /\ run'[r].id = run[r].id
    BY <1>2, <2>1 DEF AtWork
  <2>3. run'[r] # NoRun
    BY <2>2 DEF NoRun
  <2> QED BY <1>3, <2>1, <2>2, <2>3 DEF RunOver, Subject
<1>6. CountTypes'
  <2>1. told \in [Subjects -> Nat]
    BY <1>0 DEF CountTypes
  <2>2. [told EXCEPT ![x] = @ + 1] \in [Subjects -> Nat]
    <3>1. [told EXCEPT ![x] = @ + 1] = [y \in Subjects |-> IF y = x THEN told[y] + 1 ELSE told[y]]
      BY <2>1
    <3>2. \A y \in Subjects : (IF y = x THEN told[y] + 1 ELSE told[y]) \in Nat
      BY <2>1
    <3> QED BY <3>1, <3>2
  <2>3. told' \in [Subjects -> Nat]
    BY <1>4, <2>1, <2>2
  <2> QED BY <1>0, <1>1, <2>3 DEF CountTypes
<1>7. ASSUME NEW y \in Subjects PROVE Balanced(y)'
  <2>1. Balanced(y) /\ told[y] \in Nat /\ reasons[y] \in Nat /\ alert[y].id \in Nat
    BY <1>0 DEF CountInv, CountTypes, AlertRow
  <2>2. CASE y # x
    <3>1. told'[y] = told[y]
      BY <1>0, <1>4, <2>2 DEF CountTypes
    <3> QED BY <1>1, <1>3, <1>5, <1>6, <2>2, <3>1, OthersBalanced
  <2>3. CASE y = x
    <3>1. told'[y] = told[y] + n
      BY <1>0, <1>4, <2>1, <2>3 DEF CountTypes
    <3>2. r \in Sends(y) /\ (r \in Sends(y)' <=> st = "send")
      BY <1>1, <1>3, <1>5, <2>3 DEF Sends
    <3>3. /\ IsFiniteSet(Sends(y)') /\ Cardinality(Sends(y)) \in Nat /\ Cardinality(Sends(y)') \in Nat
          /\ Cardinality(Sends(y)') = Cardinality(Sends(y)) - (IF st = "send" THEN 0 ELSE 1)
      <4>1. IsFiniteSet(Sends(y))
        BY <2>1 DEF Balanced
      <4> HIDE DEF Sends
      <4>2. CASE st = "send"
        <5>1. (r \in Sends(y)') = (r \in Sends(y))
          BY <3>2, <4>2
        <5>2. /\ IsFiniteSet(Sends(y)') /\ Cardinality(Sends(y)) \in Nat
              /\ Sends(y)' = Sends(y)
          BY <1>5, <4>1, <5>1, SendsOf
        <5>3. Cardinality(Sends(y)') = Cardinality(Sends(y))
          BY <5>2
        <5> QED BY <4>2, <5>2, <5>3
      <4>3. CASE st # "send"
        BY <1>5, <3>2, <4>1, <4>3, SendsOf
      <4> QED BY <4>2, <4>3
    <3>4. \A q \in Runs : /\ Handling(q, y)' <=> Handling(q, y)
                          /\ q # r => run'[q] = run[q]
      BY <1>1, <1>3, <1>5, <2>3 DEF Handling, RunOver, Subject, ClaimSteps
    <3>5. (InHand(y) => InHand(y)') \/ st = "release"
      <4> HIDE DEF Handling
      <4> QED BY <1>5, <3>4 DEF InHand
    <3>6. Owed(y) \in {0, 1} /\ Owed(y)' \in {0, 1} /\ (st # "release" => Owed(y)' <= Owed(y))
      BY <1>1, <3>5 DEF Owed
    <3>7. st # "record" => (Unrecorded(y)' => Unrecorded(y))
      <4> HIDE DEF Handling
      <4> QED BY <1>5, <3>4 DEF Unrecorded
    <3>8. alert'[y].sent = "today" \/ Unrecorded(y)' => told'[y] > 0
      BY <1>1, <1>4, <2>1, <3>1, <3>7 DEF Balanced
    <3>9. Missing(y)' = Missing(y) /\ Missing(y) \in Nat
      BY <1>1 DEF Missing
    <3> HIDE DEF Sends, Owed, Missing, Unrecorded
    <3>10. told'[y] + Cardinality(Sends(y)') + Owed(y)' + alert[y].id + mishaps
                <= told[y] + Cardinality(Sends(y)) + Owed(y) + alert'[y].id + mishaps'
      BY <1>0, <1>1, <1>4, <2>1, <3>1, <3>3, <3>6
    <3>11. alert'[y].id + Missing(y)' + reasons[y] <= alert[y].id + Missing(y) + reasons'[y]
      BY <1>1, <2>1, <3>9
    <3> QED BY <1>0, <1>6, <2>1, <3>3, <3>8, <3>10, <3>11, StillBalanced
  <2> QED BY <2>2, <2>3
<1> QED BY <1>6, <1>7 DEF CountInv

\* A run that ends early is a mishap, with its email on its way or gone unrecorded; one that
\* records what it sent is paid for already.
LEMMA EndCount ==
    ASSUME DeskTypes, DeskTypes', AlertInv, AlertInv', CountInv, Next, NEW r \in Runs,
           RunCrashes(r) \/ ReleaseAlert(r) \/ RecordAlert(r)
    PROVE  CountInv'
<1>0. /\ alert \in [Subjects -> AlertRow] /\ CountTypes
      /\ mishaps \in Nat /\ mishaps' \in Nat /\ mishaps <= mishaps'
  BY MishapsGrow DEF DeskTypes, CountInv, AlertInv
<1>1. ~RunOver(r) /\ UNCHANGED <<problem, told, reasons>>
  BY DEF RunCrashes, ReleaseAlert, RecordAlert
<1>2. \/ run' = [run EXCEPT ![r] = NoRun]
      \/ run' = [run EXCEPT ![r] = NextSubject(r)] /\ run[r].step # "listed"
  BY DEF RunCrashes, ReleaseAlert, RecordAlert
<1>3. run'[r] \in {NoRun, NextSubject(r)} /\ \A q \in Runs : q # r => run'[q] = run[q]
  BY <1>2 DEF DeskTypes
<1>4. ~Mailing(r)' /\ \A y \in Subjects : ~Handling(r, y)'
  <2>1. RunOver(r)' \/ run'[r].step = "open"
    <3> HIDE DEF NextSubject
    <3> QED BY <1>1, <1>2, <1>3, AtWorkShape DEF RunOver, DeskTypes
  <2> QED BY <2>1 DEF Mailing, Handling, ClaimSteps
<1>5. CountTypes'
  BY <1>0, <1>1 DEF CountTypes
<1>6. PICK x : x = Subject(r)
  OBVIOUS
<1>7. \A y \in Subjects : /\ alert'[y].id = alert[y].id /\ alert'[y].open = alert[y].open
                          /\ y # x => alert'[y] = alert[y]
  <2>1. \/ alert' = alert
        \/ alert' = [alert EXCEPT ![x].claimed = FALSE]
        \/ alert' = [alert EXCEPT ![x].claimed = FALSE, ![x].sent = "today", ![x].sends = 1]
    BY <1>6 DEF RunCrashes, ReleaseAlert, RecordAlert
  <2> QED BY <1>0, <2>1 DEF AlertRow
<1>8. CASE ReleaseAlert(r)
  <2>1. \A y \in Subjects : alert'[y].sent = alert[y].sent
    BY <1>0, <1>8 DEF ReleaseAlert, AlertRow
  <2>2. ~Mailing(r)
    BY <1>8 DEF ReleaseAlert, Mailing
  <2> QED BY <1>1, <1>3, <1>4, <1>7, <2>1, <2>2, QuietCount
<1>9. ASSUME RunCrashes(r) \/ RecordAlert(r), NEW y \in Subjects PROVE Balanced(y)'
  <2>1. Balanced(y) /\ told'[y] = told[y] /\ reasons'[y] = reasons[y]
        /\ told[y] \in Nat /\ reasons[y] \in Nat /\ alert[y].id \in Nat
    BY <1>0, <1>1, <1>9 DEF CountInv, CountTypes, AlertRow
  <2>2. CASE y # x
    BY <1>1, <1>3, <1>4, <1>5, <1>6, <1>7, <1>9, <2>1, <2>2, OthersBalanced
  <2>3. CASE y = x
    <3>1. /\ IsFiniteSet(Sends(y)') /\ Cardinality(Sends(y)) \in Nat /\ Cardinality(Sends(y)') \in Nat
          /\ Cardinality(Sends(y)') <= Cardinality(Sends(y))
      <4>1. IsFiniteSet(Sends(y))
        BY <2>1 DEF Balanced
      <4>2. r \notin Sends(y)'
        BY <1>4 DEF Sends, Mailing
      <4>3. /\ IsFiniteSet(Sends(y)') /\ Cardinality(Sends(y)) \in Nat /\ Cardinality(Sends(y)') \in Nat
            /\ (r \in Sends(y)') = (r \in Sends(y)) => Sends(y)' = Sends(y)
            /\ r \in Sends(y) => Cardinality(Sends(y)') = Cardinality(Sends(y)) - 1
        <5> HIDE DEF Sends
        <5> QED BY <1>3, <4>1, <4>2, SendsOf
      <4>4. r \notin Sends(y) => Sends(y)' = Sends(y)
        BY <4>2, <4>3
      <4>5. CASE r \in Sends(y)
        <5> HIDE DEF Sends
        <5> QED BY <4>3, <4>5
      <4>6. CASE r \notin Sends(y)
        <5>1. Cardinality(Sends(y)') = Cardinality(Sends(y))
          BY <4>4, <4>6
        <5> QED BY <4>3, <5>1
      <4> QED BY <4>5, <4>6
    <3>2. \A q \in Runs : q # r => (Handling(q, y)' <=> Handling(q, y)) /\ run'[q] = run[q]
      BY <1>3, <1>7, <1>9 DEF Handling, RunOver, Subject
    <3>3. Unrecorded(y)' => Unrecorded(y)
      <4> HIDE DEF Handling
      <4> QED BY <1>4, <1>9, <3>2 DEF Unrecorded
    <3>4. Owed(y) \in {0, 1} /\ Owed(y)' \in {0, 1} /\ Missing(y)' = Missing(y) /\ Missing(y) \in Nat
      BY <1>1, <1>7, <1>9 DEF Owed, Missing
    <3>5. CASE RunCrashes(r)
      <4>1. alert' = alert /\ mishaps' = mishaps + 1
        BY <3>5 DEF RunCrashes
      <4>2. alert'[y].sent = "today" \/ Unrecorded(y)' => told'[y] > 0
        BY <2>1, <3>3, <4>1 DEF Balanced
      <4> HIDE DEF Sends, Owed, Missing, Unrecorded
      <4>3. /\ told'[y] + Cardinality(Sends(y)') + Owed(y)' + alert[y].id + mishaps
                 <= told[y] + Cardinality(Sends(y)) + Owed(y) + alert'[y].id + mishaps'
            /\ alert'[y].id + Missing(y)' + reasons[y] <= alert[y].id + Missing(y) + reasons'[y]
        BY <1>0, <2>1, <3>1, <3>4, <4>1
      <4> QED BY <1>0, <1>5, <1>9, <2>1, <3>1, <4>2, <4>3, StillBalanced
    <3>6. CASE RecordAlert(r)
      <4>0. run[r].step = "record" /\ alert'[y].id = alert[y].id
        BY <1>7, <1>9, <3>6 DEF RecordAlert
      <4>1. CASE RowHeld(r)
        <5>1. Handling(r, y)
          BY <1>1, <1>6, <2>3, <4>0, <4>1 DEF Handling, RowHeld, ClaimSteps
        <5>2. Unrecorded(y) /\ told[y] > 0
          <6>1. Unrecorded(y)
            BY <4>0, <5>1 DEF Unrecorded
          <6> QED BY <2>1, <6>1 DEF Balanced
        <5>3. alert'[y].sent = "today"
          BY <1>0, <1>6, <1>9, <2>3, <3>6, <4>1 DEF RecordAlert, AlertRow
        <5>4. Owed(y)' = 0
          BY <5>3 DEF Owed
        <5> HIDE DEF Sends, Owed, Missing, Unrecorded
        <5>5. /\ told'[y] + Cardinality(Sends(y)') + Owed(y)' + alert[y].id + mishaps
                   <= told[y] + Cardinality(Sends(y)) + Owed(y) + alert'[y].id + mishaps'
              /\ alert'[y].id + Missing(y)' + reasons[y] <= alert[y].id + Missing(y) + reasons'[y]
          BY <1>0, <2>1, <3>1, <3>4, <4>0, <5>4
        <5> QED BY <1>0, <1>5, <1>9, <2>1, <3>1, <5>2, <5>5, StillBalanced
      <4>2. CASE ~RowHeld(r)
        <5>1. alert' = alert
          BY <3>6, <4>2 DEF RecordAlert
        <5>2. ~Handling(r, y)
          BY <1>6, <2>3, <4>2 DEF Handling, RowHeld
        <5>3. InHand(y) => InHand(y)'
          <6> HIDE DEF Handling
          <6> QED BY <3>2, <5>2 DEF InHand
        <5>4. Owed(y)' <= Owed(y)
          BY <5>1, <5>3 DEF Owed
        <5>5. alert'[y].sent = "today" \/ Unrecorded(y)' => told'[y] > 0
          BY <2>1, <3>3, <5>1 DEF Balanced
        <5> HIDE DEF Sends, Owed, Missing, Unrecorded
        <5>6. /\ told'[y] + Cardinality(Sends(y)') + Owed(y)' + alert[y].id + mishaps
                   <= told[y] + Cardinality(Sends(y)) + Owed(y) + alert'[y].id + mishaps'
              /\ alert'[y].id + Missing(y)' + reasons[y] <= alert[y].id + Missing(y) + reasons'[y]
          BY <1>0, <2>1, <3>1, <3>4, <4>0, <5>4
        <5> QED BY <1>0, <1>5, <1>9, <2>1, <3>1, <5>5, <5>6, StillBalanced
      <4> QED BY <4>1, <4>2
    <3> QED BY <1>9, <3>5, <3>6
  <2> QED BY <2>2, <2>3
<1> QED BY <1>5, <1>8, <1>9 DEF CountInv

\* A day passes over a row that was told of; a problem that appears is a reason; and nothing
\* is owed for one that goes.
LEMMA WorldCount ==
    ASSUME DeskTypes, DeskTypes', AlertInv, AlertInv', CountInv, Next, NEW x \in Subjects,
           HalfAnHour(x) \/ ADay(x) \/ ProblemAppears(x) \/ ProblemGoes(x)
    PROVE  CountInv'
<1>0. /\ alert \in [Subjects -> AlertRow] /\ CountTypes
      /\ mishaps \in Nat /\ mishaps' \in Nat /\ mishaps <= mishaps'
  BY MishapsGrow DEF DeskTypes, CountInv, AlertInv
<1>1. /\ run' = run
      /\ \A y \in Subjects : /\ alert'[y].id = alert[y].id /\ alert'[y].open = alert[y].open
                             /\ y # x => alert'[y].sent = alert[y].sent
      /\ \A y \in Subjects : y # x => (y \in problem' <=> y \in problem)
  BY <1>0 DEF HalfAnHour, ADay, ProblemAppears, ProblemGoes, AlertRow
<1>2. \A y \in Subjects : \A q \in Runs : Handling(q, y)' <=> Handling(q, y)
  BY <1>1 DEF Handling, RunOver, Subject
<1>3. ASSUME NEW y \in Subjects
      PROVE  Sends(y)' = Sends(y) /\ (InHand(y)' <=> InHand(y)) /\ (Unrecorded(y)' <=> Unrecorded(y))
  <2>1. Sends(y)' = Sends(y)
    BY <1>1 DEF Sends, RunOver, Subject
  <2> HIDE DEF Handling
  <2> QED BY <1>1, <1>2, <1>3, <2>1 DEF InHand, Unrecorded
<1>4. ASSUME NEW y \in Subjects
      PROVE  /\ Balanced(y) /\ told[y] \in Nat /\ reasons[y] \in Nat /\ alert[y].id \in Nat
             /\ IsFiniteSet(Sends(y)') /\ Cardinality(Sends(y)) \in Nat
             /\ Cardinality(Sends(y)') = Cardinality(Sends(y))
             /\ Owed(y) \in {0, 1} /\ Owed(y)' \in {0, 1} /\ Missing(y) \in {0, 1} /\ Missing(y)' \in {0, 1}
  <2>1. Balanced(y) /\ told[y] \in Nat /\ reasons[y] \in Nat /\ alert[y].id \in Nat
    BY <1>0, <1>4 DEF CountInv, CountTypes, AlertRow
  <2>2. /\ IsFiniteSet(Sends(y)') /\ Cardinality(Sends(y)) \in Nat
        /\ Cardinality(Sends(y)') = Cardinality(Sends(y))
    <3>1. IsFiniteSet(Sends(y)) /\ Sends(y)' = Sends(y)
      BY <1>3, <1>4, <2>1 DEF Balanced
    <3> HIDE DEF Sends
    <3> QED BY <3>1, FS_CardinalityType
  <2> QED BY <2>1, <2>2 DEF Owed, Missing
<1>5. CASE HalfAnHour(x) \/ ProblemGoes(x)
  <2>1. /\ UNCHANGED <<told, reasons>>
        /\ \A y \in Subjects : alert'[y].sent = alert[y].sent /\ (y \in problem' => y \in problem)
    BY <1>0, <1>5 DEF HalfAnHour, ProblemGoes, AlertRow
  <2>2. ASSUME NEW y \in Subjects PROVE Balanced(y)'
    <3>1. Owed(y)' = Owed(y) /\ Missing(y)' <= Missing(y)
      BY <1>1, <1>3, <2>1, <2>2 DEF Owed, Missing
    <3>2. alert'[y].sent = "today" \/ Unrecorded(y)' => told'[y] > 0
      BY <1>3, <1>4, <2>1, <2>2 DEF Balanced
    <3> HIDE DEF Sends, Owed, Missing, Unrecorded
    <3>3. /\ told'[y] + Cardinality(Sends(y)') + Owed(y)' + alert[y].id + mishaps
               <= told[y] + Cardinality(Sends(y)) + Owed(y) + alert'[y].id + mishaps'
          /\ alert'[y].id + Missing(y)' + reasons[y] <= alert[y].id + Missing(y) + reasons'[y]
      BY <1>0, <1>1, <1>4, <2>1, <2>2, <3>1
    <3> QED BY <1>0, <1>4, <2>1, <2>2, <3>2, <3>3, StillBalanced DEF CountTypes
  <2> QED BY <1>0, <2>1, <2>2 DEF CountInv, CountTypes
<1>6. CASE ProblemAppears(x)
  <2>1. /\ told' = told /\ reasons' = [reasons EXCEPT ![x] = @ + 1]
        /\ \A y \in Subjects : alert'[y].sent = alert[y].sent
    BY <1>6 DEF ProblemAppears
  <2>2. CountTypes'
    BY <1>0, <2>1 DEF CountTypes
  <2>3. ASSUME NEW y \in Subjects PROVE Balanced(y)'
    <3>1. Owed(y)' = Owed(y) /\ Missing(y)' + reasons[y] <= Missing(y) + reasons'[y]
      BY <1>0, <1>1, <1>3, <1>4, <2>1, <2>3 DEF Owed, Missing, CountTypes
    <3>2. alert'[y].sent = "today" \/ Unrecorded(y)' => told'[y] > 0
      BY <1>3, <1>4, <2>1, <2>3 DEF Balanced
    <3>3. reasons'[y] \in Nat
      BY <2>2, <2>3 DEF CountTypes
    <3> HIDE DEF Sends, Owed, Missing, Unrecorded
    <3>4. /\ told'[y] + Cardinality(Sends(y)') + Owed(y)' + alert[y].id + mishaps
               <= told[y] + Cardinality(Sends(y)) + Owed(y) + alert'[y].id + mishaps'
          /\ alert'[y].id + Missing(y)' + reasons[y] <= alert[y].id + Missing(y) + reasons'[y]
      BY <1>0, <1>1, <1>4, <2>1, <2>3, <3>1, <3>3
    <3> QED BY <1>0, <1>4, <2>2, <2>3, <3>2, <3>4, StillBalanced
  <2> QED BY <2>2, <2>3 DEF CountInv
<1>7. CASE ADay(x)
  <2>1. /\ alert[x].sent = "today" /\ alert'[x].sent = "day_ago" /\ alert[x].tried = "half_hour_ago"
        /\ told' = [told EXCEPT ![x] = @ - 1] /\ reasons' = reasons /\ problem' = problem
    BY <1>0, <1>7 DEF ADay, AlertRow
  <2>2. told[x] > 0
    BY <1>4, <2>1 DEF Balanced
  <2>3. CountTypes'
    BY <1>0, <2>1, <2>2 DEF CountTypes
  <2>4. ~Unrecorded(x)'
    <3>1. \A q \in Runs : ~Handling(q, x)
      BY <2>1 DEF AlertInv
    <3>2. ~Unrecorded(x)
      BY <3>1 DEF Unrecorded
    <3> QED BY <1>3, <3>2
  <2>5. ASSUME NEW y \in Subjects PROVE Balanced(y)'
    <3>1. Missing(y)' = Missing(y)
      BY <1>1, <2>1, <2>5 DEF Missing
    <3>2. alert'[y].sent = "today" \/ Unrecorded(y)' => told'[y] > 0
      <4>1. CASE y = x
        BY <2>1, <2>4, <4>1
      <4>2. CASE y # x
        <5>1. told'[y] = told[y] /\ alert'[y].sent = alert[y].sent
          BY <1>0, <1>1, <2>1, <2>5, <4>2 DEF CountTypes
        <5> QED BY <1>3, <1>4, <2>5, <5>1 DEF Balanced
      <4> QED BY <4>1, <4>2
    <3>3. told'[y] \in Nat /\ told'[y] + Owed(y)' <= told[y] + Owed(y)
      <4>1. CASE y = x
        <5>1. told'[y] = told[y] - 1 /\ told'[y] \in Nat
          BY <1>0, <2>1, <2>2, <2>5, <4>1 DEF CountTypes
        <5> HIDE DEF Owed
        <5> QED BY <1>4, <2>5, <5>1
      <4>2. CASE y # x
        <5>1. told'[y] = told[y] /\ alert'[y].sent = alert[y].sent
          BY <1>0, <1>1, <2>1, <2>5, <4>2 DEF CountTypes
        <5>2. Owed(y)' = Owed(y)
          BY <1>1, <1>3, <2>5, <5>1 DEF Owed
        <5> HIDE DEF Owed
        <5> QED BY <1>4, <2>5, <5>1, <5>2
      <4> QED BY <4>1, <4>2
    <3> HIDE DEF Sends, Owed, Missing, Unrecorded
    <3>4. /\ told'[y] + Cardinality(Sends(y)') + Owed(y)' + alert[y].id + mishaps
               <= told[y] + Cardinality(Sends(y)) + Owed(y) + alert'[y].id + mishaps'
          /\ alert'[y].id + Missing(y)' + reasons[y] <= alert[y].id + Missing(y) + reasons'[y]
      BY <1>0, <1>1, <1>4, <2>1, <2>5, <3>1, <3>3
    <3> QED BY <1>0, <1>4, <2>3, <2>5, <3>2, <3>4, StillBalanced
  <2> QED BY <2>3, <2>5 DEF CountInv
<1> QED BY <1>5, <1>6, <1>7

\* Every step keeps every subject's balance.
LEMMA CountStep ==
    ASSUME DeskTypes, DeskTypes', AlertInv, AlertInv', CountInv, Next
    PROVE  CountInv'
<1>1. ASSUME NEW r \in Runs, ListProblems(r) \/ ListOpen(r) PROVE CountInv'
  <2>1. PICK w : run' = [run EXCEPT ![r] = w] /\ w.step \in {"listed", "closing"}
    <3>1. ASSUME ListOpen(r)
          PROVE  \E w : run' = [run EXCEPT ![r] = w] /\ w.step \in {"listed", "closing"}
      <4>1. PICK qu, op, go : run' = [run EXCEPT ![r] =
                [step |-> "closing", queue |-> qu, id |-> 0, open |-> op, gone |-> go]]
        BY <3>1, Zenon DEF ListOpen
      <4>2. PICK w : w = [step |-> "closing", queue |-> qu, id |-> 0, open |-> op, gone |-> go]
        OBVIOUS
      <4>3. w.step = "closing"
        BY <4>2
      <4> QED BY <4>1, <4>2, <4>3
    <3>2. ASSUME ListProblems(r)
          PROVE  \E w : run' = [run EXCEPT ![r] = w] /\ w.step \in {"listed", "closing"}
      <4>1. PICK w : w = [step |-> "listed", problems |-> problem]
        OBVIOUS
      <4>2. run' = [run EXCEPT ![r] = w]
        BY <3>2, <4>1, Zenon DEF ListProblems
      <4>3. w.step = "listed"
        BY <4>1
      <4> QED BY <4>2, <4>3
    <3> QED BY <1>1, <3>1, <3>2
  <2>2. run'[r] = w /\ \A q \in Runs : q # r => run'[q] = run[q]
    BY <2>1 DEF DeskTypes
  <2>3. UNCHANGED <<problem, alert, told, reasons>> /\ (RunOver(r) \/ run[r].step = "listed")
    BY <1>1 DEF ListProblems, ListOpen
  <2>4. ~Mailing(r) /\ ~Mailing(r)'
    BY <2>1, <2>2, <2>3 DEF Mailing
  <2> QED BY <2>2, <2>3, <2>4, QuietCount
<1>2. CASE UNCHANGED <<problem, alert, run, told, reasons>>
  <2>1. CountTypes /\ CountTypes'
    BY <1>2 DEF CountInv, CountTypes
  <2>2. ASSUME NEW y \in Subjects PROVE Balanced(y)'
    <3>1. /\ Sends(y)' = Sends(y) /\ (InHand(y)' <=> InHand(y)) /\ (Unrecorded(y)' <=> Unrecorded(y))
      BY <1>2 DEF Sends, InHand, Unrecorded, Handling, RunOver, Subject
    <3>2. Owed(y)' = Owed(y) /\ Missing(y)' = Missing(y) /\ Owed(y) \in Nat
      BY <1>2, <3>1 DEF Owed, Missing
    <3>3. Balanced(y) /\ told[y] \in Nat /\ alert[y].id \in Nat
      BY <2>1 DEF CountInv, CountTypes, DeskTypes, AlertRow
    <3>4. mishaps \in Nat /\ mishaps' \in Nat /\ mishaps <= mishaps'
      BY MishapsGrow DEF AlertInv
    <3>5. Cardinality(Sends(y)) \in Nat /\ Cardinality(Sends(y)') = Cardinality(Sends(y))
      BY <3>1, <3>3, FS_CardinalityType DEF Balanced
    <3>6. told[y] + Cardinality(Sends(y)') + Owed(y)' <= alert[y].id + mishaps'
      <4>1. told[y] + Cardinality(Sends(y)) + Owed(y) <= alert[y].id + mishaps
        BY <3>3 DEF Balanced
      <4> HIDE DEF Sends, Owed
      <4> QED BY <3>2, <3>3, <3>4, <3>5, <4>1
    <3> HIDE DEF Sends, Owed, Missing, Unrecorded
    <3> QED BY <1>2, <3>1, <3>2, <3>3, <3>6 DEF Balanced
  <2> QED BY <2>1, <2>2 DEF CountInv
<1> QED
  BY <1>1, <1>2, AlertingCases, DeskStands, OpenAndCloseCount, ClaimCount, SendCount, EndCount, WorldCount

\* So the balances hold in every reachable state.
LEMMA CountAlways == Spec => []CountInv
<1>1. CountInv /\ UNCHANGED vars => CountInv'
  <2> SUFFICES ASSUME CountInv, UNCHANGED vars PROVE CountInv'
    OBVIOUS
  <2>1. UNCHANGED <<problem, alert, run, told, reasons, mishaps>>
    BY DEF vars, deskVars, careVars
  <2> QED BY <2>1 DEF CountInv, CountTypes, Balanced, Sends, Owed, Missing, InHand, Unrecorded, Handling,
                      RunOver, Subject
<1>2. (DeskTypes /\ AlertInv) /\ (DeskTypes /\ AlertInv)' /\ CountInv /\ [Next]_vars => CountInv'
  BY <1>1, CountStep
<1> QED BY <1>2, InitCount, DeskAlways, PTL DEF Spec

\* EveryAlertHasItsReason: the desk's emails about a problem, less one for each day it was
\* reminded, are at most its appearances, what late runs did to its rows, and the mishaps:
\* nothing in reconcileDeskAlerts tells it twice but a run that ends early, an answer lost, or
\* a run that acts on a problem gone or come back since it looked.
THEOREM AlertsAlwaysHaveReasons == Spec => []EveryAlertHasItsReason
<1>1. DeskTypes /\ AlertInv /\ CountInv => EveryAlertHasItsReason
  <2> SUFFICES ASSUME DeskTypes, AlertInv, CountInv, NEW x \in Subjects
               PROVE  told[x] <= reasons[x] + mishaps
    BY DEF EveryAlertHasItsReason
  <2>1. Balanced(x) /\ told[x] \in Nat /\ reasons[x] \in Nat /\ alert[x].id \in Nat /\ mishaps \in Nat
    BY DEF CountInv, CountTypes, DeskTypes, AlertRow, AlertInv
  <2>2. Cardinality(Sends(x)) \in Nat /\ Owed(x) \in Nat /\ Missing(x) \in Nat
    BY <2>1, FS_CardinalityType DEF Balanced, Owed, Missing
  <2>3. /\ told[x] + Cardinality(Sends(x)) + Owed(x) <= alert[x].id + mishaps
        /\ alert[x].id + Missing(x) <= reasons[x]
    BY <2>1 DEF Balanced
  <2> HIDE DEF Sends, Owed, Missing
  <2> QED BY <2>1, <2>2, <2>3
<1> QED BY <1>1, DeskAlways, CountAlways, PTL

(***************************************************************************)
(* The notices before the desk.                                            *)
(***************************************************************************)

\* A notice is kept of an order that was paid, and is never forgotten.
NoticeInv ==
    /\ notice = [kept |-> notice.kept, at |-> notice.at, declined |-> notice.declined]
    /\ notice.at \in Nat
    /\ notice.kept => payment # "pending"

\* A notice is kept once, for a payment made, and is then only declined.
LEMMA NoticeMoves ==
    ASSUME BaseInv, MailTypes, NoticeInv, Next
    PROVE  /\ NoticeInv'
           /\ \/ notice' = notice
              \/ ~notice.kept /\ notice'.at \in Nat
              \/ notice'.kept = notice.kept /\ notice'.at = notice.at /\ notice'.declined
<1>0. \/ notice' = notice
      \/ Withdrawing /\ \E p \in Tabs : KeepNotice(p) /\ ~notice.kept /\ MayWithdraw(form[p].now)
      \/ Withdrawing /\ Decline
  <2>1. CASE Withdrawing
    <3>1. ASSUME NEW p \in Tabs, KeepNotice(p)
          PROVE  notice' = notice \/ (~notice.kept /\ MayWithdraw(form[p].now))
      BY <3>1 DEF KeepNotice
    <3> QED BY <2>1, <3>1
            DEF Withdrawing, WithdrawalStep, LookUp, AskForCountry, LeaveForm, TellDesk,
                SendAcknowledgementNow
  <2> QED BY <2>1
          DEF Next, Sending, Moving, Money, HearingOfThePayment, Watching, Meddling, Alerting,
              Sweeping, Living, Tick, noticeVars
<1>1. payment' = "pending" => payment = "pending"
  <2>1. BookingMove /\ payment \in {"pending", "paid", "partially_refunded", "refunded"}
    BY BookingMoves DEF BaseInv, RowsOK
  <2> QED BY <2>1 DEF BookingMove, BookingMade
<1>2. CASE notice' = notice
  BY <1>1, <1>2 DEF NoticeInv
<1>3. ASSUME NEW p \in Tabs, Withdrawing, KeepNotice(p), ~notice.kept, MayWithdraw(form[p].now)
      PROVE  /\ NoticeInv' /\ notice'.at \in Nat
  <2>1. notice' = [NoNotice EXCEPT !.kept = TRUE, !.at = form[p].now]
    BY <1>3, Zenon DEF KeepNotice, RecordWithdrawal
  <2>2. form[p].now \in Nat
    BY InstantAssumption DEF MailTypes, Form
  <2>3. /\ notice' = [kept |-> notice'.kept, at |-> notice'.at, declined |-> notice'.declined]
        /\ notice'.at = form[p].now
    BY <2>1 DEF NoNotice
  <2>4. payment = "paid" /\ payment' = payment
    BY <1>3 DEF MayWithdraw, Withdrawing, worldVars
  <2> QED BY <2>2, <2>3, <2>4 DEF NoticeInv
<1>4. CASE Decline
  <2>1. notice' = [notice EXCEPT !.declined = TRUE]
    BY <1>4 DEF Decline, DeclineWithdrawal
  <2>2. /\ notice' = [kept |-> notice'.kept, at |-> notice'.at, declined |-> notice'.declined]
        /\ notice'.at = notice.at /\ notice'.kept = notice.kept /\ notice'.declined = TRUE
    BY <2>1 DEF NoticeInv
  <2> QED BY <1>1, <2>2 DEF NoticeInv
<1> QED BY <1>0, <1>2, <1>3, <1>4

\* So a notice is never forgotten.
LEMMA NoticeAlways == Spec => []NoticeInv
<1>1. Init => NoticeInv
  <2> SUFFICES ASSUME Init PROVE NoticeInv
    OBVIOUS
  <2>1. notice = [kept |-> FALSE, at |-> 0, declined |-> FALSE]
    BY DEF Init, NoticeInit, NoNotice
  <2> QED BY <2>1 DEF NoticeInv
<1>2. NoticeInv /\ UNCHANGED vars => NoticeInv'
  BY DEF NoticeInv, vars, noticeVars, careVars
<1>3. BaseInv /\ MailTypes /\ NoticeInv /\ [Next]_vars => NoticeInv'
  BY <1>2, NoticeMoves
<1> QED BY <1>1, <1>3, BaseAlways, MailAlways, PTL DEF Spec

\* The two halves of WaitingNoticeStaysListed.
StaysListed ==
    WaitsForDesk(notice) /\ ~WaitsForDesk(notice)' =>
        notice'.declined \/ payment' = "refunded" \/ GoneFromDesk'

PagesTellTheTruth ==
    \A p \in Tabs :
        /\ form[p].step \notin {"kept", "reviewing"}
        /\ form'[p].step \in {"kept", "reviewing"}
        => WaitsForDesk(notice)' \/ GoneFromDesk'

\* A notice is within the desk's days, or past them.
LEMMA InTime ==
    ASSUME BaseInv, NoticeInv
    PROVE  notice.at + DeskDecisionDays > hour \/ hour >= notice.at + DeskDecisionDays
BY InstantAssumption, DeskAssumption DEF BaseInv, RowsOK, NoticeInv

\* What takes a notice off the list is the desk's answer, the refund, the cancelling or the
\* days: a part refund leaves it, and a started session is on the list still.
LEMMA NoticeStays == ASSUME BaseInv, BaseInv', NoticeInv, NoticeInv', MailTypes, Next PROVE StaysListed
<1> SUFFICES ASSUME WaitsForDesk(notice), ~notice'.declined, payment' # "refunded", ~GoneFromDesk'
             PROVE  WaitsForDesk(notice)'
  BY DEF StaysListed
<1>1. /\ notice.kept /\ ~notice.declined /\ payment \in {"paid", "partially_refunded"}
      /\ booking.status \in Ongoing
  BY DEF WaitsForDesk
<1>2. notice'.kept /\ ~notice'.declined
  BY <1>1, NoticeMoves
<1>3. (notice.at + DeskDecisionDays > hour \/ hour >= notice.at + DeskDecisionDays)'
  BY InTime, InstantAssumption, DeskAssumption DEF BaseInv, RowsOK, NoticeInv
<1>4. BookingMove
  BY BookingMoves
<1>5. payment' \in {"paid", "partially_refunded"}
  BY <1>1, <1>4 DEF BookingMove, BookingMade
<1>6. booking'.status \in Ongoing
  <2>1. booking'.status \in Ongoing \cup {"none", "cancelled"} /\ (payment' = "pending" <=> booking'.status = "none")
    BY DEF BaseInv, RowsOK, BookingRow
  <2> QED BY <1>5, <2>1 DEF GoneFromDesk
<1> QED BY <1>2, <1>3, <1>5, <1>6 DEF WaitsForDesk, GoneFromDesk

\* A page says that a notice is being reviewed in the transaction that keeps it, or when it
\* reads one that is neither declined nor refunded.
LEMMA PagesAreTrue ==
    ASSUME BaseInv, BaseInv', NoticeInv, NoticeInv', MailTypes, Next PROVE PagesTellTheTruth
<1> SUFFICES ASSUME NEW p \in Tabs, form[p].step \notin {"kept", "reviewing"},
                    form'[p].step \in {"kept", "reviewing"}, ~GoneFromDesk'
             PROVE  WaitsForDesk(notice)'
  BY DEF PagesTellTheTruth
<1>1. form' # form
  OBVIOUS
<1>2. Withdrawing
  BY <1>1 DEF Next, Sending, Moving, Money, HearingOfThePayment, Watching, Meddling, Alerting,
              Sweeping, Living, Tick, noticeVars
<1>3. payment' = payment /\ booking' = booking /\ hour' = hour
  BY <1>2 DEF Withdrawing, worldVars, rowVars
<1>4. ASSUME NEW q \in Tabs, NEW n, form' = [form EXCEPT ![q] = n] PROVE p = q /\ n.step \in {"kept", "reviewing"}
  BY <1>4 DEF MailTypes
<1>5. (notice.at + DeskDecisionDays > hour \/ hour >= notice.at + DeskDecisionDays)'
  BY InTime, InstantAssumption, DeskAssumption DEF BaseInv, RowsOK, NoticeInv
<1>6. (payment = "pending" <=> booking.status = "none") /\ booking.status \in Ongoing \cup {"none", "cancelled"}
      /\ payment \in {"pending", "paid", "partially_refunded", "refunded"}
  BY DEF BaseInv, RowsOK, BookingRow
<1>7. ASSUME notice'.kept, ~notice'.declined, payment # "pending", payment # "refunded" PROVE WaitsForDesk(notice)'
  BY <1>3, <1>5, <1>6, <1>7 DEF WaitsForDesk, GoneFromDesk
<1>8. ASSUME notice' = notice, notice.kept, DeskState = "reviewing" PROVE WaitsForDesk(notice)'
  BY <1>7, <1>8 DEF NoticeInv, DeskState
<1>9. \A st : ([form[p] EXCEPT !.step = st]).step = st
  BY DEF MailTypes, Form
<1>10. CASE \E q \in Tabs : LookUp(q)
  <2>1. PICK q \in Tabs : LookUp(q)
    BY <1>10
  <2>2. notice' = notice
    BY <2>1 DEF LookUp
  <2>3. CASE notice.kept
    <3>1. form' = [form EXCEPT ![q].step = DeskState]
      BY <2>1, <2>3 DEF LookUp
    <3>2. form'[p].step = DeskState
      BY <3>1 DEF MailTypes, Form
    <3>3. DeskState \in {"refunded", "declined", "reviewing"}
      BY DEF DeskState
    <3> QED BY <1>8, <2>2, <2>3, <3>2, <3>3
  <2>4. CASE ~notice.kept
    <3>1. form' = [form EXCEPT ![q].step = "shown"]
      BY <2>1, <2>4 DEF LookUp
    <3> QED BY <3>1 DEF MailTypes, Form
  <2> QED BY <2>3, <2>4
<1>11. CASE \E q \in Tabs : AskForCountry(q) \/ LeaveForm(q)
  <2>1. PICK q \in Tabs : \/ form' = [form EXCEPT ![q] = [step |-> "asked", now |-> hour]]
                          \/ form' = [form EXCEPT ![q] = BlankForm]
    BY <1>11 DEF AskForCountry, LeaveForm
  <2> QED BY <1>4, <2>1 DEF BlankForm
<1>12. CASE \E q \in Tabs : KeepNotice(q)
  <2>1. PICK q \in Tabs : KeepNotice(q)
    BY <1>12
  <2>2. CASE notice.kept
    <3>1. notice' = notice /\ form' = [form EXCEPT ![q] = [BlankForm EXCEPT !.step = DeskState]]
      BY <2>1, <2>2 DEF KeepNotice
    <3>2. DeskState \in {"refunded", "declined", "reviewing"}
      BY DEF DeskState
    <3>3. ([BlankForm EXCEPT !.step = DeskState]).step = DeskState
      BY DEF BlankForm
    <3>4. DeskState = "reviewing"
      BY <1>4, <3>1, <3>2, <3>3
    <3> QED BY <1>8, <2>2, <3>1, <3>4
  <2>3. CASE ~notice.kept /\ MayWithdraw(form[q].now)
    <3>1. notice' = [NoNotice EXCEPT !.kept = TRUE, !.at = form[q].now]
      BY <2>1, <2>3, Zenon DEF KeepNotice, RecordWithdrawal
    <3>2. notice'.kept = TRUE /\ notice'.declined = FALSE
      BY <3>1 DEF NoNotice
    <3>3. payment = "paid"
      BY <2>3 DEF MayWithdraw
    <3> QED BY <1>7, <3>2, <3>3
  <2>4. CASE ~notice.kept /\ ~MayWithdraw(form[q].now)
    <3>1. form' = [form EXCEPT ![q] = BlankForm]
      BY <2>1, <2>4 DEF KeepNotice
    <3> QED BY <1>4, <3>1 DEF BlankForm
  <2> QED BY <2>2, <2>3, <2>4
<1>13. CASE \E q \in Tabs, s \in Senders : SendAcknowledgementNow(q, s)
  <2>1. PICK q \in Tabs : form[q].step = "kept" /\ form' = [form EXCEPT ![q].step = "reviewing"]
    BY <1>13 DEF SendAcknowledgementNow
  <2>2. p # q
    BY <2>1
  <2>3. form'[p] = form[p]
    BY <2>1, <2>2 DEF MailTypes
  <2> QED BY <2>3
<1>14. CASE TellDesk \/ Decline
  BY <1>1, <1>14 DEF TellDesk, Decline
<1> QED BY <1>2, <1>10, <1>11, <1>12, <1>13, <1>14 DEF Withdrawing, WithdrawalStep

\* A notice the customer is told is being reviewed stays before the desk until it is
\* declined, the payment is refunded in full, the booking is cancelled, or the days are over;
\* and a page that says it is being reviewed says so while it waits (withdrawals.ts:282,
\* withdraw/flow.ts:76).
THEOREM WaitingNoticeAlwaysStaysListed == Spec => WaitingNoticeStaysListed
<1>1. BaseInv /\ BaseInv' /\ NoticeInv /\ NoticeInv' /\ MailTypes /\ [Next]_vars
        => [StaysListed /\ PagesTellTheTruth]_vars
  BY NoticeStays, PagesAreTrue
<1>2. Spec => [][StaysListed /\ PagesTellTheTruth]_vars
  BY <1>1, BaseAlways, MailAlways, NoticeAlways, PTL DEF Spec
<1> QED BY <1>2, PTL DEF WaitingNoticeStaysListed, StaysListed, PagesTellTheTruth

(***************************************************************************)
(* The sweep's rows: what waits at a step, and what a run has in hand.     *)
(***************************************************************************)

\* A row taken out of its step's order, if it waits there.
LEMMA TakenOut ==
    ASSUME NEW S, NEW rows \in Seq(S), IsInjective(rows), NEW w
    PROVE  /\ RemoveFirst(rows, w) \in Seq(S)
           /\ IsInjective(RemoveFirst(rows, w))
           /\ \A i \in DOMAIN RemoveFirst(rows, w) : RemoveFirst(rows, w)[i] # w
<1>1. Len(rows) \in Nat /\ DOMAIN rows = 1 .. Len(rows) /\ \A i \in 1 .. Len(rows) : rows[i] \in S
  BY LenProperties, ElementOfSeq
<1>2. CASE ~\E i \in 1 .. Len(rows) : rows[i] = w
  BY <1>1, <1>2 DEF RemoveFirst
<1>3. ASSUME NEW k \in 1 .. Len(rows), rows[k] = w
      PROVE  RemoveFirst(rows, w) = SubSeq(rows, 1, k - 1) \o SubSeq(rows, k + 1, Len(rows))
  <2>1. {i \in 1 .. Len(rows) : rows[i] = w} = {k}
    BY <1>1, <1>3 DEF IsInjective
  <2>2. Min({k}) = k
    BY <1>1 DEF Min
  <2> QED BY <1>3, <2>1, <2>2 DEF RemoveFirst, SelectInSeq, RemoveAt
<1>4. ASSUME NEW k \in 1 .. Len(rows), rows[k] = w
      PROVE  /\ RemoveFirst(rows, w) \in Seq(S)
             /\ IsInjective(RemoveFirst(rows, w))
             /\ \A i \in DOMAIN RemoveFirst(rows, w) : RemoveFirst(rows, w)[i] # w
  <2> DEFINE before == SubSeq(rows, 1, k - 1)
             after  == SubSeq(rows, k + 1, Len(rows))
             left   == before \o after
  <2>1. /\ before \in Seq(S) /\ Len(before) = k - 1
        /\ \A i \in 1 .. k - 1 : before[i] = rows[i]
    BY <1>1, SubSeqProperties, SMTT(60)
  <2>2. /\ after \in Seq(S) /\ Len(after) = Len(rows) - k
        /\ \A i \in 1 .. Len(rows) - k : after[i] = rows[i + k]
    <3>1. k \in Nat /\ k + 1 \in Int /\ Len(rows) \in Int /\ k <= Len(rows)
      BY <1>1
    <3>2. \A i \in k + 1 .. Len(rows) : rows[i] \in S
      BY <1>1, <3>1
    <3>3. /\ after \in Seq(S)
          /\ Len(after) = IF k + 1 <= Len(rows) THEN Len(rows) - (k + 1) + 1 ELSE 0
          /\ \A i \in 1 .. Len(rows) - (k + 1) + 1 : after[i] = rows[k + 1 + i - 1]
      BY <3>1, <3>2, SubSeqProperties
    <3> HIDE DEF after
    <3>4. Len(after) = Len(rows) - k
      BY <3>1, <3>3
    <3>5. ASSUME NEW i \in 1 .. Len(rows) - k PROVE after[i] = rows[i + k]
      <4>1. i \in 1 .. Len(rows) - (k + 1) + 1 /\ k + 1 + i - 1 = i + k
        BY <3>1
      <4>2. after[i] = rows[k + 1 + i - 1]
        BY <3>3, <4>1
      <4> QED BY <4>1, <4>2
    <3> QED BY <3>3, <3>4, <3>5
  <2> HIDE DEF before, after
  <2>3. /\ left \in Seq(S) /\ Len(left) = Len(rows) - 1
        /\ \A i \in 1 .. Len(rows) - 1 : left[i] = IF i <= k - 1 THEN before[i] ELSE after[i - (k - 1)]
    <3>1. /\ left \in Seq(S) /\ Len(left) = Len(before) + Len(after)
          /\ \A i \in 1 .. Len(before) + Len(after) :
               left[i] = IF i <= Len(before) THEN before[i] ELSE after[i - Len(before)]
      BY <2>1, <2>2, ConcatProperties
    <3>2. Len(before) + Len(after) = Len(rows) - 1 /\ Len(before) = k - 1
      BY <1>1, <2>1, <2>2
    <3> HIDE DEF left
    <3> QED BY <3>1, <3>2
  <2> HIDE DEF left
  <2>4. \A i \in 1 .. Len(rows) - 1 : left[i] = IF i < k THEN rows[i] ELSE rows[i + 1]
    BY <1>1, <2>1, <2>2, <2>3
  <2>5. DOMAIN left = 1 .. Len(rows) - 1
    BY <2>3, LenProperties
  <2>6. IsInjective(left)
    <3> SUFFICES ASSUME NEW a \in 1 .. Len(rows) - 1, NEW b \in 1 .. Len(rows) - 1, left[a] = left[b]
                 PROVE  a = b
      BY <2>5 DEF IsInjective
    <3> DEFINE at(i) == IF i < k THEN i ELSE i + 1
    <3>0. at(a) \in 1 .. Len(rows) /\ at(b) \in 1 .. Len(rows)
      BY <1>1
    <3>1. left[a] = rows[at(a)] /\ left[b] = rows[at(b)]
      BY <1>1, <2>4
    <3> HIDE DEF at
    <3>2. at(a) = at(b)
      BY <1>1, <3>0, <3>1 DEF IsInjective
    <3> QED BY <1>1, <3>2 DEF at
  <2>7. \A i \in 1 .. Len(rows) - 1 : left[i] # w
    <3> SUFFICES ASSUME NEW i \in 1 .. Len(rows) - 1, left[i] = w PROVE FALSE
      OBVIOUS
    <3> DEFINE j == IF i < k THEN i ELSE i + 1
    <3>1. j \in 1 .. Len(rows) /\ rows[j] = w /\ j # k
      BY <1>1, <2>4
    <3> QED BY <1>1, <1>4, <3>1 DEF IsInjective
  <2>8. RemoveFirst(rows, w) = left
    BY <1>3, <1>4 DEF left, before, after
  <2> QED BY <2>3, <2>5, <2>6, <2>7, <2>8
<1> QED BY <1>2, <1>4

\* A new row placed anywhere among them.
LEMMA PutIn ==
    ASSUME NEW S, NEW rows \in Seq(S), IsInjective(rows), NEW w \in S,
           \A i \in DOMAIN rows : rows[i] # w, NEW k \in 1 .. Len(rows) + 1
    PROVE  InsertAt(rows, k, w) \in Seq(S) /\ IsInjective(InsertAt(rows, k, w))
<1>1. Len(rows) \in Nat /\ DOMAIN rows = 1 .. Len(rows) /\ \A i \in 1 .. Len(rows) : rows[i] \in S
  BY LenProperties, ElementOfSeq
<1> DEFINE before == SubSeq(rows, 1, k - 1)
           after  == SubSeq(rows, k, Len(rows))
           first  == before \o <<w>>
           all    == first \o after
<1>2. /\ before \in Seq(S) /\ Len(before) = k - 1
      /\ \A i \in 1 .. k - 1 : before[i] = rows[i]
  BY <1>1, SubSeqProperties, SMTT(60)
<1>3. /\ after \in Seq(S) /\ Len(after) = Len(rows) - k + 1
      /\ \A i \in 1 .. Len(rows) - k + 1 : after[i] = rows[i + k - 1]
  BY <1>1, SubSeqProperties, SMTT(60)
<1>4. <<w>> \in Seq(S) /\ Len(<<w>>) = 1 /\ <<w>>[1] = w
  OBVIOUS
<1> HIDE DEF before, after
<1>5. /\ first \in Seq(S) /\ Len(first) = k
      /\ \A i \in 1 .. k : first[i] = IF i < k THEN rows[i] ELSE w
  <2>1. /\ first \in Seq(S) /\ Len(first) = Len(before) + Len(<<w>>)
        /\ \A i \in 1 .. Len(before) + Len(<<w>>) :
             first[i] = IF i <= Len(before) THEN before[i] ELSE <<w>>[i - Len(before)]
    BY <1>2, <1>4, ConcatProperties
  <2> HIDE DEF first
  <2> QED BY <1>1, <1>2, <1>4, <2>1
<1> HIDE DEF first
<1>6. /\ all \in Seq(S) /\ Len(all) = Len(rows) + 1
      /\ \A i \in 1 .. Len(rows) + 1 :
           all[i] = IF i < k THEN rows[i] ELSE IF i = k THEN w ELSE rows[i - 1]
  <2>1. /\ all \in Seq(S) /\ Len(all) = Len(first) + Len(after)
        /\ \A i \in 1 .. Len(first) + Len(after) :
             all[i] = IF i <= Len(first) THEN first[i] ELSE after[i - Len(first)]
    BY <1>3, <1>5, ConcatProperties
  <2> HIDE DEF all
  <2>2. Len(first) + Len(after) = Len(rows) + 1 /\ Len(first) = k
    BY <1>1, <1>3, <1>5
  <2>3. \A i \in 1 .. Len(rows) + 1 : all[i] = IF i <= k THEN first[i] ELSE after[i - k]
    BY <2>1, <2>2
  <2>4. ASSUME NEW i \in 1 .. Len(rows) + 1, i > k PROVE all[i] = rows[i - 1]
    <3>1. i - k \in 1 .. Len(rows) - k + 1 /\ (i - k) + k - 1 = i - 1 /\ ~(i <= k)
      BY <1>1, <2>4
    <3> QED BY <1>3, <2>3, <3>1
  <2>5. ASSUME NEW i \in 1 .. Len(rows) + 1, i <= k PROVE all[i] = IF i < k THEN rows[i] ELSE w
    BY <1>1, <1>5, <2>3, <2>5
  <2> QED BY <1>1, <2>1, <2>2, <2>4, <2>5
<1> HIDE DEF all
<1>7. IsInjective(all)
  <2> SUFFICES ASSUME NEW a \in 1 .. Len(rows) + 1, NEW b \in 1 .. Len(rows) + 1, all[a] = all[b]
               PROVE  a = b
    BY <1>6, LenProperties DEF IsInjective
  <2> DEFINE at(i) == IF i < k THEN i ELSE i - 1
  <2>1. a # k => at(a) \in 1 .. Len(rows) /\ all[a] = rows[at(a)]
    BY <1>1, <1>6
  <2>2. b # k => at(b) \in 1 .. Len(rows) /\ all[b] = rows[at(b)]
    BY <1>1, <1>6
  <2>3. all[k] = w
    BY <1>1, <1>6
  <2>4. a = k <=> b = k
    BY <1>1, <2>1, <2>2, <2>3
  <2> HIDE DEF at
  <2>5. a # k => at(a) = at(b)
    BY <1>1, <2>1, <2>2, <2>4 DEF IsInjective
  <2> QED BY <1>1, <2>4, <2>5 DEF at
<1>8. InsertAt(rows, k, w) = all
  BY DEF InsertAt, all, first, before, after
<1> QED BY <1>6, <1>7, <1>8

\* A new row placed behind them.
LEMMA PutBehind ==
    ASSUME NEW S, NEW rows \in Seq(S), IsInjective(rows), NEW w \in S,
           \A i \in DOMAIN rows : rows[i] # w
    PROVE  Append(rows, w) \in Seq(S) /\ IsInjective(Append(rows, w))
<1>1. Len(rows) \in Nat /\ DOMAIN rows = 1 .. Len(rows)
  BY LenProperties
<1> DEFINE all == Append(rows, w)
<1>2. /\ all \in Seq(S) /\ Len(all) = Len(rows) + 1
      /\ \A i \in 1 .. Len(rows) : all[i] = rows[i]
      /\ all[Len(rows) + 1] = w
  BY AppendProperties
<1> HIDE DEF all
<1>3. DOMAIN all = 1 .. Len(rows) + 1
  BY <1>2, LenProperties
<1>4. IsInjective(all)
  BY <1>1, <1>2, <1>3 DEF IsInjective
<1> QED BY <1>2, <1>4 DEF all

\* The rows of a step that have ever waited.
AtItsStep(step) == {w \in appeared : StepOf[w] = step}

\* A run in the middle of its steps: what it has in hand is of the step it is at.
InStep(x) ==
    /\ x = [at |-> x.at, rows |-> x.rows]
    /\ x.rows # NotRead => Steps[x.at] \in Batched /\ x.rows \in Seq(AtItsStep(Steps[x.at]))

\* A row waits at its own step, once; only rows that have waited are in hand or asked about.
SweepInv ==
    /\ asked \subseteq appeared /\ appeared \subseteq Work
    /\ backlog = [step \in Batched |-> backlog[step]]
    /\ \A step \in Batched : backlog[step] \in Seq(AtItsStep(step)) /\ IsInjective(backlog[step])
    /\ sweep = [s \in Sweeps |-> sweep[s]]
    /\ \A s \in Sweeps : SweepOver(s) \/ InStep(sweep[s])

\* At the start nothing waits.
LEMMA InitSweep == Init => SweepInv
<1> SUFFICES ASSUME Init PROVE SweepInv
  OBVIOUS
<1>1. /\ backlog = [step \in Batched |-> <<>>] /\ appeared = {} /\ asked = {}
      /\ sweep = [s \in Sweeps |-> NoSweep]
  BY DEF Init, SweepInit
<1>2. \A S : <<>> \in Seq(S)
  BY EmptySeq
<1>3. IsInjective(<<>>)
  BY DEF IsInjective
<1> QED BY <1>1, <1>2, <1>3 DEF SweepInv, SweepOver

\* A step of one run that writes the rows of one step at most.
LEMMA SweepKept ==
    ASSUME SweepInv, appeared' = appeared, asked' \subseteq appeared,
           NEW step \in Batched, NEW rows \in Seq(AtItsStep(step)), IsInjective(rows),
           backlog' = [backlog EXCEPT ![step] = rows],
           NEW s \in Sweeps, NEW x, x = NoSweep \/ InStep(x), sweep' = [sweep EXCEPT ![s] = x]
    PROVE  SweepInv'
<1>1. \A k \in Batched : AtItsStep(k)' = AtItsStep(k)
  BY DEF AtItsStep
<1>2. /\ backlog' = [k \in Batched |-> backlog'[k]]
      /\ \A k \in Batched : backlog'[k] = IF k = step THEN rows ELSE backlog[k]
  BY DEF SweepInv
<1>3. \A k \in Batched : backlog'[k] \in Seq(AtItsStep(k)) /\ IsInjective(backlog'[k])
  BY <1>2 DEF SweepInv
<1>4. /\ sweep' = [q \in Sweeps |-> sweep'[q]]
      /\ \A q \in Sweeps : sweep'[q] = IF q = s THEN x ELSE sweep[q]
  BY DEF SweepInv
<1>5. \A q \in Sweeps : sweep'[q] = NoSweep \/ InStep(sweep'[q])
  BY <1>4 DEF SweepInv, SweepOver
<1>6. \A q \in Sweeps : sweep'[q] = NoSweep \/ InStep(sweep[q])'
  BY <1>1, <1>5 DEF InStep
<1> QED BY <1>1, <1>2, <1>3, <1>4, <1>6 DEF SweepInv, SweepOver

\* A run puts down what it has in hand, or takes the next row.
LEMMA HandsOn ==
    ASSUME SweepInv, NEW s \in Sweeps, ~SweepOver(s)
    PROVE  /\ InStep(sweep[s])
           /\ InStep([at |-> sweep[s].at + 1, rows |-> NotRead])
           /\ sweep[s].rows \notin {NotRead, <<>>} =>
                /\ At(s) \in Batched
                /\ Head(sweep[s].rows) \in AtItsStep(At(s))
                /\ InStep([sweep[s] EXCEPT !.rows = Tail(@)])
<1>1. InStep(sweep[s])
  BY DEF SweepInv
<1>2. InStep([at |-> sweep[s].at + 1, rows |-> NotRead])
  BY DEF InStep
<1>3. ASSUME sweep[s].rows \notin {NotRead, <<>>}
      PROVE  /\ At(s) \in Batched
             /\ Head(sweep[s].rows) \in AtItsStep(At(s))
             /\ InStep([sweep[s] EXCEPT !.rows = Tail(@)])
  <2>1. At(s) \in Batched /\ sweep[s].rows \in Seq(AtItsStep(At(s)))
    BY <1>1, <1>3 DEF InStep, At
  <2>2. Head(sweep[s].rows) \in AtItsStep(At(s)) /\ Tail(sweep[s].rows) \in Seq(AtItsStep(At(s)))
    BY <1>3, <2>1, HeadTailProperties
  <2>3. PICK x : x = [sweep[s] EXCEPT !.rows = Tail(@)]
    OBVIOUS
  <2>4. x = [at |-> sweep[s].at, rows |-> Tail(sweep[s].rows)]
    BY <1>1, <2>3 DEF InStep
  <2>5. x.at = sweep[s].at /\ x.rows = Tail(sweep[s].rows)
    BY <2>4
  <2>6. InStep(x)
    BY <2>1, <2>2, <2>4, <2>5 DEF InStep, At
  <2> QED BY <2>1, <2>2, <2>3, <2>6
<1> QED BY <1>1, <1>2, <1>3

\* What a run does with its rows.
LEMMA SweepWorks ==
    ASSUME SweepInv, NEW s \in Sweeps, NEW w \in Work, RowDone(s, w) \/ RowFails(s, w)
    PROVE  SweepInv'
<1>1. /\ ~SweepOver(s) /\ sweep[s].rows \notin {NotRead, <<>>} /\ w = Head(sweep[s].rows)
      /\ sweep' = [sweep EXCEPT ![s].rows = Tail(@)] /\ appeared' = appeared
  BY DEF RowDone, RowFails, Trying, TriesTheNext
<1> DEFINE step == At(s)
           x    == [sweep[s] EXCEPT !.rows = Tail(@)]
<1>2. step \in Batched /\ w \in AtItsStep(step) /\ InStep(x)
  BY <1>1, HandsOn
<1>3. sweep' = [sweep EXCEPT ![s] = x]
  BY <1>1 DEF SweepInv
<1>4. backlog[step] \in Seq(AtItsStep(step)) /\ IsInjective(backlog[step])
  BY <1>2 DEF SweepInv
<1>5. /\ RemoveFirst(backlog[step], w) \in Seq(AtItsStep(step))
      /\ IsInjective(RemoveFirst(backlog[step], w))
      /\ \A i \in DOMAIN RemoveFirst(backlog[step], w) : RemoveFirst(backlog[step], w)[i] # w
  BY <1>4, TakenOut
<1> DEFINE less == RemoveFirst(backlog[step], w)
           last == Append(less, w)
<1> HIDE DEF less, x, step
<1>6. last \in Seq(AtItsStep(step)) /\ IsInjective(last)
  BY <1>2, <1>5, PutBehind DEF less
<1> HIDE DEF last
<1>7. asked' \subseteq appeared
  BY <1>2 DEF RowDone, RowFails, SweepInv, AtItsStep
<1>8. \/ backlog' = [backlog EXCEPT ![step] = less]
      \/ backlog' = [backlog EXCEPT ![step] = last]
      \/ backlog' = [backlog EXCEPT ![step] = backlog[step]]
  BY DEF RowDone, RowFails, StepsAside, SweepInv, less, last, step
<1> QED BY <1>1, <1>2, <1>3, <1>4, <1>5, <1>6, <1>7, <1>8, SweepKept DEF less

\* A row that begins to wait has not waited before, and waits in one place.
LEMMA WorkIsPlaced ==
    ASSUME SweepInv, NEW w \in Work, WorkAppears(w)
    PROVE  SweepInv'
<1> DEFINE step == StepOf[w]
<1>1. step \in Batched
  BY SweepAssumption
<1>2. PICK rows : rows \in Placed(step, w) /\ backlog' = [backlog EXCEPT ![step] = rows]
  BY DEF WorkAppears
<1>3. w \notin appeared /\ appeared' = appeared \cup {w} /\ asked' = asked /\ sweep' = sweep
  BY DEF WorkAppears
<1> DEFINE old == backlog[step]
<1>4. old \in Seq(AtItsStep(step)) /\ IsInjective(old)
  BY <1>1 DEF SweepInv
<1>5. /\ \A k \in Batched : AtItsStep(k) \subseteq AtItsStep(k)'
      /\ w \in AtItsStep(step)'
  BY <1>3 DEF AtItsStep
<1>6. \A k \in Batched : \A q \in Seq(AtItsStep(k)) : q \in Seq(AtItsStep(k)')
  BY <1>5, SeqMonotonic
<1>7. Len(old) \in Nat /\ DOMAIN old = 1 .. Len(old) /\ \A i \in DOMAIN old : old[i] # w
  <2>1. Len(old) \in Nat /\ DOMAIN old = 1 .. Len(old)
    BY <1>4, LenProperties
  <2>2. \A i \in 1 .. Len(old) : old[i] \in AtItsStep(step)
    BY <1>4, ElementOfSeq
  <2> QED BY <1>3, <2>1, <2>2 DEF AtItsStep
<1>8. rows = Append(old, w) \/ \E k \in 1 .. Len(old) + 1 : rows = InsertAt(old, k, w)
  <2> DEFINE unasked == {i \in DOMAIN old : old[i] \notin asked}
  <2>1. Cardinality(unasked) + 1 \in 1 .. Len(old) + 1
    <3>1. IsFiniteSet(1 .. Len(old)) /\ Cardinality(1 .. Len(old)) = Len(old)
      BY <1>7, FS_Interval
    <3>2. IsFiniteSet(unasked) /\ Cardinality(unasked) <= Len(old)
      BY <1>7, <3>1, FS_Subset
    <3>3. Cardinality(unasked) \in Nat
      BY <3>2, FS_CardinalityType
    <3> QED BY <1>7, <3>2, <3>3
  <2> QED BY <1>2, <2>1 DEF Placed
<1>9. rows \in Seq(AtItsStep(step)') /\ IsInjective(rows)
  <2> DEFINE S == AtItsStep(step)'
  <2>1. old \in Seq(S) /\ w \in S
    BY <1>1, <1>4, <1>5, <1>6
  <2> HIDE DEF S, old
  <2> QED BY <1>4, <1>7, <1>8, <2>1, PutBehind, PutIn DEF S
<1>10. /\ backlog' = [k \in Batched |-> backlog'[k]]
       /\ \A k \in Batched : backlog'[k] = IF k = step THEN rows ELSE backlog[k]
  BY <1>1, <1>2 DEF SweepInv
<1>11. \A k \in Batched : backlog'[k] \in Seq(AtItsStep(k)') /\ IsInjective(backlog'[k])
  BY <1>6, <1>9, <1>10 DEF SweepInv
<1>12. \A s \in Sweeps : sweep[s] = NoSweep \/ InStep(sweep[s])'
  BY <1>3, <1>6 DEF SweepInv, SweepOver, InStep
<1> QED BY <1>3, <1>10, <1>11, <1>12 DEF SweepInv, SweepOver

\* So the rows and the runs keep their shape.
LEMMA SweepStays == ASSUME SweepInv, Next PROVE SweepInv'
<1>1. Sweeping \/ UNCHANGED sweepVars
  BY DEF Next, Sending, Moving, Withdrawing, Money, HearingOfThePayment, Watching, Meddling, Alerting,
         Living, Tick
<1>2. CASE UNCHANGED sweepVars
  <2>1. backlog' = backlog /\ appeared' = appeared /\ asked' = asked /\ sweep' = sweep
    BY <1>2 DEF sweepVars
  <2> QED BY <2>1 DEF SweepInv, SweepOver, InStep, AtItsStep
<1>3. ASSUME NEW w \in Work, WorkAppears(w) PROVE SweepInv'
  BY <1>3, WorkIsPlaced
<1>4. ASSUME NEW s \in Sweeps, NEW w \in Work, RowDone(s, w) \/ RowFails(s, w) PROVE SweepInv'
  BY <1>4, SweepWorks
<1>5. ASSUME NEW s \in Sweeps,
             \/ BeginSweep(s) \/ ReadRows(s) \/ StepDone(s) \/ CheckIn(s)
             \/ StepFails(s) \/ CalendarMissing(s) \/ SweepFails(s)
      PROVE  SweepInv'
  <2>1. appeared' = appeared /\ asked' \subseteq appeared /\ backlog' = backlog
    BY <1>5 DEF SweepInv, BeginSweep, ReadRows, StepDone, CheckIn, StepFails, CalendarMissing, SweepFails
  <2>2. \E x : (x = NoSweep \/ InStep(x)) /\ sweep' = [sweep EXCEPT ![s] = x]
    <3>1. CASE BeginSweep(s)
      BY <3>1 DEF BeginSweep, InStep
    <3>2. CASE StepDone(s) \/ StepFails(s) \/ CalendarMissing(s)
      <4>1. ~SweepOver(s) /\ GoesOn(s)
        BY <3>2 DEF StepDone, StepFails, CalendarMissing
      <4>2. InStep([at |-> sweep[s].at + 1, rows |-> NotRead])
        BY <4>1, HandsOn
      <4> QED BY <4>1, <4>2 DEF GoesOn, SweepInv
    <3>3. CASE CheckIn(s) \/ SweepFails(s)
      BY <3>3 DEF CheckIn, SweepFails
    <3>4. CASE ReadRows(s)
      <4>1. ~SweepOver(s) /\ At(s) \in Batched /\ sweep' = [sweep EXCEPT ![s].rows = FirstOf(At(s))]
        BY <3>4 DEF ReadRows
      <4>2. backlog[At(s)] \in Seq(AtItsStep(At(s)))
        BY <4>1 DEF SweepInv
      <4>3. FirstOf(At(s)) \in Seq(AtItsStep(At(s)))
        <5> DEFINE q == backlog[At(s)]
                   n == IF Len(q) < Batch[At(s)] THEN Len(q) ELSE Batch[At(s)]
        <5>1. Len(q) \in Nat /\ \A i \in 1 .. Len(q) : q[i] \in AtItsStep(At(s))
          BY <4>2, LenProperties, ElementOfSeq
        <5>2. n \in Nat /\ n <= Len(q)
          BY <4>1, <5>1, SweepAssumption
        <5> HIDE DEF q, n
        <5>3. SubSeq(q, 1, n) \in Seq(AtItsStep(At(s)))
          BY <5>1, <5>2, SubSeqProperties
        <5> QED BY <5>3 DEF FirstOf, q, n
      <4>4. InStep([sweep[s] EXCEPT !.rows = FirstOf(At(s))])
        <5>1. InStep(sweep[s])
          BY <4>1, HandsOn
        <5> HIDE DEF FirstOf
        <5> QED BY <4>1, <4>3, <5>1 DEF InStep, At
      <4>5. sweep' = [sweep EXCEPT ![s] = [sweep[s] EXCEPT !.rows = FirstOf(At(s))]]
        BY <4>1 DEF SweepInv
      <4> QED BY <4>4, <4>5
    <3> QED BY <1>5, <3>1, <3>2, <3>3, <3>4
  <2>3. PICK x : (x = NoSweep \/ InStep(x)) /\ sweep' = [sweep EXCEPT ![s] = x]
    BY <2>2
  <2>4. /\ "moves" \in Batched /\ backlog["moves"] \in Seq(AtItsStep("moves"))
        /\ IsInjective(backlog["moves"]) /\ backlog' = [backlog EXCEPT !["moves"] = backlog["moves"]]
    BY <2>1 DEF SweepInv, Batched
  <2> QED BY <2>1, <2>3, <2>4, SweepKept
<1> QED BY <1>1, <1>2, <1>3, <1>4, <1>5 DEF Sweeping, SweepStep, SweepMishap

(***************************************************************************)
(* The types of everything else.                                           *)
(***************************************************************************)

\* The rows of slot_holds, and the events on the coach's calendar.
HoldRow == [status : {"converted", "released", "cleared"}, time : Times, event : EventIds \cup {None}]
EventRow == [status : {"none", "live", "gone"}, time : Times \cup {None}]

\* Giving a booking's time back leaves holds.
LEMMA ReleasedRows ==
    ASSUME booking \in BookingRow, holds \subseteq HoldRow
    PROVE  ReleaseTime(booking) \subseteq HoldRow
<1> DEFINE b == booking
           backing == {h \in holds : h.status = "converted" /\ h.time = b.time}
           carried == {[h EXCEPT !.status = "released",
                                 !.event = IF @ = None THEN b.event ELSE @] : h \in backing}
           byHand  == IF backing = {} /\ b.event # None
                      THEN {[status |-> "released", time |-> b.time, event |-> b.event]} ELSE {}
<1>1. carried \subseteq HoldRow
  BY DEF HoldRow, BookingRow
<1>2. b.time # None => byHand \subseteq HoldRow
  BY DEF HoldRow, BookingRow
<1>3. ReleaseTime(booking) = IF b.time = None THEN holds ELSE (holds \ backing) \cup carried \cup byHand
  BY DEF ReleaseTime
<1> HIDE DEF carried, byHand
<1> QED BY <1>1, <1>2, <1>3

\* Holds stay holds, whatever gives a time back, moves it or links an event to it.
LEMMA HoldsStep == ASSUME BaseInv, holds \subseteq HoldRow, Next PROVE holds' \subseteq HoldRow
<1>1. /\ booking \in BookingRow
      /\ booking.status \in {"scheduled", "confirmed"} => booking.time \in Times
  BY DEF BaseInv, RowsOK
<1>2. CASE holds' = holds \/ holds' = ReleaseTime(booking)
  BY <1>1, <1>2, ReleasedRows
<1>3. ASSUME NEW m \in Movers, MoverStep(m) PROVE holds' \subseteq HoldRow
  <2>1. CASE MoveBooking(m) /\ holds' # holds
    <3> DEFINE old == {h \in holds : h.status = "converted" /\ h.time = booking.time}
               new == [status |-> "converted", time |-> mover[m].time, event |-> booking.event]
    <3>1. /\ holds' = (holds \ old) \cup {OldHold(h) : h \in old} \cup {new}
          /\ ~MoverIdle(m)
      BY <2>1 DEF MoveBooking
    <3>2. mover[m].time \in Times
      BY <3>1 DEF BaseInv, WorkersOK, MoverState, MoverIdle
    <3>3. new \in HoldRow
      BY <1>1, <3>2 DEF HoldRow, BookingRow
    <3>4. \A h \in old : OldHold(h) \in HoldRow
      BY DEF OldHold, HoldRow
    <3> HIDE DEF new
    <3> QED BY <3>1, <3>3, <3>4
  <2>2. CASE ScheduleWaiting(m) /\ holds' # holds
    <3>1. /\ holds' = holds \cup {[status |-> "converted", time |-> mover[m].time, event |-> None]}
          /\ mover[m].time \in Times
      BY <2>2 DEF ScheduleWaiting, MoverIdle, BaseInv, WorkersOK, MoverState
    <3> QED BY <3>1 DEF HoldRow
  <2> QED BY <1>3, <2>1, <2>2 DEF MoverStep, ReadMove, CallCalendar, ClearFlag
<1>4. ASSUME NEW e \in EventIds, Confirm(e) PROVE holds' \subseteq HoldRow
  BY <1>4 DEF Confirm, HoldRow
<1>5. CASE ReturnToWaiting
  BY <1>5 DEF ReturnToWaiting, HoldRow
<1>6. CASE SweepDeletes
  BY <1>6 DEF SweepDeletes, HoldRow
<1>7. CASE Moving
  BY <1>2, <1>3, <1>4, <1>5, <1>6, <1>7
     DEF Moving, AskToMove, AskForNewTime, Asks, CalendarDown, MoverCrashes
<1>8. CASE Money
  BY <1>2, <1>8 DEF Money, RefundInPart, RefundInFull, CancelBookings, DisputeLands, CancelOpenBooking
<1>9. ASSUME NEW h \in Handlers, Settle(h) PROVE holds' \subseteq HoldRow
  <2>1. \/ holds' = {}
        \/ \E status \in {"released", "converted"} :
             holds' = {[status |-> status, time |-> FirstTime, event |-> None]}
    BY <1>9 DEF Settle
  <2> QED BY <2>1, Firsts DEF HoldRow
<1>10. CASE HearingOfThePayment
  <2>1. ASSUME NEW h \in Handlers, HandlerWrites(h) PROVE holds' \subseteq HoldRow
    <3>1. ASSUME RecordDispute(h) PROVE holds' = holds \/ holds' = ReleaseTime(booking)
      <4>1. \A d : ApplyDisputeEffects(d) => holds' = holds \/ holds' = ReleaseTime(booking)
        BY DEF ApplyDisputeEffects, CancelOpenBooking
      <4> QED BY <3>1, <4>1 DEF RecordDispute
    <3>2. ASSUME RecordWarning(h) PROVE holds' = holds \/ holds' = ReleaseTime(booking)
      BY <3>2 DEF RecordWarning, CancelOpenBooking
    <3> QED BY <1>2, <1>9, <2>1, <3>1, <3>2 DEF HandlerWrites
  <2> QED BY <1>2, <1>10, <2>1
          DEF HearingOfThePayment, SweepAppliesDispute, ApplyDisputeEffects, CancelOpenBooking
<1>11. CASE Watching
  <2>1. CASE Adopt
    <3>1. watch.found.kind = "restored" /\ watch.step = "read" => watch.found.as \in EventIds
      BY DEF BaseInv, WorkersOK
    <3> QED BY <2>1, <3>1 DEF Adopt, HoldRow
  <2> QED BY <1>2, <1>11, <2>1 DEF Watching, WatchStep, StartWatch, ReadCalendar, Judge, WatchGivesUp
<1>12. Moving \/ Money \/ HearingOfThePayment \/ Watching \/ holds' = holds
  BY DEF Next, Sending, Withdrawing, Meddling, Alerting, Sweeping, Living, Tick, rowVars
<1> QED BY <1>2, <1>7, <1>8, <1>10, <1>11, <1>12

\* Events stay events, whoever writes them.
LEMMA CalendarStep ==
    ASSUME BaseInv, holds \subseteq HoldRow, calendar \in [EventIds -> EventRow], Next
    PROVE  calendar' \in [EventIds -> EventRow]
<1>1. CASE calendar' = calendar
  BY <1>1
<1>2. ASSUME NEW e, NEW t \in Times, calendar' = [calendar EXCEPT ![e].time = t]
      PROVE  calendar' \in [EventIds -> EventRow]
  BY <1>2 DEF EventRow
<1>3. ASSUME NEW e, calendar' = [calendar EXCEPT ![e].status = "gone"]
      PROVE  calendar' \in [EventIds -> EventRow]
  BY <1>3 DEF EventRow
<1>4. ASSUME NEW e \in EventIds, NEW t \in Times \cup {None},
             calendar' = [calendar EXCEPT ![e] = [status |-> "live", time |-> t]]
      PROVE  calendar' \in [EventIds -> EventRow]
  BY <1>4 DEF EventRow
<1>5. CASE Moving
  <2>1. ASSUME NEW m \in Movers, CallCalendar(m) PROVE calendar' \in [EventIds -> EventRow]
    <3>1. mover[m].time \in Times
      BY <2>1 DEF CallCalendar, MoverIdle, BaseInv, WorkersOK, MoverState
    <3> QED BY <1>1, <1>2, <2>1, <3>1 DEF CallCalendar
  <2>2. ASSUME NEW m \in Movers, MoverStep(m) PROVE calendar' \in [EventIds -> EventRow]
    BY <1>1, <2>1, <2>2 DEF MoverStep, MoveBooking, ScheduleWaiting, ReadMove, ClearFlag
  <2>3. ASSUME NEW e \in EventIds, Confirm(e) PROVE calendar' \in [EventIds -> EventRow]
    <3>1. booking.time \in Times
      BY <2>3 DEF Confirm, BaseInv, RowsOK
    <3> QED BY <1>4, <2>3, <3>1 DEF Confirm
  <2>4. CASE SweepDeletes
    BY <1>3, <2>4 DEF SweepDeletes
  <2> QED BY <1>1, <1>5, <2>2, <2>3, <2>4
          DEF Moving, AskToMove, AskForNewTime, Asks, CalendarDown, MoverCrashes, ReturnToWaiting
<1>6. CASE Meddling
  <2>1. ASSUME NEW e \in EventIds, CoachDeletes(e) PROVE calendar' \in [EventIds -> EventRow]
    BY <1>3, <2>1 DEF CoachDeletes
  <2>2. ASSUME NEW e \in EventIds, NEW t \in Times, CoachMoves(e, t) PROVE calendar' \in [EventIds -> EventRow]
    BY <1>2, <2>2 DEF CoachMoves
  <2>3. ASSUME NEW e \in EventIds, NEW f \in EventIds, CoachRestores(e, f)
        PROVE  calendar' \in [EventIds -> EventRow]
    <3>1. calendar[e].time \in Times \cup {None}
      BY DEF EventRow
    <3> QED BY <1>4, <2>3, <3>1 DEF CoachRestores
  <2> QED BY <1>6, <2>1, <2>2, <2>3 DEF Meddling
<1>7. Moving \/ Meddling \/ calendar' = calendar
  BY DEF Next, Sending, Withdrawing, Money, HearingOfThePayment, Watching, Alerting, Sweeping, Living,
         Tick, rowVars
<1> QED BY <1>1, <1>5, <1>6, <1>7


\* The tables and the calendar.
TablesInv ==
    /\ world \in Worlds /\ mishaps \in 0 .. MaxMishaps /\ taken \subseteq Times
    /\ holds \subseteq HoldRow /\ calendar \in [EventIds -> EventRow]

LEMMA InitTables == Init => TablesInv
<1> SUFFICES ASSUME Init PROVE TablesInv
  OBVIOUS
<1>1. world \in Worlds /\ mishaps \in 0 .. MaxMishaps /\ taken \subseteq Times
  BY InstantAssumption DEF Init, CareInit
<1>2. CASE holds = {} /\ calendar = [e \in EventIds |-> NoEvent]
  BY <1>1, <1>2 DEF TablesInv, NoEvent, EventRow
<1>3. CASE Confirmed
  <2>1. holds \subseteq HoldRow
    BY <1>3, Firsts DEF Confirmed, HoldRow
  <2>2. calendar \in [EventIds -> EventRow]
    BY <1>3, Firsts DEF Confirmed, NoEvent, EventRow
  <2> QED BY <1>1, <2>1, <2>2 DEF TablesInv
<1> QED BY <1>2, <1>3 DEF Init, CareInit, Unsettled, Waiting

LEMMA TablesStep == ASSUME BaseInv, TablesInv, Next PROVE TablesInv'
<1> USE DEF TablesInv
<1>1. world' \in Worlds
  BY WorldStays
<1>2. mishaps' \in 0 .. MaxMishaps
  BY MishapsGrow, InstantAssumption
<1>3. taken' \subseteq Times
  BY DEF Next, Sending, Moving, Withdrawing, Money, HearingOfThePayment, Watching, Meddling, Alerting,
         Sweeping, Living, Tick, worldVars, StrangerTakes
<1> QED BY <1>1, <1>2, <1>3, HoldsStep, CalendarStep

\* A request goes through no more rounds than its client has, and one more for a token
\* that was refused (microsoft-graph.ts:173).
Few(call) == call.attempt \in 1 .. MaxAttempts + (IF call.refreshed THEN 1 ELSE 0)
RequestsEnd == \A s \in Senders : ~Idle(s) => Few(sender[s].call)

LEMMA RoundsAreFew ==
    ASSUME NEW call \in Rounds, Few(call)
    PROVE  /\ \A f \in Failures(call) : Few(f.to.call)
           /\ \A to \in LostAnswers(call) : Few(to.call)
<1>1. \A step : Few(Ends(step).call)
  BY AttemptAssumption DEF Few, Ends, FirstRound
<1>2. \A c \in Rounds : /\ Again(c).call.attempt = c.attempt + 1
                        /\ Again(c).call.refreshed = c.refreshed
  BY DEF Again, Rounds
<1>3. Few(Unauthorised(call).call)
  <2>1. CASE call.refreshed
    BY <1>1, <2>1 DEF Unauthorised
  <2>2. CASE ~call.refreshed
    <3> DEFINE c == [call EXCEPT !.refreshed = TRUE]
    <3>1. c \in Rounds /\ c.attempt = call.attempt /\ c.refreshed = TRUE
      BY DEF Rounds
    <3> HIDE DEF c
    <3>2. Again(c).call.attempt = call.attempt + 1 /\ Again(c).call.refreshed = TRUE
      BY <1>2, <3>1
    <3>3. call.attempt \in 1 .. MaxAttempts
      BY <2>2, AttemptAssumption DEF Few
    <3>4. Few(Again(c).call)
      BY <3>2, <3>3, AttemptAssumption DEF Few
    <3> QED BY <2>2, <3>4 DEF Unauthorised, c
  <2> QED BY <2>1, <2>2
<1>4. Few(Unavailable(call).call)
  <2>1. CASE call.attempt < MaxAttempts
    <3>1. Again(call).call.attempt = call.attempt + 1 /\ call.attempt \in Nat
      BY <1>2 DEF Rounds
    <3>2. Few(Again(call).call)
      BY <2>1, <3>1, AttemptAssumption DEF Few
    <3> QED BY <2>1, <3>2 DEF Unavailable
  <2>2. CASE ~(call.attempt < MaxAttempts)
    BY <1>1, <2>2 DEF Unavailable
  <2> QED BY <2>1, <2>2
<1>5. \A to \in LostAnswers(call) : Few(to.call)
  BY <1>1, <1>4 DEF LostAnswers
<1>6. ASSUME NEW f \in Failures(call) PROVE Few(f.to.call)
  <2>1. \/ \E step : f.to = Ends(step)
        \/ f.to = Unauthorised(call) \/ f.to = Unavailable(call)
    BY DEF Failures, TokenRefused
  <2> QED BY <1>1, <1>3, <1>4, <2>1
<1> QED BY <1>5, <1>6

LEMMA RequestsStep == ASSUME BaseInv, MailTypes, RequestsEnd, Next PROVE RequestsEnd'
<1>1. CASE sender' = sender
  BY <1>1 DEF RequestsEnd, Idle
<1>2. ASSUME NEW s \in Senders, NEW x, sender' = [sender EXCEPT ![s] = x], x = NoSender \/ Few(x.call)
      PROVE  RequestsEnd'
  <2>1. \A k \in Senders : sender'[k] = IF k = s THEN x ELSE sender[k]
    BY <1>2 DEF MailTypes
  <2>2. \A k \in Senders : sender'[k] # NoSender => Few(sender'[k].call)
    BY <1>2, <2>1 DEF RequestsEnd, Idle
  <2> QED BY <2>2 DEF RequestsEnd, Idle, Few
<1>3. ASSUME NEW s \in Senders, NEW t, Take(s, t) PROVE RequestsEnd'
  <2> DEFINE x == [step |-> "claimed", row |-> t, since |-> booking.moves, about |-> Context,
                   call |-> FirstRound]
  <2>1. sender' = [sender EXCEPT ![s] = x]
    BY <1>3 DEF Take
  <2>2. Few(x.call)
    BY AttemptAssumption DEF Few, FirstRound
  <2> HIDE DEF x
  <2> QED BY <1>2, <2>1, <2>2
<1>4. ASSUME NEW s \in Senders, Load(s) \/ AskWhetherAhead(s) PROVE RequestsEnd'
  <2>1. ~Idle(s) /\ sender[s] \in SenderState \ {NoSender} /\ Few(sender[s].call)
    BY <1>4, NotIdle DEF Load, AskWhetherAhead, RequestsEnd
  <2>2. \E v, a : sender' = [sender EXCEPT ![s] = [sender[s] EXCEPT !.step = v, !.about = a]]
    <3>1. CASE Load(s)
      BY <3>1 DEF Load, MailTypes
    <3>2. CASE AskWhetherAhead(s)
      <4>1. PICK v : sender' = [sender EXCEPT ![s].step = v]
        BY <3>2 DEF AskWhetherAhead
      <4>2. [sender[s] EXCEPT !.step = v] = [sender[s] EXCEPT !.step = v, !.about = sender[s].about]
        BY <2>1 DEF SenderState
      <4> QED BY <4>1, <4>2 DEF MailTypes
    <3> QED BY <1>4, <3>1, <3>2
  <2>3. PICK v, a : sender' = [sender EXCEPT ![s] = [sender[s] EXCEPT !.step = v, !.about = a]]
    BY <2>2
  <2>4. [sender[s] EXCEPT !.step = v, !.about = a].call = sender[s].call
    BY <2>1 DEF SenderState
  <2> QED BY <1>2, <2>1, <2>3, <2>4
<1>5. ASSUME NEW s \in Senders, Send(s) PROVE RequestsEnd'
  <2>1. ~Idle(s) /\ sender[s] \in SenderState \ {NoSender} /\ sender[s].call \in Rounds
        /\ Few(sender[s].call)
    BY <1>5, NotIdle DEF Send, RequestsEnd
  <2>2. \E to : Goes(s, to) /\ Few(to.call)
    <3>1. CASE Accepted(s)
      <4>1. Few(Ends("accepted").call)
        BY AttemptAssumption DEF Few, Ends, FirstRound
      <4> QED BY <3>1, <4>1 DEF Accepted
    <3>2. CASE Refused(s)
      BY <2>1, <3>2, RoundsAreFew DEF Refused
    <3>3. CASE AnswerLost(s)
      BY <2>1, <3>3, RoundsAreFew DEF AnswerLost
    <3> QED BY <1>5, <3>1, <3>2, <3>3 DEF Send
  <2>3. PICK to : Goes(s, to) /\ Few(to.call)
    BY <2>2
  <2> DEFINE x == [sender[s] EXCEPT !.step = to.step, !.call = to.call]
  <2>4. sender' = [sender EXCEPT ![s] = x] /\ x.call = to.call
    BY <2>1, <2>3 DEF Goes, MailTypes, SenderState
  <2> HIDE DEF x
  <2>5. Few(x.call)
    BY <2>3, <2>4
  <2> QED BY <1>2, <2>4, <2>5
<1>6. ASSUME NEW s \in Senders, RecordSending(s) \/ SenderCrashes(s) PROVE RequestsEnd'
  BY <1>2, <1>6 DEF RecordSending, SenderCrashes
<1>7. CASE (\E t \in Templates : LeaseEnds(t)) \/ QueueChooseNewTime
  BY <1>1, <1>7 DEF LeaseEnds, mailVars, QueueChooseNewTime
<1> QED BY <1>1, <1>3, <1>4, <1>5, <1>6, <1>7, OthersMail, SendingCases DEF MailStays

\* Consent, the links sent, and the token kept.
CustomersInv ==
    /\ forms \subseteq BOOLEAN /\ another \in {"none", "same", "further"}
    /\ links \subseteq {"confirm", "unsubscribe"} /\ token \in BOOLEAN

LEMMA CustomersStep == ASSUME CustomersInv, Next PROVE CustomersInv'
<1> USE DEF CustomersInv
<1>1. \A t, c : LinksIn(t, c) \subseteq {"confirm", "unsubscribe"}
  BY DEF LinksIn
<1>2. forms' \subseteq BOOLEAN /\ another' \in {"none", "same", "further"}
  BY DEF Next, Sending, Moving, Withdrawing, Money, HearingOfThePayment, Watching, Meddling, Alerting,
         Sweeping, Living, Tick, worldVars, formVars, CustomerChanges, CaptureLead, PromoteIntake,
         AnotherIsConfirmed, ConfirmMarketing, Unsubscribe, StrangerTakes
<1>3. CASE links' = links /\ token' = token
  BY <1>2, <1>3
<1>4. ASSUME NEW s \in Senders, SenderStep(s) PROVE links' \subseteq {"confirm", "unsubscribe"} /\ token' \in BOOLEAN
  <2>1. CASE Accepted(s)
    BY <1>1, <2>1 DEF Accepted, Reaches
  <2>2. CASE Refused(s)
    <3>1. PICK f \in Failures(sender[s].call) : token' = f.token
      BY <2>2 DEF Refused
    <3> DEFINE call == sender[s].call
    <3>2. \/ f \in {[to |-> e, token |-> FALSE] : e \in IF token THEN {} ELSE TokenRefused}
          \/ f \in {[to |-> Unauthorised(call), token |-> FALSE],
                    [to |-> Unavailable(call), token |-> TRUE], [to |-> Ends("fail"), token |-> TRUE]}
          \/ f \in {[to |-> Ends("retry"), token |-> kept] : kept \in {token, TRUE}}
      BY DEF Failures
    <3> HIDE DEF call
    <3>3. f.token = FALSE \/ f.token = TRUE \/ f.token = token
      BY <3>2
    <3>4. token' \in BOOLEAN
      BY <3>1, <3>3
    <3> QED BY <2>2, <3>4 DEF Refused
  <2>3. CASE AnswerLost(s)
    BY <1>1, <2>3 DEF AnswerLost, Reaches
  <2> QED BY <1>4, <2>1, <2>2, <2>3
          DEF SenderStep, Send, Claim, Take, Load, AskWhetherAhead, RecordSending
<1>5. CASE Sending
  BY <1>2, <1>4, <1>5
     DEF Sending, SenderCrashes, LeaseEnds, QueueChooseNewTime, LinkRunsOut, TokenLapses, mailVars,
         mailButToken
<1>6. CASE Living
  BY <1>1, <1>2, <1>6
     DEF Living, CustomerChanges, CaptureLead, PromoteIntake, AnotherIsConfirmed, ConfirmMarketing,
         Unsubscribe, StrangerTakes, mailButLinks
<1>7. Sending \/ Living \/ (links' = links /\ token' = token)
  BY DEF Next, Moving, Withdrawing, Money, HearingOfThePayment, Watching, Meddling, Alerting, Sweeping,
         Tick, mailVars, ReturnToWaiting, SendAcknowledgementNow, Take
<1> QED BY <1>3, <1>5, <1>6, <1>7

\* The row of withdrawal_requests.
NoticeRow == [kept : BOOLEAN, at : 0 .. LastHour, declined : BOOLEAN]

LEMMA NoticeStep == ASSUME MailTypes, notice \in NoticeRow, Next PROVE notice' \in NoticeRow
<1>1. CASE notice' = notice
  BY <1>1
<1>2. ASSUME NEW p \in Tabs, KeepNotice(p) PROVE notice' \in NoticeRow
  <2>1. form[p].now \in 0 .. LastHour
    BY DEF MailTypes, Form
  <2>2. notice' = notice \/ notice' = [NoNotice EXCEPT !.kept = TRUE, !.at = form[p].now]
    BY <1>2 DEF KeepNotice, RecordWithdrawal
  <2>3. [NoNotice EXCEPT !.kept = TRUE, !.at = form[p].now] \in NoticeRow
    BY <2>1 DEF NoNotice, NoticeRow
  <2> QED BY <1>1, <2>2, <2>3
<1>3. CASE Decline
  BY <1>3 DEF Decline, DeclineWithdrawal, NoticeRow
<1>4. ASSUME NEW p \in Tabs, NEW s \in Senders, SendAcknowledgementNow(p, s) PROVE notice' = notice
  BY <1>4 DEF SendAcknowledgementNow
<1>5. CASE Withdrawing
  BY <1>1, <1>2, <1>3, <1>4, <1>5
     DEF Withdrawing, WithdrawalStep, LookUp, AskForCountry, LeaveForm, TellDesk
<1>6. Withdrawing \/ notice' = notice
  BY DEF Next, Sending, Moving, Money, HearingOfThePayment, Watching, Meddling, Alerting, Sweeping,
         Living, Tick, noticeVars
<1> QED BY <1>1, <1>5, <1>6

\* The watch's alarms.
LEMMA AlarmsStep ==
    ASSUME alarms \subseteq BOOLEAN, changed \in BOOLEAN, Next
    PROVE  alarms' \subseteq BOOLEAN /\ changed' \in BOOLEAN
<1>1. Watching \/ UNCHANGED <<changed, alarms>> \/ Noticing
  BY DEF Next, Sending, Moving, Withdrawing, Money, HearingOfThePayment, Meddling, Alerting, Sweeping,
         Living, Tick, watchVars
<1>2. CASE Noticing
  <2>1. alarms' = alarms
    BY <1>2 DEF Noticing
  <2>2. changed' = (changed \/ (watch.step # "idle" /\ Watched' # Watched))
    BY <1>2 DEF Noticing
  <2>3. (changed \/ (watch.step # "idle" /\ Watched' # Watched)) \in BOOLEAN
    OBVIOUS
  <2>4. changed' \in BOOLEAN
    BY <2>2, <2>3, Zenon
  <2> QED BY <2>1, <2>4
<1>3. CASE Watching
  BY <1>3 DEF Watching, WatchStep, StartWatch, ReadCalendar, Judge, Adopt, WatchGivesUp
<1>4. CASE UNCHANGED <<changed, alarms>>
  BY <1>4
<1> QED BY <1>1, <1>2, <1>3, <1>4

\* The ledger holds what Stripe sent.
LEMMA LedgerStep ==
    ASSUME BaseInv, ledger \subseteq sent \cup {"paid"}, Next
    PROVE  ledger' \subseteq sent' \cup {"paid"}
<1>1. CASE UNCHANGED <<sent, ledger>>
  BY <1>1
<1>2. ASSUME NEW h \in Handlers, HandlerWrites(h) PROVE ledger' \subseteq sent' \cup {"paid"}
  <2>1. /\ ~Answered(h) /\ sent' = sent /\ ledger' = ledger \cup {handler[h].event}
        /\ handler[h].kind \in {"dispute", "warning", "payment"}
    BY <1>2 DEF HandlerWrites, RecordDispute, RecordWarning, Settle, Commit, Writing
  <2>2. handler[h].event \in sent \cup {"paid"}
    BY <2>1 DEF BaseInv, DeliveriesOK
  <2> QED BY <2>1, <2>2
<1>3. CASE HearingOfThePayment
  BY <1>1, <1>2, <1>3
     DEF HearingOfThePayment, StripeMovesOn, StripeWarns, HandlerReads, ReadDispute, HearWarning,
         HearPayment, BeginTransaction, SweepAppliesDispute, RollBack, paymentVars
<1> QED BY <1>1, <1>3
        DEF Next, Sending, Moving, Withdrawing, Money, Watching, Meddling, Alerting, Sweeping, Living,
            Tick, paymentVars

\* A problem is about a subject, and an alert that is open has a row.
OpenHasRow == \A x \in Subjects : alert[x].open => alert[x].id > 0

LEMMA ProblemsStep ==
    ASSUME DeskTypes, problem \subseteq Subjects, OpenHasRow, Next
    PROVE  problem' \subseteq Subjects /\ OpenHasRow'
<1>1. problem' \subseteq Subjects
  <2>1. CASE Alerting
    BY <2>1 DEF Alerting, RunStep, SendAlert, AlertAnswerLost, AlertRefused, RunCrashes,
                ProblemAppears, ProblemGoes, HalfAnHour, ADay, ListProblems, ListOpen, CloseGone, OpenAlert, ClaimAlert,
                ReleaseAlert, RecordAlert
  <2> QED BY <2>1 DEF Next, Sending, Moving, Withdrawing, Money, HearingOfThePayment, Watching,
                      Meddling, Sweeping, Living, Tick, deskVars
<1>2. \/ alert' = alert
      \/ \E x : alert' \in RowForms(x)
  <2>1. ASSUME NEW r \in Runs, RunStep(r) PROVE \E x : alert' \in RowForms(x)
    BY <2>1 DEF RunStep, ListProblems, ListOpen, CloseGone, OpenAlert, ClaimAlert, ReleaseAlert,
                RecordAlert, RowForms
  <2>2. ASSUME NEW x \in Subjects, HalfAnHour(x) \/ ADay(x) PROVE alert' \in RowForms(x)
    BY <2>2 DEF HalfAnHour, ADay, RowForms
  <2>3. Alerting \/ alert' = alert
    BY DeskStands
  <2> QED BY <2>1, <2>2, <2>3
          DEF Alerting, SendAlert, AlertAnswerLost, AlertRefused, RunCrashes, ProblemAppears,
              ProblemGoes
<1>3. ASSUME NEW x, alert' \in RowForms(x) PROVE OpenHasRow'
  <2>1. alert \in [Subjects -> AlertRow]
    BY DEF DeskTypes
  <2>2. x \in Subjects => alert[x].id + 1 \in Nat \ {0}
    BY <2>1 DEF AlertRow
  <2>3. Opened(x).id = alert[x].id + 1
    BY DEF Opened, NoAlert
  <2>4. CASE alert' = [alert EXCEPT ![x] = Opened(x)]
    <3>1. \A y \in Subjects : y # x => alert'[y] = alert[y]
      BY <2>1, <2>4
    <3>2. x \in Subjects => alert'[x] = Opened(x)
      BY <2>1, <2>4
    <3>3. x \in Subjects => alert'[x].id > 0
      BY <2>2, <2>3, <3>2
    <3> QED BY <3>1, <3>3 DEF OpenHasRow
  <2>5. CASE alert' # [alert EXCEPT ![x] = Opened(x)]
    <3>1. \A y \in Subjects : alert'[y].id = alert[y].id /\ (alert'[y].open => alert[y].open)
      BY <1>3, <2>1, <2>5 DEF RowForms, AlertRow
    <3> QED BY <3>1 DEF OpenHasRow
  <2> QED BY <2>4, <2>5
<1>4. ASSUME alert' = alert PROVE OpenHasRow'
  BY <1>4 DEF OpenHasRow
<1> QED BY <1>1, <1>2, <1>3, <1>4

\* All of it.
PartsInv ==
    /\ TablesInv /\ RequestsEnd /\ CustomersInv /\ notice \in NoticeRow
    /\ alarms \subseteq BOOLEAN /\ changed \in BOOLEAN
    /\ ledger \subseteq sent \cup {"paid"} /\ problem \subseteq Subjects /\ OpenHasRow /\ SweepInv

LEMMA InitParts == Init => PartsInv
<1> SUFFICES ASSUME Init PROVE PartsInv
  OBVIOUS
<1>1. TablesInv /\ SweepInv
  BY InitTables, InitSweep
<1>2. RequestsEnd
  BY DEF Init, MailInit, RequestsEnd, Idle
<1>3. CustomersInv
  BY DEF Init, MailInit, CustomersInit, GraphInit, CustomersInv, Here
<1>4. notice \in NoticeRow
  BY InstantAssumption DEF Init, NoticeInit, NoNotice, NoticeRow
<1>5. /\ alarms \subseteq BOOLEAN /\ changed \in BOOLEAN /\ ledger \subseteq sent \cup {"paid"}
      /\ problem \subseteq Subjects /\ OpenHasRow
  BY DEF Init, WatchInit, PaymentInit, DeskInit, NoAlert, OpenHasRow
<1> QED BY <1>1, <1>2, <1>3, <1>4, <1>5 DEF PartsInv

LEMMA PartsStep ==
    BaseInv /\ MailTypes /\ DeskTypes /\ PartsInv /\ [Next]_vars => PartsInv'
<1> SUFFICES ASSUME BaseInv, MailTypes, DeskTypes, PartsInv, [Next]_vars PROVE PartsInv'
  OBVIOUS
<1>1. CASE Next
  BY <1>1, TablesStep, RequestsStep, CustomersStep, NoticeStep, AlarmsStep, LedgerStep, ProblemsStep,
     SweepStays DEF PartsInv
<1>2. CASE UNCHANGED vars
  <2>1. TablesInv'
    BY <1>2 DEF PartsInv, TablesInv, vars, careVars
  <2>2. RequestsEnd'
    BY <1>2 DEF PartsInv, RequestsEnd, Idle, vars, mailVars
  <2>3. CustomersInv'
    BY <1>2 DEF PartsInv, CustomersInv, vars, mailVars, formVars
  <2>4. /\ notice' \in NoticeRow /\ alarms' \subseteq BOOLEAN /\ changed' \in BOOLEAN
        /\ ledger' \subseteq sent' \cup {"paid"} /\ problem' \subseteq Subjects /\ OpenHasRow'
    BY <1>2 DEF PartsInv, OpenHasRow, vars, noticeVars, watchVars, paymentVars, deskVars
  <2>5. SweepInv'
    <3>1. backlog' = backlog /\ appeared' = appeared /\ asked' = asked /\ sweep' = sweep
      BY <1>2 DEF vars, sweepVars
    <3> QED BY <3>1 DEF PartsInv, SweepInv, SweepOver, InStep, AtItsStep
  <2> QED BY <2>1, <2>2, <2>3, <2>4, <2>5 DEF PartsInv
<1> QED BY <1>1, <1>2

\* Every row, every worker's state and every queue keeps its type and shape: what the
\* columns may hold, that a request to Microsoft ends, that no row waits twice at a
\* step of the sweep, and that an order is asked about only if it waits.
THEOREM CareTypesHold == Spec => []TypeOK
<1>1. BaseInv /\ MailTypes /\ NewsInv /\ CountInv /\ PartsInv => TypeOK
  <2> SUFFICES ASSUME BaseInv, MailTypes, NewsInv, CountInv, PartsInv PROVE TypeOK
    OBVIOUS
  <2>1. CareTypeOK
    BY DEF CareTypeOK, BaseInv, RowsOK, BookingRow, PartsInv, TablesInv, HoldRow, EventRow, MailTypes,
           CustomerRow
  <2>2. CustomersInv
    BY DEF PartsInv
  <2>3. \A s \in Senders : ~Idle(s) =>
          sender[s].row \in Templates /\ sender[s].call.attempt \in 1 .. MaxAttempts + 1
    <3> SUFFICES ASSUME NEW s \in Senders, ~Idle(s)
                 PROVE  sender[s].row \in Templates /\ sender[s].call.attempt \in 1 .. MaxAttempts + 1
      OBVIOUS
    <3>1. Few(sender[s].call)
      BY DEF PartsInv, RequestsEnd
    <3>2. sender[s].call.attempt \in 1 .. MaxAttempts + 1
      BY <3>1, AttemptAssumption DEF Few
    <3> QED BY <3>2, NotIdle
  <2>4. \A m \in Movers : MoverIdle(m) \/ mover[m].time \in Times
    BY DEF BaseInv, WorkersOK, MoverState, MoverIdle
  <2>5. \A p \in Tabs : form[p].step \in
          {"blank", "shown", "asked", "kept", "reviewing", "refunded", "declined"}
    BY DEF MailTypes, Form
  <2>6. watch.step \in {"idle", "listed", "read"}
    BY DEF BaseInv, WorkersOK, WatchState, NotWatching
  <2>7. /\ claim \in Statuses /\ dispute.status \in Statuses
        /\ \A h \in Handlers : Answered(h) \/ handler[h].status \in Statuses
    BY DEF BaseInv, DeliveriesOK, Delivery, Answered
  <2>8. dispute.linked \/ warning.linked => disputed
    BY DEF NewsInv
  <2>9. SweepTypeOK
    <3>1. SweepInv
      BY DEF PartsInv
    <3>2. ASSUME NEW step \in Batched
          PROVE  Range(backlog[step]) \subseteq {w \in appeared : StepOf[w] = step}
      BY <3>1, RangeOfSeq DEF SweepInv, AtItsStep
    <3>3. ASSUME NEW s \in Sweeps, ~SweepOver(s), sweep[s].rows \notin {NotRead, <<>>}
          PROVE  At(s) \in Batched
      BY <3>1, <3>3, HandsOn
    <3> QED BY <3>1, <3>2, <3>3 DEF SweepTypeOK, SweepInv
  <2>10. /\ inbox \in [Templates -> Nat] /\ untold \in [Templates -> Nat]
         /\ told \in [Subjects -> Nat] /\ reasons \in [Subjects -> Nat]
    BY DEF MailTypes, CountInv, CountTypes
  <2>11. /\ notice \in [kept : BOOLEAN, at : 0 .. LastHour, declined : BOOLEAN]
         /\ alarms \subseteq BOOLEAN /\ ledger \subseteq sent \cup {"paid"} /\ problem \subseteq Subjects
         /\ \A x \in Subjects : alert[x].open => alert[x].id > 0
    BY DEF PartsInv, NoticeRow, OpenHasRow
  <2> QED BY <2>1, <2>2, <2>3, <2>4, <2>5, <2>6, <2>7, <2>8, <2>9, <2>10, <2>11 DEF TypeOK, CustomersInv
<1> QED BY <1>1, InitParts, PartsStep, BaseAlways, MailAlways, NewsAlways, DeskAlways, CountAlways,
          PTL DEF Spec
=============================================================================
