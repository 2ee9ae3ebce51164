---------------------------- MODULE CustomerCare ---------------------------
(***************************************************************************)
(* Everything that may happen to one paid booking after its confirmation:  *)
(* its emails, its one move, a notice of withdrawal, refunds and disputes, *)
(* the watch on its calendar event, and the desk's alerts.                 *)
(*                                                                         *)
(* A behaviour starts in one of the given worlds, which says who is at     *)
(* work in it and which mishaps may strike; one run of the model checker   *)
(* explores them all.                                                      *)
(***************************************************************************)
EXTENDS Withdrawals, CalendarWatch, PaymentEvents, DeskAlerts, SweepRuns

vars ==
    <<careVars, formVars, mailVars, mover, noticeVars, watchVars, deskVars, paymentVars,
      sweepVars>>

\* What the steps of each part leave alone.
rowVars == <<booking, holds, calendar>>
worldVars == <<world, hour, payment, disputed, taken, customer, formVars>>
mailButToken == <<sender, inbox, untold, file, linkDead, links>>
mailButLinks == <<sender, inbox, untold, file, linkDead, token>>

Init ==
    /\ CareInit /\ MailInit /\ MoverInit /\ NoticeInit /\ WatchInit /\ DeskInit
    /\ PaymentInit /\ SweepInit

Sending ==
    /\ Here("mail")
    /\ \/ \E s \in Senders : SenderStep(s) \/ SenderCrashes(s)
       \/ \E t \in Templates : LeaseEnds(t) /\ UNCHANGED mishaps
       \/ (QueueChooseNewTime \/ LinkRunsOut) /\ UNCHANGED mishaps
       \/ TokenLapses /\ UNCHANGED <<log, mailButToken, mishaps>>
    /\ UNCHANGED <<worldVars, rowVars, mover, noticeVars, watchVars, deskVars, paymentVars, sweepVars>>

Moving ==
    /\ Here("moves")
    /\ \/ /\ \/ \E m \in Movers : MoverStep(m)
             \/ \E m \in Movers, t \in Times : AskToMove(m, t) \/ AskForNewTime(m, t)
             \/ \E e \in EventIds : Confirm(e)
             \/ SweepDeletes
          /\ UNCHANGED <<mailVars, mishaps>>
       \/ \E m \in Movers : (CalendarDown(m) \/ MoverCrashes(m)) /\ UNCHANGED mailVars
       \/ ReturnToWaiting /\ UNCHANGED mishaps
    /\ Noticing
    /\ UNCHANGED <<worldVars, noticeVars, deskVars, paymentVars, sweepVars>>

Withdrawing ==
    /\ Here("withdrawals")
    /\ \/ WithdrawalStep /\ UNCHANGED mailVars
       \/ \E p \in Tabs, s \in Senders : SendAcknowledgementNow(p, s)
    /\ UNCHANGED <<worldVars, rowVars, mishaps, mover, watchVars, deskVars, paymentVars,
                   sweepVars>>

Money ==
    /\ \/ Here("refunds") /\ (RefundInPart \/ RefundInFull)
       \/ Here("disputes") /\ DisputeLands
    /\ Noticing
    /\ UNCHANGED <<world, hour, taken, customer, formVars, calendar, mishaps, mailVars, mover,
                   noticeVars, deskVars, paymentVars, sweepVars>>

\* Stripe, and the deliveries of its events.
HearingOfThePayment ==
    /\ Here("payment_events")
    /\ \/ /\ \/ StripeMovesOn
             \/ \E w \in Warnings : StripeWarns(w)
             \/ \E h \in Handlers : HandlerReads(h)
          /\ UNCHANGED <<payment, disputed, booking, holds, log, mishaps>>
       \/ SweepAppliesDispute /\ UNCHANGED mishaps
       \/ \E h \in Handlers : HandlerWrites(h) /\ UNCHANGED mishaps
       \/ \E h \in Handlers : RollBack(h) /\ UNCHANGED <<payment, disputed, booking, holds, log>>
    /\ Noticing
    /\ UNCHANGED <<world, hour, taken, customer, formVars, calendar, mailVars, mover, noticeVars,
                   deskVars, sweepVars>>

Watching ==
    /\ Here("watch")
    /\ WatchStep
    /\ UNCHANGED <<worldVars, calendar, log, mishaps, mailVars, mover, noticeVars, deskVars,
                   paymentVars, sweepVars>>

Meddling ==
    /\ \E e \in EventIds :
         \/ CoachDeletes(e)
         \/ \E t \in Times : CoachMoves(e, t)
         \/ \E f \in EventIds : CoachRestores(e, f)
    /\ UNCHANGED <<worldVars, booking, holds, log, mailVars, mover, noticeVars, watchVars, deskVars,
                   paymentVars, sweepVars>>

Alerting ==
    /\ Here("alerts")
    /\ \/ \E r \in Runs : (RunStep(r) /\ UNCHANGED mishaps) \/ SendAlert(r)
                             \/ AlertAnswerLost(r) \/ AlertRefused(r) \/ RunCrashes(r)
       \/ /\ \E x \in Subjects :
               ProblemAppears(x) \/ ProblemGoes(x) \/ HalfAnHour(x) \/ ADay(x)
          /\ UNCHANGED mishaps
    /\ UNCHANGED <<worldVars, rowVars, log, mailVars, mover, noticeVars, watchVars,
                   paymentVars, sweepVars>>

Sweeping ==
    /\ Here("sweeps")
    /\ \/ \E s \in Sweeps : SweepStep(s) \/ SweepMishap(s)
       \/ \E w \in Work : WorkAppears(w)
    /\ UNCHANGED <<worldVars, rowVars, log, mailVars, mover, noticeVars, watchVars, deskVars,
                   paymentVars>>

\* Somebody else takes a time; or something is done in the customer's name.
StrangerTakes(t) ==
    /\ Here("strangers") /\ Free(t)
    /\ taken' = taken \cup {t}
    /\ UNCHANGED <<customer, formVars, links>>

Living ==
    /\ (CustomerChanges /\ UNCHANGED taken) \/ \E t \in Times : StrangerTakes(t)
    /\ UNCHANGED <<world, hour, payment, disputed, rowVars, log, mishaps, mailButLinks, mover,
                   noticeVars, watchVars, deskVars, paymentVars, sweepVars>>

\* Time passes between operations, each of which takes seconds; a customer's request
\* may begin before an instant and commit after it.
Tick ==
    /\ hour < LastHour /\ ~Here("no clock")
    /\ \A s \in Senders : Idle(s)
    /\ \A m \in Movers : ~MoverIdle(m) => m = "form" /\ mover[m].now = hour
    /\ \A p \in Tabs : form[p].step = "asked" => form[p].now = hour
    /\ \A h \in Handlers : ~Writing(h)
    /\ hour' = hour + 1
    /\ UNCHANGED <<world, payment, disputed, taken, customer, formVars, rowVars, log, mishaps, mailVars,
                   mover, noticeVars, watchVars, deskVars, paymentVars, sweepVars>>

Next ==
    \/ Sending \/ Moving \/ Withdrawing \/ Money \/ HearingOfThePayment \/ Watching \/ Meddling
    \/ Alerting \/ Sweeping \/ Living \/ Tick

Spec == Init /\ [][Next]_vars

(***************************************************************************)
(* Fairness.  The send job and the sweep run every five minutes for ever,  *)
(* and each answers for its own next step, so whatever they may do they do *)
(* in the end; time passes.  Nothing is assumed of the customer, the       *)
(* coach, the desk or Stripe, nor that any send or call succeeds: mishaps  *)
(* are bounded instead, and a refused email has its own end.               *)
(***************************************************************************)
MailWork ==
    /\ Here("mail")
    /\ (\E s \in Senders : SenderStep(s)) \/ (\E t \in Templates : LeaseEnds(t))
    /\ Sending

FairSpec ==
    /\ Spec
    /\ WF_vars(Tick)
    /\ WF_vars(MailWork)
    /\ WF_vars(Here("moves") /\ (\E m \in Movers : MoverStep(m)) /\ Moving)
    /\ \A r \in Runs : WF_vars(Here("alerts") /\ (RunStep(r) \/ SendAlert(r)) /\ Alerting)
    /\ \A x \in Subjects : WF_vars(Here("alerts") /\ HalfAnHour(x) /\ Alerting)
    /\ \A s \in Sweeps : WF_vars(Here("sweeps") /\ SweepStep(s) /\ Sweeping)

(***************************************************************************)
(* The types, and the shape of a process's state.                          *)
(***************************************************************************)
TypeOK ==
    /\ CareTypeOK
    /\ forms \subseteq BOOLEAN /\ another \in {"none", "same", "further"}
    /\ links \subseteq {"confirm", "unsubscribe"} /\ token \in BOOLEAN
    /\ \A s \in Senders : ~Idle(s) =>
          sender[s].row \in Templates /\ sender[s].call.attempt \in 1 .. MaxAttempts + 1
    /\ inbox \in [Templates -> Nat] /\ untold \in [Templates -> Nat]
    /\ \A m \in Movers : MoverIdle(m) \/ mover[m].time \in Times
    /\ notice \in [kept : BOOLEAN, at : 0 .. LastHour, declined : BOOLEAN]
    /\ \A p \in Tabs : form[p].step \in
          {"blank", "shown", "asked", "kept", "reviewing", "refunded", "declined"}
    /\ watch.step \in {"idle", "listed", "read"} /\ alarms \subseteq BOOLEAN
    /\ claim \in Statuses /\ dispute.status \in Statuses /\ ledger \subseteq sent \cup {"paid"}
    /\ dispute.linked \/ warning.linked => disputed
    /\ \A h \in Handlers : Answered(h) \/ handler[h].status \in Statuses
    /\ problem \subseteq Subjects /\ told \in [Subjects -> Nat]
    /\ reasons \in [Subjects -> Nat]
    /\ \A x \in Subjects : alert[x].open => alert[x].id > 0
    /\ SweepTypeOK

(***************************************************************************)
(* Emails.                                                                 *)
(***************************************************************************)

\* The customer gets an email more often than once only when a sender sent it and
\* did not live, or was not told, to write that down (deliver.ts:96): a lease and a
\* re-read row keep two runs of the job, and the withdrawal form, off one another.
CopiesAreExplained == \A t \in Templates : inbox[t] <= 1 + untold[t]

\* What the queue says of an email is what happened to it (communications.ts:266-330):
\* a row marked sent went, and one withdrawn or given up on did not, unless the
\* service took it and nobody was told.
LogTellsTheTruth ==
    \A t \in Templates :
      /\ log[t].status = "sent" => inbox[t] > 0
      /\ log[t].status \in {"cancelled", "failed"} /\ ~Working(t) => inbox[t] <= untold[t]

Arriving(s) == \E t \in Templates : ~Idle(s) /\ sender[s].row = t /\ inbox'[t] > inbox[t]

\* An email about the session says what the booking says as it goes, a reminder goes
\* within its day, and an offer goes only to an address whose owner asked for them,
\* confirmed it and has not withdrawn, unless that changed after the sender had read it
\* or had claimed the reminder (deliver.ts:107, 142, reschedule.ts:153).  A reminder
\* that was refused and is tried again after a move may be early too: the row is put
\* back in the queue for the retry's time, not the session's (communications.ts:313).
MailMatchesTheBooking ==
    [][\A s \in Senders :
         Arriving(s) /\ sender[s].row \notin AboutWithdrawal =>
           \/ sender[s].about # Context
           \/ /\ sender[s].row \in Reminders
              /\ \/ sender[s].since # booking.moves
                 \/ booking.moves > 0 /\ log[sender[s].row].attempts > 1
           \/ /\ booking.status # "cancelled"
              /\ sender[s].row \in Reminders => hour >= booking.time - Notice
              /\ sender[s].row \in Marketing =>
                   customer = [consents |-> TRUE, confirmed |-> TRUE, unsubscribed |-> FALSE]]_vars

\* Once the move is confirmed by email, the customer's calendar shows the booking's
\* time, whatever order the emails arrived in (deliver.ts:246).
CalendarFileIsCurrent ==
    log["reschedule_confirmation"].status = "sent" /\ booking.status = "confirmed"
        => file.time = booking.time

\* Every email due is in the end sent, withdrawn or given up on, whatever crashed
\* or was refused on the way (communications.ts:14).
EveryMessageIsDecided ==
    []<>(\A t \in Templates : ~(log[t].status = "queued" /\ log[t].at <= hour))

(***************************************************************************)
(* The calendar.                                                           *)
(***************************************************************************)

\* While the coach leaves the calendar alone, a session still on has its event, at its
\* time, again and again: a move ends there through any outage or crash, and the sweep
\* that deletes the events of times given back never has this one (reschedule.ts:24, 296).
CalendarCatchesUp ==
    Here("coach") \/ []<>(\/ booking.status # "confirmed"
                          \/ calendar[booking.event] = [status |-> "live", time |-> booking.time])

\* No alarm about a session's event rests on a booking that changed while the
\* calendar was being read (calendar-watch.ts:103).
WatchMissesNoChange == TRUE \notin alarms

(***************************************************************************)
(* Disputes and fraud warnings.                                            *)
(***************************************************************************)

\* Once every event Stripe sent has been handled, the database says what Stripe says,
\* whatever the order they came in, however old the read that was stored last, and
\* though Stripe refused to be asked (disputes.ts:45).
DisputeKeepsUp ==
    sent \subseteq ledger /\ (\A h \in Handlers : Answered(h)) => dispute.status = claim

\* A dispute or a warning on record when the payment is, is on record of its order, and
\* no session goes ahead that the dispute stops: not after a settlement, a move or a new
\* time either.  All the sweep may have to put right is a booking the dispute came too
\* late for, once the calendar refuses its time (disputes.ts:223, payment-lock.ts:16).
NewsReachesTheOrder ==
    payment # "pending" =>
        /\ dispute.status # NoClaim => dispute.linked
        /\ warning.stored => warning.linked
        /\ Stops(dispute) => Here("calendar_refuses") /\ booking.status = "awaiting_schedule"

(***************************************************************************)
(* The desk.                                                               *)
(***************************************************************************)

GoneFromDesk == booking.status = "cancelled" \/ hour >= notice.at + DeskDecisionDays

\* A notice the customer is told is being reviewed stays before the desk until it is
\* declined, the payment is refunded in full, the booking is cancelled, or the days
\* are over: a part refund, or the session starting, does not take it away.  And a page
\* that answers that it is being reviewed says so while it waits there, or with the
\* booking cancelled or the days over (withdrawals.ts:282, withdraw/flow.ts:76).
WaitingNoticeStaysListed ==
    [][/\ WaitsForDesk(notice) /\ ~WaitsForDesk(notice)' =>
            notice'.declined \/ payment' = "refunded" \/ GoneFromDesk'
       /\ \A p \in Tabs :
            /\ form[p].step \notin {"kept", "reviewing"}
            /\ form'[p].step \in {"kept", "reviewing"}
            => WaitsForDesk(notice)' \/ GoneFromDesk']_vars

\* Every email to the desk has a reason of its own: the problem appeared, a day has passed
\* since the desk was last told, a run that was late closed or opened the problem's alert,
\* or a run died or heard that an email had failed.  No two runs tell of one alert, however they
\* overlap and however the problem comes and goes behind them (desk-alerts.ts:130, 236;
\* calendar-watch-step.ts:35 for the late run).
EveryAlertHasItsReason == \A x \in Subjects : told[x] <= reasons[x] + mishaps

\* A problem that lasts reaches the desk, on the alert that is open for it, though another's
\* email can never be written and a run sends only so many (desk-alerts.ts:197).
LastingProblemIsTold ==
    \A x \in Subjects \ Unwritable :
      x \in problem ~> x \notin problem \/ (alert[x].open /\ alert[x].sends > 0)

(***************************************************************************)
(* The sweep.                                                              *)
(***************************************************************************)

\* A row that waits for the sweep is in the end dealt with, though another step fails,
\* runs overlap or end early, and another row of the same step can never be: fewer than
\* a batch at a step that keeps its order, any number where the sweep asks Stripe about
\* an order, for there each takes its turn (reconciliation.ts:36, sweep-holds/route.ts:85).
WorkIsReached == \A w \in Work \ Stuck : WaitsForSweep(w) ~> ~WaitsForSweep(w)
=============================================================================
