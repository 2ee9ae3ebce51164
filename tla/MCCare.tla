------------------------------- MODULE MCCare ------------------------------
EXTENDS CustomerCare

\* The worlds of the run: each names who is at work in it, what may go wrong, and
\* the emails, runs and subjects it follows.  A world without a clock stays at
\* its first hour: what it is there for does not depend on the hour.
MailFaults == {"mail", "sender_1", "sender_2", "lost_answer", "crash",
               "booking_confirmation", "follow_up"}
GraphFails == {"mail", "sender_1", "sender_2", "lost_answer", "refusals",
               "booking_confirmation"}
Offers == {"mail", "sender_1", "sender_2", "lost_answer", "consent",
           "booking_confirmation", "next_session_nudge_1"}
OthersForm == {"mail", "sender_1", "forms", "booking_confirmation",
               "next_session_nudge_1"}
MovedReminder == {"mail", "sender_1", "moves", "disputes", "crash", "reminder_24h"}
RefusedReminder == {"mail", "sender_1", "moves", "refusals", "reminder_24h"}
MovedFile == {"mail", "sender_1", "sender_2", "moves", "booking_confirmation",
              "reschedule_confirmation"}
MovedEvent == {"moves", "calendar_down", "refunds", "crash", "strangers"}
WatchedEvent == {"moves", "watch", "coach", "no clock"}
NewTime == {"mail", "sender_1", "moves", "waiting", "choose_new_time",
            "calendar_refuses", "links_expire"}
KeptNotice == {"withdrawals", "refunds", "disputes", "tab_1", "tab_2"}
Acknowledged == {"mail", "sender_1", "sender_2", "withdrawals", "tab_1", "tab_2",
                 "no clock", "crash", "withdrawal_acknowledgement"}
ToldOfRefund == {"mail", "sender_1", "sender_2", "refunds", "disputes", "crash",
                 "cancellation_confirmation"}
LateNews == {"payment_events", "unsettled", "stolen_card", "no clock", "crash",
             "needs_response", "lost", "warned"}
DisputedMove == {"payment_events", "stolen_card", "moves", "needs_response", "warned"}
RefusedTime == {"payment_events", "waiting", "moves", "calendar_refuses", "stolen_card",
                "needs_response"}
LongDispute == {"payment_events", "no clock",
                "warning_needs_response", "warning_under_review", "needs_response", "under_review",
                "warning_closed", "won", "lost", "prevented"}
WarnedTwice == {"payment_events", "unsettled", "warned", "warned_again"}
OverlappingRuns == {"alerts", "no clock", "run_1", "run_2", "alert_2"}
BrokenRun == {"alerts", "no clock", "crash", "refusals", "lost_answer", "run_1", "alert_2"}
StarvedAlert == {"alerts", "no clock", "run_1", "alert_1", "alert_2"}

UnansweredBooking == {"sweeps", "no clock", "sweep_1",
                      "booking_1", "booking_2", "event_1", "event_2"}
UnansweredOrder == {"sweeps", "no clock", "sweep_1", "order_1", "order_2"}
OverlappingSweeps == {"sweeps", "no clock", "sweep_1", "sweep_2", "order_2"}

StepFor == [w \in Work |-> CASE w \in {"booking_1", "booking_2"} -> "confirmations"
                              [] w \in {"event_1", "event_2"}     -> "releases"
                              [] OTHER                            -> "reconciliation"]
Batches == [step \in Batched |-> IF step = "reconciliation" THEN 1 ELSE 2]

\* What is never told needs no second reason.
ReasonsFor == [x \in Subjects |-> IF x \in Unwritable THEN 1 ELSE 2]

SmallWorlds == {MailFaults, GraphFails, Offers, OthersForm, MovedReminder, RefusedReminder, MovedFile,
                MovedEvent, WatchedEvent, NewTime, KeptNotice, Acknowledged,
                ToldOfRefund, LateNews, DisputedMove, RefusedTime, LongDispute, WarnedTwice,
                OverlappingRuns, BrokenRun, StarvedAlert, UnansweredBooking,
                UnansweredOrder, OverlappingSweeps}
=============================================================================
