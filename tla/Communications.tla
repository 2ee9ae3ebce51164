--------------------------- MODULE Communications --------------------------
(***************************************************************************)
(* The queue of emails owed to a customer, and the processes that empty    *)
(* it: the five-minute job, one run of which may overlap the next, and the *)
(* withdrawal form, which sends its acknowledgement straight away.         *)
(*                                                                         *)
(* A sender claims a row in one transaction, reads what the email is about *)
(* in others, hands it to the email service, and records what happened in  *)
(* a last one.  The row stays queued all the while: only its lease keeps   *)
(* other senders off it, and the email service does not dedupe.            *)
(***************************************************************************)
EXTENDS MicrosoftGraph

CONSTANTS
    Senders,            \* processes that may be sending at once
    MaxSendAttempts

VARIABLES
    sender,     \* what each process is doing
    inbox,      \* how often the customer got each email, since it was last queued
    untold,     \* how often an email went and nobody was there to hear it had
    file,       \* the calendar file in the customer's calendar: a number and a time
    linkDead    \* the link last sent has run out, or the time was lost since the last try

mailVars == <<sender, inbox, untold, file, linkDead, links, token>>

\* The state of a process that is sending nothing.
NoSender == [step |-> "idle"]

Idle(s) == sender[s] = NoSender
Working(t) == \E s \in Senders : ~Idle(s) /\ sender[s].row = t

\* What loadCommunicationContext returns of the booking, as far as it is used.
Context == [status |-> booking.status, time |-> booking.time, moves |-> booking.moves,
            customer |-> customer]

\* A version that trusts the row's status to keep others off it.
ClaimableUnleased(t) == log[t].status = "queued" /\ log[t].at <= hour

\* A version that takes only rows nobody has tried.
ClaimableOnce(t) == log[t].status = "queued" /\ log[t].at <= hour /\ log[t].attempts = 0

\* CLAIMABLE
Claimable(t) == log[t].status = "queued" /\ log[t].at <= hour /\ ~log[t].leased

Take(s, t) ==
    /\ Here(s) /\ Idle(s) /\ Claimable(t)
    /\ log' = [log EXCEPT ![t].attempts = @ + 1, ![t].leased = TRUE]
    /\ sender' = [sender EXCEPT ![s] =
          [step |-> "claimed", row |-> t, since |-> booking.moves, about |-> Context,
           call |-> FirstRound]]
    /\ linkDead' = (linkDead /\ t # "choose_new_time")
    /\ UNCHANGED <<inbox, untold, file, links, token>>

\* claimDueCommunications, one row: the one due longest.
Claim(s) ==
    \E t \in Templates :
      /\ \A u \in Templates : Claimable(u) => log[t].at <= log[u].at
      /\ Take(s, t)

(***************************************************************************)
(* deliver: may this email still go?  "withdraw" is the ordinary end of an *)
(* email no longer true, "fail" leaves it for a person.  The link secrets  *)
(* are set, the session is in the catalogue and has one after it, and the  *)
(* notice an acknowledgement is about is on record: its row was queued     *)
(* with it.                                                                *)
(***************************************************************************)
PrepareSessionEmail == IF booking.time = None THEN "fail" ELSE "send"

PrepareCancellationConfirmation == IF booking.status # "cancelled" THEN "fail" ELSE "send"

PrepareChooseNewTime ==
    IF booking.status = "awaiting_schedule" /\ payment = "paid" /\ ~disputed
    THEN "send" ELSE "withdraw"

Prepare(t) ==
    CASE t \in Marketing                    -> "asking"
      [] t = "withdrawal_acknowledgement"   -> "send"
      [] t = "cancellation_confirmation"    -> PrepareCancellationConfirmation
      [] t = "choose_new_time"              -> PrepareChooseNewTime
      [] OTHER                              -> PrepareSessionEmail

Refusing(t) == t \in Marketing /\ ~DecideSend(customer)

\* A version that leaves the cancelled booking to whoever cancelled it.
VerdictUnchecked(t) == IF Refusing(t) THEN "withdraw" ELSE Prepare(t)

Verdict(t) ==
    IF Refusing(t) \/ (booking.status = "cancelled" /\ t \notin AboutWithdrawal)
    THEN "withdraw" ELSE Prepare(t)

\* loadCommunicationContext and the decision on it.  An email about the next
\* session asks once more, in a transaction of its own.
Load(s) ==
    /\ ~Idle(s) /\ sender[s].step = "claimed"
    /\ sender' = [sender EXCEPT ![s].step = Verdict(sender[s].row), ![s].about = Context]
    /\ UNCHANGED <<log, inbox, untold, file, linkDead, links, token>>

\* prepareNextSession: customerHasBookedAny.
AskWhetherAhead(s) ==
    /\ ~Idle(s) /\ sender[s].step = "asking"
    /\ sender' = [sender EXCEPT ![s].step = IF another = "further" THEN "withdraw" ELSE "send"]
    /\ UNCHANGED <<log, inbox, untold, file, linkDead, links, token>>

\* The customer's calendar keeps the file with the highest sequence number,
\* and the number is the move count.
Shown(s) == [sequence |-> sender[s].about.moves, time |-> sender[s].about.time]
CarriesFile(t) == t \in {"booking_confirmation", "reschedule_confirmation"}
\* A version whose files all carry the same number: the latest to arrive stays.
NewerAny(f) == TRUE

Newer(f) == f.sequence >= file.sequence

Reaches(s) ==
    LET t == sender[s].row IN
    /\ inbox' = [inbox EXCEPT ![t] = @ + 1]
    /\ file' = IF CarriesFile(t) /\ Newer(Shown(s)) THEN Shown(s) ELSE file
    /\ links' = links \cup LinksIn(t, sender[s].about.customer)

\* GraphEmailProvider.send, one round of its request.  An error thrown and a refusal
\* both come back as an answer.
Goes(s, to) == sender' = [sender EXCEPT ![s].step = to.step, ![s].call = to.call]

Accepted(s) ==
    /\ Reaches(s)
    /\ Goes(s, Ends("accepted")) /\ token' = TRUE
    /\ UNCHANGED <<log, untold, mishaps, linkDead>>

Refused(s) ==
    /\ Here("refusals")
    /\ \E f \in Failures(sender[s].call) : Goes(s, f.to) /\ token' = f.token
    /\ UNCHANGED <<log, inbox, untold, file, links, mishaps, linkDead>>

AnswerLost(s) ==
    /\ Here("lost_answer") /\ mishaps < MaxMishaps
    /\ mishaps' = mishaps + 1
    /\ Reaches(s)
    /\ untold' = [untold EXCEPT ![sender[s].row] = @ + 1]
    /\ \E to \in LostAnswers(sender[s].call) : Goes(s, to)
    /\ token' = TRUE
    /\ UNCHANGED <<log, linkDead>>

Send(s) ==
    /\ ~Idle(s) /\ sender[s].step = "send"
    /\ Accepted(s) \/ Refused(s) \/ AnswerLost(s)

\* nextAttemptAt: never again after the last attempt.  The backoff is minutes.
MayRetry(t) == log[t].attempts < MaxSendAttempts

\* markCommunicationSent, -Failed, -Cancelled and requeueCommunication: by id,
\* whatever the row says by then.
Outcome(step, t) ==
    CASE step = "accepted"                -> [log[t] EXCEPT !.status = "sent"]
      [] step = "withdraw"                -> [log[t] EXCEPT !.status = "cancelled"]
      [] step = "retry" /\ MayRetry(t)    -> [log[t] EXCEPT !.at = hour]
      [] OTHER                            -> [log[t] EXCEPT !.status = "failed"]

RecordSending(s) ==
    /\ ~Idle(s) /\ sender[s].step \in {"accepted", "withdraw", "fail", "retry"}
    /\ LET t == sender[s].row IN log' = [log EXCEPT ![t] = Outcome(sender[s].step, t)]
    /\ sender' = [sender EXCEPT ![s] = NoSender]
    /\ UNCHANGED <<inbox, untold, file, linkDead, links, token>>

\* The process ends.  What it had sent, nobody recorded.
SenderCrashes(s) ==
    /\ Here("crash") /\ mishaps < MaxMishaps
    /\ ~Idle(s)
    /\ mishaps' = mishaps + 1
    /\ untold' = IF sender[s].step = "accepted"
                 THEN [untold EXCEPT ![sender[s].row] = @ + 1] ELSE untold
    /\ sender' = [sender EXCEPT ![s] = NoSender]
    /\ UNCHANGED <<log, inbox, file, linkDead, links, token>>

\* Ten minutes pass.  The slowest send takes half of that, so a lease outlives
\* the send it was taken for.
LeaseEnds(t) ==
    /\ log[t].status = "queued" /\ log[t].leased /\ ~Working(t)
    /\ log' = [log EXCEPT ![t].leased = FALSE]
    /\ UNCHANGED mailVars

(***************************************************************************)
(* queueChooseNewTime: a paid booking with no time is offered one.  The    *)
(* row is queued afresh when the time was lost again after the last try,   *)
(* or when the link that was sent has run out.                             *)
(***************************************************************************)
QueueChooseNewTime ==
    LET t == "choose_new_time" IN
    /\ Here(t)
    /\ booking.status = "awaiting_schedule" /\ payment = "paid" /\ ~disputed
    /\ log[t].status = "none" \/ (log[t].status # "queued" /\ linkDead)
    /\ log' = [log EXCEPT ![t] = [Queued(hour) EXCEPT !.leased = log[t].leased]]
    /\ inbox' = [inbox EXCEPT ![t] = 0]
    /\ untold' = [untold EXCEPT ![t] = 0]
    /\ linkDead' = FALSE
    /\ UNCHANGED <<sender, file, links, token>>

\* CHOOSE_TIME_LINK_DAYS after the email went.
LinkRunsOut ==
    /\ Here("links_expire")
    /\ log["choose_new_time"].status = "sent" /\ ~linkDead
    /\ linkDead' = TRUE
    /\ UNCHANGED <<log, sender, inbox, untold, file, links, token>>

MailInit ==
    /\ sender = [s \in Senders |-> NoSender]
    /\ inbox = [t \in Templates |-> 0] /\ untold = [t \in Templates |-> 0]
    /\ file = [sequence |-> 0, time |-> booking.time]
    /\ linkDead = FALSE
    /\ CustomersInit /\ GraphInit

SenderStep(s) ==
    \/ Claim(s) /\ UNCHANGED mishaps
    \/ Load(s) /\ UNCHANGED mishaps
    \/ AskWhetherAhead(s) /\ UNCHANGED mishaps
    \/ Send(s)
    \/ RecordSending(s) /\ UNCHANGED mishaps
=============================================================================
