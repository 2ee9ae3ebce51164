----------------------------- MODULE SweepRuns -----------------------------
(***************************************************************************)
(* The five-minute sweep, run by run: its steps in their order, which of   *)
(* them answer for their own failures, and the batch a step takes of what  *)
(* waits for it.  What each step does to its rows is BookingSystem's,      *)
(* Refunds' and this project's other modules'; here it is whether a run,   *)
(* or one row that always fails, can keep another row from being reached.  *)
(*                                                                         *)
(* Two runs may overlap.  A world names the runs at work and the work that *)
(* may appear in it.                                                       *)
(***************************************************************************)
EXTENDS CareTables, SequencesExt

CONSTANTS
    Work,       \* the rows the steps work through
    StepOf,     \* the step that works through each
    Stuck,      \* rows the calendar, or Stripe, will always refuse
    Batch,      \* how many rows a run takes at each such step
    Sweeps,     \* runs that may overlap
    NoSweep,    \* the state of a run that is over
    NotRead     \* a step has not read its rows yet

VARIABLES
    backlog,    \* at each step, the rows waiting, in the order they are read
    appeared,   \* rows that have ever waited
    asked,      \* orders with a reconcile_checked_at
    sweep,      \* what each run is doing
    monitor     \* what the outside monitor was told last

sweepVars == <<backlog, appeared, asked, sweep, monitor>>

\* What a run does, in order.
Steps ==
    <<"expiry", "paid_without_time", "schema", "releases", "confirmations", "moves",
      "calendar_watch", "refunds", "refunds_list", "refund_alerts", "choose_time_emails",
      "paid_booking_alerts", "reconciliation", "abandoned_checkouts", "disputes",
      "fraud_warnings", "withdrawal_decisions", "protection", "retention", "check_in">>

Batched == {"releases", "confirmations", "moves", "reconciliation"}

ASSUME SweepAssumption == StepOf \in [Work -> Batched] /\ Batch \in [Batched -> Nat]

\* Steps in a failure domain of their own: whatever fails in one, the run goes on.
OwnFailure ==
    {"calendar_watch", "refunds", "refund_alerts", "choose_time_emails", "reconciliation",
     "abandoned_checkouts", "disputes", "fraud_warnings", "withdrawal_decisions", "protection",
     "retention"}

SweepOver(s) == sweep[s] = NoSweep
At(s) == Steps[sweep[s].at]
AtStep(s, step) == ~SweepOver(s) /\ At(s) = step

GoesOn(s) == sweep' = [sweep EXCEPT ![s] = [at |-> @.at + 1, rows |-> NotRead]]

\* The job's caller is let in.
BeginSweep(s) ==
    /\ Here(s) /\ SweepOver(s)
    /\ sweep' = [sweep EXCEPT ![s] = [at |-> 1, rows |-> NotRead]]
    /\ UNCHANGED <<backlog, appeared, asked, monitor, mishaps>>

(***************************************************************************)
(* A step with rows: the first of them are read in one transaction, and    *)
(* each is tried in its own failure domain.                                *)
(***************************************************************************)
FirstOf(step) ==
    SubSeq(backlog[step], 1,
           IF Len(backlog[step]) < Batch[step] THEN Len(backlog[step]) ELSE Batch[step])

ReadRows(s) ==
    /\ ~SweepOver(s) /\ At(s) \in Batched /\ sweep[s].rows = NotRead
    /\ sweep' = [sweep EXCEPT ![s].rows = FirstOf(At(s))]
    /\ UNCHANGED <<backlog, appeared, asked, monitor, mishaps>>

Trying(s, w) ==
    /\ ~SweepOver(s) /\ sweep[s].rows \notin {NotRead, <<>>}
    /\ w = Head(sweep[s].rows)

TriesTheNext(s) == sweep' = [sweep EXCEPT ![s].rows = Tail(@)]

\* Its event deleted, its booking confirmed, its event moved, its checkout settled
\* or released; or found already so.
RowDone(s, w) ==
    /\ Trying(s, w) /\ w \notin Stuck
    /\ backlog' = [backlog EXCEPT ![At(s)] = RemoveFirst(@, w)]
    /\ TriesTheNext(s)
    /\ UNCHANGED <<appeared, asked, monitor, mishaps>>

\* A version that asks about the oldest order first.
KeepsItsPlace(step, w) == backlog

\* markChecked: an order that never settles takes its turn and steps aside.  A row of
\* the other steps keeps the place its time gives it.
StepsAside(step, w) ==
    IF step = "reconciliation" /\ w \in Range(backlog[step])
    THEN [backlog EXCEPT ![step] = Append(RemoveFirst(@, w), w)] ELSE backlog

\* The calendar or Stripe refuses, cannot be reached, or says the checkout is not paid.
RowFails(s, w) ==
    /\ Trying(s, w)
    /\ \/ w \in Stuck /\ UNCHANGED mishaps
       \/ w \notin Stuck /\ mishaps < MaxMishaps /\ mishaps' = mishaps + 1
    /\ backlog' = StepsAside(At(s), w)
    /\ asked' = IF At(s) = "reconciliation" THEN asked \cup {w} ELSE asked
    /\ TriesTheNext(s)
    /\ UNCHANGED <<appeared, monitor>>

(***************************************************************************)
(* A run.                                                                  *)
(***************************************************************************)
StepDone(s) ==
    /\ ~SweepOver(s) /\ At(s) # "check_in"
    /\ At(s) \in Batched => sweep[s].rows = <<>>
    /\ GoesOn(s)
    /\ UNCHANGED <<backlog, appeared, asked, monitor, mishaps>>

\* A failure inside a step's own domain: reported, and the run goes on.
StepFails(s) ==
    /\ ~SweepOver(s) /\ At(s) \in OwnFailure
    /\ mishaps < MaxMishaps /\ mishaps' = mishaps + 1
    /\ GoesOn(s)
    /\ UNCHANGED <<backlog, appeared, asked, monitor>>

\* calendarOrNull: without a calendar the rows it would have tried wait.
CalendarMissing(s) ==
    /\ ~SweepOver(s) /\ At(s) \in {"releases", "confirmations", "moves"}
    /\ sweep[s].rows \notin {NotRead, <<>>}
    /\ mishaps < MaxMishaps /\ mishaps' = mishaps + 1
    /\ GoesOn(s)
    /\ UNCHANGED <<backlog, appeared, asked, monitor>>

\* Any other failure ends the run, which must look failed: the monitor hears of it.
SweepFails(s) ==
    /\ ~SweepOver(s) /\ At(s) \notin OwnFailure \cup {"check_in"}
    /\ At(s) \in Batched => sweep[s].rows = NotRead
    /\ mishaps < MaxMishaps /\ mishaps' = mishaps + 1
    /\ monitor' = "sweep_failed"
    /\ sweep' = [sweep EXCEPT ![s] = NoSweep]
    /\ UNCHANGED <<backlog, appeared, asked>>

\* heartbeatStep: a check that cannot run is itself reported.
CheckIn(s) ==
    /\ AtStep(s, "check_in")
    /\ \/ monitor' = "well" /\ UNCHANGED mishaps
       \/ mishaps < MaxMishaps /\ mishaps' = mishaps + 1 /\ monitor' = "health_check_failed"
    /\ sweep' = [sweep EXCEPT ![s] = NoSweep]
    /\ UNCHANGED <<backlog, appeared, asked>>

\* A row comes to wait where its time puts it; an order never asked about comes
\* before those that were.
Placed(step, w) ==
    LET rows    == backlog[step]
        unasked == {i \in DOMAIN rows : rows[i] \notin asked}
    IN  IF step = "reconciliation" THEN {InsertAt(rows, Cardinality(unasked) + 1, w)}
        ELSE IF step = "releases" THEN {InsertAt(rows, i, w) : i \in 1 .. Len(rows) + 1}
        ELSE {Append(rows, w)}

WorkAppears(w) ==
    /\ Here(w) /\ w \notin appeared
    /\ \E rows \in Placed(StepOf[w], w) : backlog' = [backlog EXCEPT ![StepOf[w]] = rows]
    /\ appeared' = appeared \cup {w}
    /\ UNCHANGED <<asked, sweep, monitor, mishaps>>

SweepInit ==
    /\ backlog = [step \in Batched |-> <<>>]
    /\ appeared = {} /\ asked = {}
    /\ sweep = [s \in Sweeps |-> NoSweep]
    /\ monitor = "well"

SweepStep(s) ==
    \/ BeginSweep(s) \/ ReadRows(s) \/ (\E w \in Work : RowDone(s, w) \/ RowFails(s, w))
    \/ StepDone(s) \/ CheckIn(s)

SweepMishap(s) == StepFails(s) \/ CalendarMissing(s) \/ SweepFails(s)

WaitsForSweep(w) == w \in Range(backlog[StepOf[w]])

SweepTypeOK ==
    /\ asked \subseteq appeared /\ appeared \subseteq Work
    /\ \A step \in Batched : /\ Range(backlog[step]) \subseteq {w \in appeared : StepOf[w] = step}
                             /\ IsInjective(backlog[step])
    /\ \A s \in Sweeps : SweepOver(s) \/ (sweep[s].rows \notin {NotRead, <<>>} => At(s) \in Batched)
=============================================================================
