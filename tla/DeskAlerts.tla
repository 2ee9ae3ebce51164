----------------------------- MODULE DeskAlerts ----------------------------
(***************************************************************************)
(* Telling the booking desk about a problem until it goes away: by email   *)
(* when it appears, again each day while it lasts, and closed quietly once *)
(* it is gone.                                                             *)
(*                                                                         *)
(* A run of reconcileDeskAlerts reads the problems, then the open alerts,  *)
(* closes those whose problem is gone, and works through the rest, a few a *)
(* run and the longest untried first: open, claim, write, send, record.    *)
(* Runs may overlap, and a problem may go and come back behind a run.      *)
(*                                                                         *)
(* Nothing ties the problems a run has read to the alerts it reads next:   *)
(* a run that is late may close an alert that is needed, or open one that  *)
(* is not, and the desk then hears of a problem a second time.  reasons    *)
(* counts that beside the appearances of a problem.                        *)
(*                                                                         *)
(* A row's instants are kept as what the code asks of them: told never,    *)
(* today or a day ago; tried never, just now or half an hour ago.  A world *)
(* names the runs at work in it and the subjects that may have a problem.  *)
(***************************************************************************)
EXTENDS CareTables, SequencesExt

CONSTANTS
    Subjects,           \* what a problem may be about
    Unwritable,         \* those whose email cannot be rendered
    Runs,               \* runs that may overlap
    SendsPerRun,        \* MAX_ALERT_SENDS_PER_RUN
    MaxReasons          \* for each subject, the reasons after which its problem does not come back

VARIABLES
    problem,    \* the subjects with a problem now
    alert,      \* each subject's latest row of desk_alerts
    tried,      \* the subjects tried, the longest ago first
    run,        \* what each run is doing
    told,       \* emails the desk got about the subject, less one a day for reminders
    reasons     \* its appearances, and what late runs did to its rows

deskVars == <<problem, alert, tried, run, told, reasons>>

NoAlert == [id |-> 0, open |-> FALSE, sent |-> "never", tried |-> "never",
            claimed |-> FALSE, sends |-> 0]

Opened(x) == [NoAlert EXCEPT !.id = alert[x].id + 1, !.open = TRUE]

\* The state of a run that is over.
NoRun == [step |-> "over"]

RunOver(r) == run[r] = NoRun

Subject(r) == Head(run[r].queue)
RowHeld(r) == alert[Subject(r)].id = run[r].id

NextSubject(r) ==
    LET rest == Tail(run[r].queue)
    IN  IF rest = <<>> THEN NoRun ELSE [run[r] EXCEPT !.step = "open", !.queue = rest, !.id = 0]

(***************************************************************************)
(* A run.                                                                  *)
(***************************************************************************)
ListProblems(r) ==
    /\ Here(r) /\ RunOver(r)
    /\ run' = [run EXCEPT ![r] = [step |-> "listed", problems |-> problem]]
    /\ UNCHANGED <<problem, alert, tried, told, reasons>>

\* dueNow, on the rows as they were read.
Due(a) == ~a.open \/ (~a.claimed /\ a.sent # "today" /\ a.tried # "just")

\* A version that takes them as they come.
AsListed(xs) == SelectSeq(SetToSeq(Subjects), LAMBDA x : x \in xs)

\* The longest untried first: no open alert or one never tried, then the oldest try.
Untried(x) == ~alert[x].open \/ alert[x].tried = "never"

InTurn(xs) ==
    SelectSeq(SetToSeq(Subjects), LAMBDA x : x \in xs /\ Untried(x))
        \o SelectSeq(tried, LAMBDA x : x \in xs /\ ~Untried(x))

\* listOpenAlerts, and the choice it leads to.
ListOpen(r) ==
    /\ ~RunOver(r) /\ run[r].step = "listed"
    /\ LET present == run[r].problems
           due     == InTurn({x \in present : Due(alert[x])})
           queue   == SubSeq(due, 1, IF Len(due) < SendsPerRun THEN Len(due) ELSE SendsPerRun)
       IN  run' = [run EXCEPT ![r] =
             [step |-> "closing", queue |-> queue, id |-> 0,
              open |-> [x \in Subjects |-> IF alert[x].open THEN alert[x].id ELSE 0],
              gone |-> {x \in Subjects \ present : alert[x].open}]]
    /\ UNCHANGED <<problem, alert, tried, told, reasons>>

\* What a run does to a subject's row is right now, or one more reason for an email.
ByLateRun(x, late) == reasons' = IF late THEN [reasons EXCEPT ![x] = @ + 1] ELSE reasons

CloseGone(r) ==
    /\ ~RunOver(r) /\ run[r].step = "closing"
    /\ IF run[r].gone = {}
       THEN /\ run' = [run EXCEPT ![r] = IF @.queue = <<>> THEN NoRun
                                                             ELSE [@ EXCEPT !.step = "open"]]
            /\ UNCHANGED <<alert, reasons>>
       ELSE \E x \in run[r].gone :
              LET found == alert[x].open /\ alert[x].id = run[r].open[x] IN
              /\ alert' = IF found
                          THEN [alert EXCEPT ![x].open = FALSE, ![x].claimed = FALSE] ELSE alert
              /\ ByLateRun(x, found /\ x \in problem)
              /\ run' = [run EXCEPT ![r].gone = @ \ {x}]
    /\ UNCHANGED <<problem, tried, told>>

\* openAlert, unless the run already read an open row: one open row a subject.
OpenAlert(r) ==
    /\ ~RunOver(r) /\ run[r].step = "open"
    /\ LET x == Subject(r)
           new == run[r].open[x] = 0 /\ ~alert[x].open
       IN  /\ alert' = IF new THEN [alert EXCEPT ![x] = Opened(x)] ELSE alert
           /\ ByLateRun(x, new /\ x \notin problem)
           /\ run' = [run EXCEPT ![r].step = "claim",
                         ![r].id = IF run[r].open[x] # 0 THEN run[r].open[x] ELSE alert'[x].id]
    /\ UNCHANGED <<problem, tried, told>>

\* A version that trusts the choice made on the rows as they were read.
MayClaimAsRead(a) == a.open

\* claimAlert: the row as it is now, not as it was read.
MayClaim(a) == a.open /\ ~a.claimed /\ a.sent # "today" /\ a.tried # "just"

ClaimAlert(r) ==
    /\ ~RunOver(r) /\ run[r].step = "claim"
    /\ LET x == Subject(r) IN
       IF RowHeld(r) /\ MayClaim(alert[x])
       THEN /\ alert' = [alert EXCEPT ![x].claimed = TRUE, ![x].tried = "just"]
            /\ tried' = Append(SelectSeq(tried, LAMBDA y : y # x), x)
            /\ run' = [run EXCEPT ![r].step = IF x \in Unwritable THEN "release" ELSE "send"]
       ELSE /\ run' = [run EXCEPT ![r] = NextSubject(r)]
            /\ UNCHANGED <<alert, tried>>
    /\ UNCHANGED <<problem, told, reasons>>

Arrives(r) == told' = [told EXCEPT ![Subject(r)] = @ + 1]

SendAlert(r) ==
    /\ ~RunOver(r) /\ run[r].step = "send"
    /\ Arrives(r)
    /\ run' = [run EXCEPT ![r].step = "record"]
    /\ UNCHANGED <<problem, alert, tried, reasons, mishaps>>

\* It went, and the answer says otherwise: the client asks again, or gives up.
AlertAnswerLost(r) ==
    /\ Here("lost_answer") /\ mishaps < MaxMishaps
    /\ ~RunOver(r) /\ run[r].step = "send"
    /\ mishaps' = mishaps + 1
    /\ Arrives(r)
    /\ \E step \in {"send", "release"} : run' = [run EXCEPT ![r].step = step]
    /\ UNCHANGED <<problem, alert, tried, reasons>>

AlertRefused(r) ==
    /\ Here("refusals") /\ mishaps < MaxMishaps
    /\ ~RunOver(r) /\ run[r].step = "send"
    /\ mishaps' = mishaps + 1
    /\ run' = [run EXCEPT ![r].step = "release"]
    /\ UNCHANGED <<problem, alert, tried, told, reasons>>

\* Could not be written, or was refused: given back, and tried in half an hour.
ReleaseAlert(r) ==
    /\ ~RunOver(r) /\ run[r].step = "release"
    /\ alert' = IF RowHeld(r) THEN [alert EXCEPT ![Subject(r)].claimed = FALSE] ELSE alert
    /\ run' = [run EXCEPT ![r] = NextSubject(r)]
    /\ UNCHANGED <<problem, tried, told, reasons>>

RecordAlert(r) ==
    /\ ~RunOver(r) /\ run[r].step = "record"
    /\ alert' = IF RowHeld(r)
                THEN [alert EXCEPT ![Subject(r)].claimed = FALSE, ![Subject(r)].sent = "today",
                                   ![Subject(r)].sends = 1]
                ELSE alert
    /\ run' = [run EXCEPT ![r] = NextSubject(r)]
    /\ UNCHANGED <<problem, tried, told, reasons>>

\* A run ends before its work does.
RunCrashes(r) ==
    /\ Here("crash") /\ mishaps < MaxMishaps /\ ~RunOver(r)
    /\ mishaps' = mishaps + 1
    /\ run' = [run EXCEPT ![r] = NoRun]
    /\ UNCHANGED <<problem, alert, tried, told, reasons>>

(***************************************************************************)
(* The world: problems come and go, and time passes over each open row,    *)
(* the only ones the code looks at.  A claim outlives the send it was      *)
(* taken for.                                                              *)
(***************************************************************************)
ProblemAppears(x) ==
    /\ Here(x) /\ x \notin problem /\ reasons[x] < MaxReasons[x]
    /\ problem' = problem \cup {x}
    /\ reasons' = [reasons EXCEPT ![x] = @ + 1]
    /\ UNCHANGED <<alert, tried, run, told>>

ProblemGoes(x) ==
    /\ x \in problem
    /\ problem' = problem \ {x}
    /\ UNCHANGED <<alert, tried, run, told, reasons>>

BeingSent(x) ==
    \E r \in Runs : ~RunOver(r) /\ run[r].step \in {"send", "release", "record"} /\ Subject(r) = x

HalfAnHour(x) ==
    /\ alert[x].open /\ alert[x].tried = "just" /\ ~BeingSent(x)
    /\ alert' = [alert EXCEPT ![x].tried = "half_hour_ago", ![x].claimed = FALSE]
    /\ UNCHANGED <<problem, tried, run, told, reasons>>

\* The desk is owed a reminder.
ADay(x) ==
    /\ alert[x].open /\ alert[x].sent = "today" /\ alert[x].tried = "half_hour_ago"
    /\ alert' = [alert EXCEPT ![x].sent = "day_ago"]
    /\ told' = [told EXCEPT ![x] = @ - 1]
    /\ UNCHANGED <<problem, tried, run, reasons>>

DeskInit ==
    /\ problem = {} /\ alert = [x \in Subjects |-> NoAlert] /\ tried = <<>>
    /\ run = [r \in Runs |-> NoRun] /\ told = [x \in Subjects |-> 0]
    /\ reasons = [x \in Subjects |-> 0]

RunStep(r) ==
    \/ ListProblems(r) \/ ListOpen(r) \/ CloseGone(r) \/ OpenAlert(r) \/ ClaimAlert(r)
    \/ ReleaseAlert(r) \/ RecordAlert(r)
=============================================================================
