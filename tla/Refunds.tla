------------------------------ MODULE Refunds ------------------------------
(***************************************************************************)
(* The money going back on one order: the rows of refunds, the sweep runs  *)
(* that ask Stripe for what is owed, Stripe's events about it, and the     *)
(* refunds made by a person in Stripe's dashboard.                         *)
(*                                                                         *)
(* Every transaction here locks the order's row, so each is one step.  The *)
(* request to Stripe, its answer and the recording of the answer are steps *)
(* of their own: a run holds no lock while it waits.                       *)
(*                                                                         *)
(* The order has one booking, and each refund of ours is for all of it.    *)
(***************************************************************************)
EXTENDS Integers, FiniteSets, FiniteSetsExt, Functions

CONSTANTS
    Rows,         \* ids of rows of refunds, taken lowest first
    StripeIds,    \* ids Stripe gives its refunds, taken lowest first
    Runs,         \* overlapping runs of the sweep
    Gross,        \* the order's gross_amount_fils
    MaxAttempts,  \* MAX_REFUND_ATTEMPTS
    MaxNow,       \* bound on the clock
    World,        \* what may go wrong in this instance
    None

ASSUME RefundPools == Rows \subseteq Nat /\ StripeIds \subseteq Nat /\ None \notin Nat
ASSUME RefundAmounts == Gross \in Nat \ {0} /\ MaxAttempts \in Nat \ {0} /\ MaxNow \in Nat

VARIABLES
    order,      \* payment_status
    session,    \* when the order's one session is, or that it was cancelled
    disputed,   \* a row of payment_disputes names the order
    warned,     \* the fraud warning's outcome, None before it came
    row,        \* refunds
    held,       \* held_refund_events
    handled,    \* ids of events recorded in stripe_webhook_events
    settling,   \* the settlement's transaction: "before", "open" or "done"
    taken,      \* what that transaction found held
    holding,    \* an event whose transaction found no order, not yet committed
    run,        \* the runs of the sweep
    reading,    \* the refund being read again
    now,        \* the clock, in seconds
    money,      \* Stripe's refunds
    wire,       \* requests Stripe has yet to act on, by idempotency key
    answers,    \* what Stripe has answered, and keeps, per key
    old,        \* keys first used more than KEY_WINDOW_MINUTES ago
    sent        \* events Stripe has to deliver

ours == <<order, session, disputed, warned, row, held, handled, settling, taken, holding>>
sweep == <<run, reading>>
stripe == <<money, wire, answers, old, sent>>
vars == <<ours, sweep, stripe, now>>

RowStatus == {"none", "due", "issuing", "pending", "succeeded", "failed", "canceled", "superseded"}
RefundStatus == {"pending", "succeeded", "failed", "canceled"}
Final == {"succeeded", "failed", "canceled"}
Origin == {"none", "withdrawal", "fraud_warning", "processor"}

\* A moment is twice the second, plus one for a reading of our own clock: it
\* lies inside a second, while Stripe's events carry the second alone.
Moments == 0 .. 2 * MaxNow + 1
EventMoment == 2 * now
OwnMoment == 2 * now + 1

Keys == Rows \X Nat
Events == [refund: StripeIds, status: RefundStatus, at: Moments]
Word == [status : RefundStatus, at : Moments]
ASSUME NullIsNothing == None \notin Word

NoRow == [status |-> "none", origin |-> "none", amount |-> 0, refund |-> None, attempts |-> 0,
          seq |-> 0, used |-> FALSE, lapsed |-> FALSE, waiting |-> FALSE, at |-> None]
NoRefund == [status |-> "none", made |-> "none", row |-> None, amount |-> 0, at |-> 0,
             went |-> FALSE]
Idle == [pc |-> "idle", row |-> None, seq |-> 0, attempts |-> 0, order |-> "paid",
         says |-> "nothing", refund |-> None]

Init ==
    /\ order = "pending" /\ session = "later" /\ disputed = FALSE /\ warned = None
    /\ row = [r \in Rows |-> NoRow]
    /\ held = [f \in StripeIds |-> None]
    /\ handled = {} /\ settling = "before" /\ taken = held /\ holding = None
    /\ run = [w \in Runs |-> Idle]
    /\ reading = None
    /\ now = 0
    /\ money = [f \in StripeIds |-> NoRefund]
    /\ wire = {} /\ answers = {} /\ old = {} /\ sent = {}

-----------------------------------------------------------------------------
(* What the rows add up to, and what that does to the order. *)

Total(S, amount(_)) == MapThenSumSet(amount, S)
Succeeded(rows) ==
    LET Amount(r) == rows[r].amount
    IN  Total({r \in Rows : rows[r].status = "succeeded"}, Amount)

\* recomputeOrderRefunds, through the transition table.
Recomputed(rows) ==
    CASE Succeeded(rows) >= Gross /\ order \in {"paid", "partially_refunded"} -> "refunded"
      [] Succeeded(rows) \in 1 .. Gross - 1 /\ order = "paid" -> "partially_refunded"
      [] OTHER -> order

\* The rows, the order they add up to, and the session a full refund cancels.
Save(rows) ==
    /\ row' = rows
    /\ order' = Recomputed(rows)
    /\ session' = IF order' = "refunded" /\ order # "refunded" /\ session \in {"later", "soon"}
                  THEN "cancelled" ELSE session

-----------------------------------------------------------------------------
(* A refund is owed. *)

FreshRow(r) == row[r].status = "none" /\ \A q \in Rows : q < r => row[q].status # "none"

Due(origin) == [NoRow EXCEPT !.status = "due", !.origin = origin, !.amount = Gross]

\* Mutation: a notice is taken for an order not yet paid.
WithdrawUnpaid ==
    /\ session \in {"later", "soon"}
    /\ session' = "cancelled"
    /\ \E r \in Rows : FreshRow(r) /\ row' = [row EXCEPT ![r] = Due("withdrawal")]
    /\ UNCHANGED <<order, disputed, warned, held, handled, settling, taken, holding, sweep,
                   stripe, now>>

\* recordWithdrawal on the automatic route, createWithdrawalRefund.  The form
\* sends every new notice to the desk; the code still takes this route.
Withdraw ==
    /\ order = "paid" /\ session \in {"later", "soon"}
    /\ session' = "cancelled"
    /\ \E r \in Rows : FreshRow(r) /\ row' = [row EXCEPT ![r] = Due("withdrawal")]
    /\ UNCHANGED <<order, disputed, warned, held, handled, settling, taken, holding, sweep,
                   stripe, now>>

OnItsWay == \E r \in Rows : row[r].status \in {"due", "issuing", "pending", "succeeded"}

\* Mutation: money already on its way back is not looked at, nor the sessions.
RefundableUnasked == order = "paid"

\* decide: paid, nothing on its way back, no dispute, the session still far.
Refundable == order = "paid" /\ ~OnItsWay /\ ~disputed /\ session = "later"

\* recordFraudWarning on an order that has the payment.
FraudWarning ==
    /\ warned = None /\ settling = "done"
    /\ \E actionable \in BOOLEAN :
         IF actionable /\ Refundable
         THEN /\ warned' = "refund_queued"
              /\ session' = "cancelled"
              /\ \E r \in Rows : FreshRow(r) /\ row' = [row EXCEPT ![r] = Due("fraud_warning")]
         ELSE warned' = "desk_decides" /\ UNCHANGED <<session, row>>
    /\ UNCHANGED <<order, disputed, held, handled, settling, taken, holding, sweep, stripe, now>>

\* recordDispute and applyDisputeEffects: which disputes cancel is their own policy.
Dispute ==
    /\ ~disputed /\ settling = "done"
    /\ disputed' = TRUE
    /\ session' \in IF session \in {"later", "soon"} THEN {session, "cancelled"} ELSE {session}
    /\ UNCHANGED <<order, warned, row, held, handled, settling, taken, holding, sweep, stripe, now>>

-----------------------------------------------------------------------------
(* A run of the sweep: claim, ask, record, each on its own. *)

KeyOf(w) == <<run[w].row, run[w].seq>>

\* Mutation: the claim of a run that died is never taken over.
ClaimableDue(r) == row[r].status = "due" /\ ~row[r].waiting

Claimable(r) ==
    \/ row[r].status = "due" /\ ~row[r].waiting
    \/ row[r].status = "issuing" /\ row[r].lapsed

\* claimDueRefunds: the attempt is counted before anything is sent.
Claim(w, r) ==
    /\ run[w].pc = "idle" /\ Claimable(r)
    /\ row' = [row EXCEPT ![r].status = "issuing", ![r].lapsed = FALSE, ![r].waiting = FALSE,
                          ![r].attempts = @ + 1, ![r].used = TRUE]
    /\ run' = [run EXCEPT ![w] = [Idle EXCEPT !.pc = "claimed", !.row = r, !.seq = row[r].seq,
                                    !.attempts = row[r].attempts + 1, !.order = order]]
    /\ UNCHANGED <<order, session, disputed, warned, held, handled, settling, taken, holding,
                   reading, stripe, now>>

\* Mutation: a key is sent again however old it is.
KeyWindowNeverPasses(w) == FALSE

KeyWindowPassed(w) == KeyOf(w) \in old

\* issueOne, before anything is sent: what the claim read of the order decides.
Ask(w) ==
    /\ run[w].pc = "claimed" /\ run[w].order = "paid" /\ ~KeyWindowPassed(w)
    /\ run' = [run EXCEPT ![w].pc = "asking"]
    /\ wire' = IF \E a \in answers : a.key = KeyOf(w) THEN wire ELSE wire \union {KeyOf(w)}
    /\ UNCHANGED <<ours, reading, money, answers, old, sent, now>>

\* closeRefund: only while the row is still somebody's claim.
Close(w, status) ==
    /\ row' = IF row[run[w].row].status = "issuing"
              THEN [row EXCEPT ![run[w].row].status = status, ![run[w].row].lapsed = FALSE]
              ELSE row
    /\ run' = [run EXCEPT ![w] = Idle]
    /\ UNCHANGED <<order, session>>

\* Mutation: an order refunded in part is taken for one refunded.
DontAskAny(w) ==
    /\ run[w].pc = "claimed" /\ (run[w].order # "paid" \/ KeyWindowPassed(w))
    /\ Close(w, IF run[w].order # "paid" THEN "superseded" ELSE "failed")
    /\ UNCHANGED <<disputed, warned, held, handled, settling, taken, holding, reading, stripe, now>>

DontAsk(w) ==
    /\ run[w].pc = "claimed" /\ (run[w].order # "paid" \/ KeyWindowPassed(w))
    /\ Close(w, IF run[w].order = "refunded" THEN "superseded" ELSE "failed")
    /\ UNCHANGED <<disputed, warned, held, handled, settling, taken, holding, reading, stripe, now>>

\* The answer Stripe gave this key, the first time or now.
Answered(w) ==
    /\ run[w].pc = "asking"
    /\ \E a \in answers :
         /\ a.key = KeyOf(w)
         /\ run' = [run EXCEPT ![w].pc = "answered", ![w].says = a.says, ![w].refund = a.refund]
    /\ UNCHANGED <<ours, reading, stripe, now>>

\* RefundUnclearError: it may have gone through, it may go through yet.
Unclear(w) ==
    /\ "unclear" \in World
    /\ run[w].pc = "asking"
    /\ run' = [run EXCEPT ![w].pc = "answered", ![w].says = "unclear"]
    /\ UNCHANGED <<ours, reading, stripe, now>>

\* recordRefundIssued's row: the refund's id, and its status unless more is known.
Issued(w) ==
    LET r == run[w].row
        f == run[w].refund
    IN  [row EXCEPT ![r].refund = IF @ = None THEN f ELSE @,
                    ![r].status = IF @ \in {"issuing", "due"} THEN money[f].made ELSE @,
                    ![r].lapsed = FALSE, ![r].waiting = FALSE]

RecordIssued(w) ==
    /\ run[w].pc = "answered" /\ run[w].says = "made"
    /\ Save(Issued(w))
    /\ run' = [run EXCEPT ![w] = Idle]
    /\ UNCHANGED <<disputed, warned, held, handled, settling, taken, holding, reading, stripe, now>>

\* Whether the next attempt takes a new key: only a refusal is sure to have made nothing.
MovesOn(says) == says = "refused"

Retry(w) ==
    LET r == run[w].row
        moves == MovesOn(run[w].says)
    IN  IF row[r].status # "issuing" THEN row
        ELSE [row EXCEPT ![r].status = "due", ![r].lapsed = FALSE, ![r].waiting = TRUE,
                         ![r].seq = IF moves THEN @ + 1 ELSE @,
                         ![r].used = IF moves THEN FALSE ELSE @]

\* recordRefundRetry before the last attempt.
RecordRetry(w) ==
    /\ run[w].pc = "answered" /\ run[w].says \in {"unclear", "refused"}
    /\ run[w].attempts < MaxAttempts
    /\ row' = Retry(w)
    /\ run' = [run EXCEPT ![w] = Idle]
    /\ UNCHANGED <<order, session, disputed, warned, held, handled, settling, taken, holding,
                   reading, stripe, now>>

\* After the last attempt, or when Stripe says the money already went back.
RecordFailure(w) ==
    /\ run[w].pc = "answered"
    /\ run[w].says = "already" \/ (run[w].says \in {"unclear", "refused"}
                                     /\ run[w].attempts >= MaxAttempts)
    /\ Close(w, "failed")
    /\ UNCHANGED <<disputed, warned, held, handled, settling, taken, holding, reading, stripe, now>>

\* The process ends; its claim stays until the lease runs out.  Bound: not on
\* a last attempt, so that attempts stay finite.
RunCrashes(w) ==
    /\ "crash" \in World
    /\ run[w].pc # "idle" /\ run[w].attempts < MaxAttempts
    /\ run' = [run EXCEPT ![w] = Idle]
    /\ UNCHANGED <<ours, reading, stripe, now>>

Working(r) == \E w \in Runs :
    run[w].pc # "idle" /\ run[w].row = r /\ run[w].attempts = row[r].attempts

\* The lease outlasts the two timeouts of a request, not a run that is held up.
\* Bound: as for crashes.
LeaseRunsOut(r) ==
    /\ row[r].status = "issuing" /\ ~row[r].lapsed
    /\ ~Working(r) \/ ("slow" \in World /\ row[r].attempts < MaxAttempts)
    /\ row' = [row EXCEPT ![r].lapsed = TRUE]
    /\ UNCHANGED <<order, session, disputed, warned, held, handled, settling, taken, holding,
                   sweep, stripe, now>>

\* next_attempt_at comes.
WaitEnds(r) ==
    /\ row[r].status = "due" /\ row[r].waiting
    /\ row' = [row EXCEPT ![r].waiting = FALSE]
    /\ UNCHANGED <<order, session, disputed, warned, held, handled, settling, taken, holding,
                   sweep, stripe, now>>

\* KEY_WINDOW_MINUTES pass since the key's first use.
KeyGetsOld(r, n) ==
    /\ "old_keys" \in World
    /\ n < row[r].seq \/ (n = row[r].seq /\ row[r].used)
    /\ <<r, n>> \notin old
    /\ old' = old \union {<<r, n>>}
    /\ UNCHANGED <<ours, sweep, money, wire, answers, sent, now>>

-----------------------------------------------------------------------------
(* What Stripe says about a refund reaches its row. *)

\* mayApply: newer always, older never; in the same moment a final status wins.
MayApply(was, next, at) ==
    \/ was.at = None
    \/ at > was.at
    \/ at = was.at /\ (next \in Final \/ was.status \notin Final)

\* Mutation: a refund of ours is looked for by its id alone.
RowsOfById(f) == {r \in Rows : row[r].refund = f}

\* The row carrying the refund's id, else the row the refund's metadata names.
RowsOf(f) ==
    LET carrying == {r \in Rows : row[r].refund = f}
        named == {r \in Rows : r = money[f].row /\ row[r].refund = None}
    IN  IF carrying # {} THEN carrying ELSE named

Told(r, f, status, at) ==
    IF row[r].status = status /\ row[r].refund = f THEN row
    ELSE [row EXCEPT ![r].refund = f, ![r].status = status, ![r].at = at,
                     ![r].lapsed = FALSE, ![r].waiting = FALSE]

FromDashboard(f, status, at) ==
    [NoRow EXCEPT !.status = status, !.origin = "processor", !.amount = money[f].amount,
                  !.refund = f, !.at = at]

\* applyRefundEvent on an order that has the payment.
Apply(f, status, at) ==
    IF RowsOf(f) = {}
    THEN \E r \in Rows : FreshRow(r) /\ Save([row EXCEPT ![r] = FromDashboard(f, status, at)])
    ELSE \E r \in RowsOf(f) :
           IF MayApply(row[r], status, at) THEN Save(Told(r, f, status, at))
           ELSE UNCHANGED <<row, order, session>>

\* Mutation: neither transaction waits for the other.
NoLock == TRUE

\* lockPayment: of the settlement and a refund's event, one at a time.
LockFree == settling # "open" /\ holding = None

\* handleRefundEvent.  A redelivery finds its id claimed and changes nothing.
RefundEvent(e) ==
    /\ e \in sent \ handled /\ settling = "done" /\ LockFree
    /\ Apply(e.refund, e.status, e.at)
    /\ handled' = handled \union {e}
    /\ UNCHANGED <<disputed, warned, held, settling, taken, holding, sweep, stripe, now>>

\* The same when no order has the payment yet: read here, written below.
HoldBegins(e) ==
    /\ e \in sent \ handled /\ settling # "done" /\ LockFree
    /\ holding' = e
    /\ UNCHANGED <<order, session, disputed, warned, row, held, handled, settling, taken, sweep,
                   stripe, now>>

\* Mutation: the newest to arrive replaces what is held.
HeldLast(e) == [status |-> e.status, at |-> e.at]

\* holdRefundEvent: one row per refund, at its newest event.
Newest(e) ==
    LET was == held[e.refund]
    IN  IF was = None \/ MayApply(was, e.status, e.at) THEN [status |-> e.status, at |-> e.at]
        ELSE was

HoldCommits ==
    /\ holding # None
    /\ held' = [held EXCEPT ![holding.refund] = Newest(holding)]
    /\ handled' = handled \union {holding}
    /\ holding' = None
    /\ UNCHANGED <<order, session, disputed, warned, row, settling, taken, sweep, stripe, now>>

\* applyCheckoutOutcome's transaction: it takes the payment's lock and finds what is held.
SettlementBegins ==
    /\ settling = "before" /\ LockFree
    /\ settling' = "open"
    /\ taken' = held
    /\ UNCHANGED <<order, session, disputed, warned, row, held, handled, holding, sweep, stripe, now>>

HeldRefunds == {f \in StripeIds : taken[f] # None}

\* The order is paid and the refunds that came first are applied, as one.
SettlementCommits ==
    /\ settling = "open"
    /\ settling' = "done"
    /\ \E place \in Injection(HeldRefunds, Rows) :
         LET rows == [r \in Rows |->
                         IF \E f \in HeldRefunds : place[f] = r
                         THEN LET f == CHOOSE f \in HeldRefunds : place[f] = r
                              IN  FromDashboard(f, taken[f].status, taken[f].at)
                         ELSE NoRow]
         IN  /\ \A f \in HeldRefunds : \A q \in Rows :
                  q < place[f] => \E g \in HeldRefunds : place[g] = q
             /\ row' = rows
             /\ order' = CASE Succeeded(rows) >= Gross -> "refunded"
                           [] Succeeded(rows) = 0 -> "paid"
                           [] OTHER -> "partially_refunded"
    /\ session' = IF order' = "refunded" THEN "cancelled" ELSE session
    /\ held' = [f \in StripeIds |-> IF f \in HeldRefunds THEN None ELSE held[f]]
    /\ taken' = [f \in StripeIds |-> None]
    /\ UNCHANGED <<disputed, warned, handled, holding, sweep, stripe, now>>

-----------------------------------------------------------------------------
(* refreshPendingRefunds: a refund Stripe has gone quiet about is read again. *)

\* Mutation: a refund some event spoke of is left to its events.
QuietUnheard(r) == row[r].status = "pending" /\ row[r].refund # None /\ row[r].at = None

Quiet(r) == row[r].status = "pending" /\ row[r].refund # None

ReadAgain(r) ==
    /\ "refresh" \in World
    /\ reading = None /\ Quiet(r)
    /\ reading' = [refund |-> row[r].refund, status |-> money[row[r].refund].status]
    /\ UNCHANGED <<ours, run, stripe, now>>

\* The answer is applied as of our clock after the reading.
ApplyReading ==
    /\ reading # None
    /\ Apply(reading.refund, reading.status, OwnMoment)
    /\ reading' = None
    /\ UNCHANGED <<disputed, warned, held, handled, settling, taken, holding, run, stripe, now>>

ReadingFails ==
    /\ "crash" \in World
    /\ reading # None
    /\ reading' = None
    /\ UNCHANGED <<ours, run, stripe, now>>

-----------------------------------------------------------------------------
(* Stripe, the dashboard and the clock. *)

FreshId(f) == money[f].status = "none" /\ \A g \in StripeIds : g < f => money[g].status # "none"

GoneBack ==
    LET Amount(f) == money[f].amount
    IN  Total({f \in StripeIds : money[f].status \in {"pending", "succeeded"}}, Amount)

News(f, status) == sent' = sent \union {[refund |-> f, status |-> status, at |-> EventMoment]}

MakeRefund(f, r, amount, status) ==
    /\ FreshId(f)
    /\ money' = [money EXCEPT ![f] = [status |-> status, made |-> status, row |-> r,
                     amount |-> amount, at |-> EventMoment, went |-> status = "succeeded"]]
    /\ News(f, status)

\* A request is carried out once for its key, and the answer kept.
StripeMakes(k) ==
    /\ k \in wire /\ GoneBack + Gross <= Gross
    /\ \E f \in StripeIds, status \in {"pending", "succeeded"} :
         MakeRefund(f, k[1], Gross, status) /\ answers' = answers \union {[key |-> k, says |-> "made", refund |-> f]}
    /\ wire' = wire \ {k}
    /\ UNCHANGED <<ours, sweep, old, now>>

\* A clear refusal: no balance, say, or nothing left of the payment.
StripeRefuses(k) ==
    /\ k \in wire
    /\ LET full == GoneBack + Gross > Gross
       IN  /\ full \/ "refusal" \in World
           /\ answers' = answers \union {[key |-> k, says |-> IF full THEN "already" ELSE "refused",
                                           refund |-> None]}
    /\ wire' = wire \ {k}
    /\ UNCHANGED <<ours, sweep, money, old, sent, now>>

RequestLost(k) ==
    /\ "unclear" \in World /\ k \in wire
    /\ wire' = wire \ {k}
    /\ UNCHANGED <<ours, sweep, money, answers, old, sent, now>>

\* Stripe keeps a key's answer for an hour longer than the code will send it
\* again, which is longer than any request is on its way.
StripeForgets(a) ==
    /\ a \in answers /\ a.key \in old
    /\ ~\E w \in Runs : run[w].pc = "asking" /\ KeyOf(w) = a.key
    /\ answers' = answers \ {a}
    /\ UNCHANGED <<ours, sweep, money, wire, old, sent, now>>

\* A refund that succeeded may still bounce, in a later second.
StripeMoves(f, status) ==
    /\ \/ money[f].status = "pending" /\ status \in Final
       \/ /\ "bounce" \in World
          /\ money[f].status = "succeeded" /\ status = "failed" /\ money[f].at < EventMoment
    /\ money' = [money EXCEPT ![f].status = status, ![f].at = EventMoment,
                              ![f].went = @ \/ status = "succeeded"]
    /\ News(f, status)
    /\ UNCHANGED <<ours, sweep, wire, answers, old, now>>

\* A person refunds by hand: all of what is left, or a part.
Dashboard ==
    /\ "dashboard" \in World
    /\ \E f \in StripeIds, amount \in 1 .. Gross, status \in {"pending", "succeeded"} :
         GoneBack + amount <= Gross /\ MakeRefund(f, None, amount, status)
    /\ UNCHANGED <<ours, sweep, wire, answers, old, now>>

SessionNears ==
    /\ "time" \in World
    /\ session' = CASE session = "later" -> "soon" [] session = "soon" -> "started"
                  [] OTHER -> session
    /\ UNCHANGED <<order, disputed, warned, row, held, handled, settling, taken, holding, sweep,
                   stripe, now>>

Tick == now < MaxNow /\ now' = now + 1 /\ UNCHANGED <<ours, sweep, stripe>>

-----------------------------------------------------------------------------
RunStep(w) ==
    \/ \E r \in Rows : Claim(w, r)
    \/ Ask(w) \/ DontAsk(w) \/ Answered(w) \/ Unclear(w)
    \/ RecordIssued(w) \/ RecordRetry(w) \/ RecordFailure(w) \/ RunCrashes(w)

RowStep(r) == LeaseRunsOut(r) \/ WaitEnds(r) \/ ReadAgain(r)

StripeStep ==
    \/ \E k \in wire : StripeMakes(k) \/ StripeRefuses(k) \/ RequestLost(k)
    \/ \E a \in answers : StripeForgets(a)
    \/ \E f \in StripeIds, status \in Final : StripeMoves(f, status)
    \/ Dashboard

EventStep == HoldCommits \/ \E e \in sent : RefundEvent(e) \/ HoldBegins(e)

Next ==
    \/ Withdraw \/ FraudWarning \/ Dispute
    \/ SettlementBegins \/ SettlementCommits
    \/ \E w \in Runs : RunStep(w)
    \/ \E r \in Rows : RowStep(r) \/ \E n \in 0 .. row[r].seq : KeyGetsOld(r, n)
    \/ ApplyReading \/ ReadingFails
    \/ EventStep \/ StripeStep
    \/ SessionNears \/ Tick

Spec == Init /\ [][Next]_vars

\* The sweep runs every five minutes and takes up whatever is left; a crash or
\* a lost answer does not meet every attempt at the same call.  Stripe carries
\* out or drops what it was sent.  Nothing else is owed: no event need arrive.
Fairness ==
    /\ \A r \in Rows :
         /\ WF_vars(\E w \in Runs : Claim(w, r))
         /\ WF_vars(LeaseRunsOut(r)) /\ WF_vars(WaitEnds(r))
         /\ SF_vars(ReadAgain(r))
    /\ \A w \in Runs :
         /\ SF_vars(Ask(w) \/ DontAsk(w))
         /\ SF_vars(Answered(w) \/ Unclear(w))
         /\ SF_vars(RecordIssued(w) \/ RecordRetry(w) \/ RecordFailure(w))
    /\ SF_vars(ApplyReading)
    /\ \A r \in Rows, n \in 0 .. MaxAttempts :
         WF_vars(<<r, n>> \in wire /\ (StripeMakes(<<r, n>>) \/ StripeRefuses(<<r, n>>)))

FairSpec == Spec /\ Fairness

-----------------------------------------------------------------------------
(* Properties. *)

RefundRow == [status : RowStatus, origin : Origin, amount : 0 .. Gross,
              refund : StripeIds \union {None}, attempts : Nat, seq : Nat,
              used : BOOLEAN, lapsed : BOOLEAN, waiting : BOOLEAN, at : Moments \union {None}]
RunState == [pc : {"idle", "claimed", "asking", "answered"}, row : Rows \union {None},
             seq : Nat, attempts : Nat, order : {"paid", "partially_refunded", "refunded"},
             says : {"nothing", "made", "unclear", "refused", "already"},
             refund : StripeIds \union {None}]
StripeRefund == [status : {"none"} \union RefundStatus, made : {"none", "pending", "succeeded"},
                 row : Rows \union {None}, amount : 0 .. Gross, at : Moments, went : BOOLEAN]
Answer == [key : Keys, says : {"made", "refused", "already"}, refund : StripeIds \union {None}]

OrderOK ==
    /\ order \in {"pending", "paid", "partially_refunded", "refunded"}
    /\ session \in {"later", "soon", "started", "cancelled"}
    /\ disputed \in BOOLEAN /\ warned \in {None, "refund_queued", "desk_decides"}
EventsOK ==
    /\ held \in [StripeIds -> {None} \union Word] /\ taken \in [StripeIds -> {None} \union Word]
    /\ sent \subseteq Events /\ handled \subseteq sent /\ holding \in sent \union {None}
    /\ settling \in {"before", "open", "done"}
    /\ reading \in {None} \union [refund : StripeIds, status : RefundStatus]
    /\ now \in 0 .. MaxNow
RunsOK ==
    /\ run \in [Runs -> RunState]
    /\ \A w \in Runs : run[w].pc # "idle" => run[w].row \in Rows
StripeOK ==
    /\ money \in [StripeIds -> StripeRefund]
    /\ wire \subseteq Keys /\ old \subseteq Keys /\ answers \subseteq Answer

\* The rows, runs and Stripe's records keep their shape.
TypeOK == OrderOK /\ row \in [Rows -> RefundRow] /\ EventsOK /\ RunsOK /\ StripeOK

\* Whatever is lost, repeated, refused or forgotten, Stripe makes one refund at
\* most for a row: a repeat carries the key that may have made it
\* (recordRefundRetry, keyWindowPassed).
OneRefundPerRow ==
    \A f, g \in StripeIds : money[f].row # None /\ money[f].row = money[g].row => f = g

\* A row that would be asked for again holds no refund and has heard of none,
\* even when a claim ran out while its request was being answered
\* (recordRefundIssued: "or it would be asked for again").
OpenRowHoldsNoRefund ==
    \A r \in Rows : row[r].status \in {"due", "issuing"} => row[r].refund = None

\* No two rows carry one refund, so no recording of Stripe's answer or event
\* ever dies on the unique index, whichever of the two comes first.
OneRowPerRefund ==
    \A r, q \in Rows : row[r].refund # None /\ row[r].refund = row[q].refund => r = q

WentBack ==
    LET Amount(f) == money[f].amount
    IN  Total({f \in StripeIds : money[f].went}, Amount)

\* An order is called refunded, and a refund owed is dropped as superseded,
\* only when the whole of the money did go back at Stripe.
WrittenOffOnlyWhenPaid ==
    order = "refunded" \/ (\E r \in Rows : row[r].status = "superseded") => WentBack >= Gross

\* At most one refund of ours is on its way or done: a withdrawal and a fraud
\* warning do not both give the money back.
OneFullRefundAtATime ==
    \A r, q \in Rows :
        /\ row[r].origin \in {"withdrawal", "fraud_warning"}
        /\ row[q].origin \in {"withdrawal", "fraud_warning"}
        /\ {row[r].status, row[q].status} \subseteq {"due", "issuing", "pending", "succeeded"}
        => r = q

\* An event whose delivery was acknowledged is not forgotten: its refund has a
\* row, or is held for a settlement still to come (lockPayment, held-refunds.ts).
HeardIsRecorded ==
    \A e \in handled :
        \/ \E r \in Rows : row[r].refund = e.refund
        \/ settling = "before" /\ held[e.refund] # None
        \/ settling = "open" /\ taken[e.refund] # None

\* Once every event is in, in whatever order, each refund's row says what
\* Stripe says (mayApply, holdRefundEvent).  For instances that read nothing again.
NewsIsNeverLost ==
    settling = "done" /\ sent \subseteq handled =>
        \A r \in Rows : row[r].refund # None => row[r].status = money[row[r].refund].status

\* A late pending does not undo a succeeded (the comment on mayApply).
LatePendingUndoesNothing ==
    [][\A r \in Rows : row[r].status = "succeeded" => row'[r].status # "pending"]_vars

\* A key moves on only after a clear refusal of that very key (the rules at the
\* head of refunds.ts).
KeyMovesOnlyWhenRefused ==
    [][\A r \in Rows : row'[r].seq # row[r].seq =>
         \E a \in answers : a.key = <<r, row[r].seq>> /\ a.says = "refused"]_vars

\* A refund owed is asked for until it is made, given up to a person, or
\* found to be made another way (issueDueRefunds).
OwedIsAnswered ==
    \A r \in Rows : row[r].status \in {"due", "issuing"} ~> row[r].status \notin {"due", "issuing"}

\* A pending refund's outcome reaches its row though no event ever arrives
\* (refreshPendingRefunds).
PendingIsHeard ==
    \A r \in Rows :
        row[r].status = "pending" /\ money[row[r].refund].status \in Final
            ~> row[r].status \in Final
=============================================================================
