---------------------------- MODULE RefundSafety ----------------------------
(***************************************************************************)
(* Proofs about the money going back, for any number of rows, refunds and  *)
(* overlapping runs, and whatever may go wrong:                            *)
(*   - rows, runs and Stripe's records keep their shape,                   *)
(*   - a row that would be asked for again holds no refund,                *)
(*   - no two rows carry one refund,                                       *)
(*   - an event whose delivery was acknowledged is not forgotten,          *)
(*   - a withdrawal and a fraud warning do not both give the money back,   *)
(*   - while no run outlives its lease, a row's refund is made once,       *)
(*   - where nothing is read again, each row ends up with the latest word  *)
(*     on its refund,                                                      *)
(*   - and nothing is written off before the whole of the money went back. *)
(*                                                                         *)
(* RowMove and MoneyMove list what any step can do to the rows and to      *)
(* Stripe's refunds, with the condition the code found true; the           *)
(* invariants follow from those lists. The next three look at the claims   *)
(* on a row and at the order of Stripe's events: OwedOnce, OneClaim and    *)
(* OneKey, then InOrder, LastIsSent, HeldIsNewest, RowIsNewest and         *)
(* StillIssuing are their invariants. The last adds the money up: it rests *)
(* on lemmas about sums over finite sets, and WrittenInv is its invariant. *)
(***************************************************************************)
EXTENDS Refunds, FiniteSetTheorems, WellFoundedInduction, TLAPS

(***************************************************************************)
(* The strengthening.                                                      *)
(***************************************************************************)

\* Before the settlement has committed the order is not paid and owes nothing
\* back; while it is open no event waits to be held.
Beginning ==
    /\ order = "pending" <=> settling # "done"
    /\ holding # None => settling = "before"
    /\ reading # None => settling = "done"
    /\ \A r \in Rows : row[r].status # "none" => settling = "done"

\* An unused row names no refund; a row an event was applied to names one.
NamesWhatItHeard ==
    \A r \in Rows : /\ row[r].status = "none" => row[r].refund = None
                    /\ row[r].at # None => row[r].refund # None

\* Stripe made refund f for row r.
Made(f, r) ==
    /\ f \in StripeIds
    /\ money[f].status # "none" /\ money[f].made # "none" /\ money[f].row = r

\* What is asked of Stripe, and what it made, is for rows that exist; an
\* answer that a refund was made names the refund made for that row.
AskedForRows ==
    /\ \A k \in wire : row[k[1]].status # "none"
    /\ \A a \in answers : /\ row[a.key[1]].status # "none"
                          /\ a.says = "made" => Made(a.refund, a.key[1])
    /\ \A w \in Runs : /\ run[w].pc # "idle" => row[run[w].row].status # "none"
                       /\ run[w].says = "made" => Made(run[w].refund, run[w].row)
    /\ \A f \in StripeIds : /\ money[f].row # None => row[money[f].row].status # "none"
                            /\ money[f].status # "none" => money[f].made # "none"

\* Nobody speaks of a refund that Stripe has not made.
KnownToStripe ==
    /\ \A e \in sent : money[e.refund].status # "none"
    /\ \A f \in StripeIds : held[f] # None \/ taken[f] # None => money[f].status # "none"
    /\ reading # None => money[reading.refund].status # "none"
    /\ \A r \in Rows : row[r].refund # None => money[row[r].refund].status # "none"

\* A refund made for one row is carried by another only once that row carries
\* one of its own, so the answer to its request finds it nowhere else.
CarriedAtHome ==
    \A q \in Rows, f \in StripeIds :
        row[q].refund = f =>
            \/ money[f].row \in {None, q}
            \/ row[money[f].row].refund # None

RefundInv ==
    /\ TypeOK /\ Beginning /\ NamesWhatItHeard /\ AskedForRows /\ KnownToStripe /\ CarriedAtHome
    /\ OpenRowHoldsNoRefund /\ OneRowPerRefund /\ HeardIsRecorded

(***************************************************************************)
(* What a step can do to the rows.                                         *)
(***************************************************************************)

\* A refund comes to be owed: a row nobody used, for all of the money.
Opens(r, x) ==
    /\ settling = "done" /\ row[r].status = "none"
    /\ x.status = "due" /\ x.refund = None /\ x.at = None /\ x.amount = Gross

\* A row goes on with the refund it has, or without one; it is dropped only by a run
\* that found the order refunded.
Keeps(r, x) ==
    /\ row[r].status # "none" /\ x.status # "none"
    /\ x.refund = row[r].refund /\ x.at = row[r].at /\ x.amount = row[r].amount
    /\ x.refund # None => x.status \notin {"due", "issuing"}
    /\ x.status = "succeeded" => row[r].status = "succeeded"
    /\ x.status = "superseded" =>
          row[r].status = "superseded" \/ \E w \in Runs : run[w].order = "refunded"

\* Stripe said so of the refund: on making it, in an event, or when it was read again.
Heard(f, status) ==
    \/ status = money[f].made
    \/ \E e \in sent : e.refund = f /\ e.status = status
    \/ reading # None /\ reading.refund = f /\ reading.status = status

\* A row comes to carry a refund, or goes on carrying it, as nobody else does.
Carries(r, x) ==
    /\ settling = "done"
    /\ x.status \notin {"none", "due", "issuing"}
    /\ x.refund \in StripeIds /\ money[x.refund].status # "none"
    /\ row[r].refund \in {None, x.refund}
    /\ \A q \in Rows \ {r} : row[q].refund # x.refund
    /\ money[x.refund].row \in {None, r} \/ row[money[x.refund].row].refund # None
    /\ x.status = row[r].status \/ Heard(x.refund, x.status)
    /\ IF row[r].status = "none" THEN x.amount = money[x.refund].amount
       ELSE x.amount = row[r].amount /\ (row[r].refund = None => money[x.refund].row = r)

\* The settlement writes a row for each refund it found held.
Settles ==
    /\ settling = "open" /\ settling' = "done"
    /\ row' \in [Rows -> RefundRow]
    /\ \A f \in HeldRefunds : \E r \in Rows : row'[r].refund = f
    /\ \A r \in Rows :
         \/ row'[r] = NoRow
         \/ /\ row'[r].refund \in HeldRefunds /\ row'[r].status \in RefundStatus
            /\ \A q \in Rows \ {r} : row'[q].refund # row'[r].refund
            /\ row'[r].status = taken[row'[r].refund].status
            /\ row'[r].amount = money[row'[r].refund].amount

RowMove ==
    \/ UNCHANGED <<row, settling>>
    \/ row' = row /\ settling = "before" /\ settling' = "open"
    \/ /\ \E r \in Rows, x \in RefundRow :
             /\ row' = [row EXCEPT ![r] = x]
             /\ Opens(r, x) \/ Keeps(r, x) \/ Carries(r, x)
       /\ settling' = settling
    \/ Settles

(***************************************************************************)
(* What each write to the rows is.                                         *)
(***************************************************************************)

\* Recording what the rows add up to never makes an order unpaid, nor paid, and makes
\* it refunded only when they do add up.
LEMMA SavedOrder ==
    ASSUME OrderOK, NEW rows, Save(rows)
    PROVE  /\ order' \in {"pending", "paid", "partially_refunded", "refunded"}
           /\ session' \in {"later", "soon", "started", "cancelled"}
           /\ order' = "pending" <=> order = "pending"
           /\ order' = "refunded" => order = "refunded" \/ Succeeded(row') >= Gross
BY DEF OrderOK, Save, Recomputed

\* A new row is one.
LEMMA DueRow ==
    ASSUME NEW origin \in Origin
    PROVE  /\ Due(origin) \in RefundRow
           /\ Due(origin).status = "due" /\ Due(origin).refund = None /\ Due(origin).at = None
           /\ Due(origin).amount = Gross
<1>1. Gross \in 0 .. Gross
  BY RefundAmounts
<1> QED BY <1>1 DEF Due, NoRow, RefundRow, RowStatus

\* So is one made for a refund by hand.
LEMMA DashboardRow ==
    ASSUME StripeOK, NEW f \in StripeIds, NEW status \in RefundStatus, NEW at \in Moments
    PROVE  /\ FromDashboard(f, status, at) \in RefundRow
           /\ FromDashboard(f, status, at).status = status
           /\ FromDashboard(f, status, at).refund = f
           /\ FromDashboard(f, status, at).amount = money[f].amount
BY DEF StripeOK, StripeRefund, FromDashboard, NoRow, RefundRow, RowStatus, RefundStatus, Origin

\* Closing a claimed row.
LEMMA CloseMoves ==
    ASSUME RefundInv, NEW w \in Runs, run[w].pc # "idle", NEW status \in {"superseded", "failed"},
           Close(w, status), UNCHANGED settling, status = "superseded" => run[w].order = "refunded"
    PROVE  RowMove
<1>1. CASE row[run[w].row].status # "issuing"
  BY <1>1 DEF Close, RowMove
<1>2. CASE row[run[w].row].status = "issuing"
  <2> DEFINE r == run[w].row
             x == [row[r] EXCEPT !.status = status, !.lapsed = FALSE]
  <2>1. r \in Rows /\ row[r] \in RefundRow
    BY DEF RefundInv, TypeOK, RunsOK
  <2>2. /\ x \in RefundRow /\ x.status = status /\ x.refund = row[r].refund /\ x.at = row[r].at
        /\ x.amount = row[r].amount
    BY <2>1 DEF RefundRow, RowStatus
  <2>3. row' = [row EXCEPT ![r] = x]
    BY <1>2, <2>1 DEF Close, RefundInv, TypeOK
  <2>4. Keeps(r, x)
    BY <1>2, <2>2 DEF Keeps
  <2> QED BY <2>1, <2>2, <2>3, <2>4 DEF RowMove
<1> QED BY <1>1, <1>2

\* What Stripe says of a refund reaches the row that carries it, the row it
\* was made for, or a row of its own; afterwards some row carries it.
LEMMA ApplyMoves ==
    ASSUME RefundInv, NEW f \in StripeIds, NEW status \in RefundStatus, NEW at \in Moments,
           settling = "done", settling' = settling, money[f].status # "none",
           Heard(f, status), Apply(f, status, at)
    PROVE  RowMove /\ \E r \in Rows : row'[r].refund = f
<1> USE DEF RefundInv, TypeOK
<1>1. CASE RowsOf(f) = {}
  <2>1. PICK r \in Rows : FreshRow(r) /\ Save([row EXCEPT ![r] = FromDashboard(f, status, at)])
    BY <1>1 DEF Apply
  <2> DEFINE x == FromDashboard(f, status, at)
  <2>2. x \in RefundRow /\ x.status = status /\ x.refund = f /\ x.amount = money[f].amount
    BY DashboardRow
  <2>3. row' = [row EXCEPT ![r] = x]
    BY <2>1 DEF Save
  <2>4. \A q \in Rows : row[q].refund # f
    BY <1>1 DEF RowsOf
  <2>5. money[f].row \in Rows => row[money[f].row].refund # None
    BY <1>1 DEF RowsOf
  <2>6. money[f].row \in Rows \union {None}
    BY DEF StripeOK, StripeRefund
  <2>7. row[r].refund = None /\ row[r].status = "none"
    BY <2>1 DEF FreshRow, NamesWhatItHeard
  <2>8. Carries(r, x)
    BY <2>2, <2>4, <2>5, <2>6, <2>7 DEF Carries, RefundStatus
  <2>9. row'[r].refund = f
    BY <2>2, <2>3
  <2> QED BY <2>2, <2>3, <2>8, <2>9 DEF RowMove
<1>2. CASE RowsOf(f) # {}
  <2>1. PICK r \in RowsOf(f) : IF MayApply(row[r], status, at) THEN Save(Told(r, f, status, at))
                               ELSE UNCHANGED <<row, order, session>>
    BY <1>2 DEF Apply
  <2>2. /\ r \in Rows /\ row[r].refund \in {None, f}
        /\ row[r].refund = None => r = money[f].row /\ \A q \in Rows : row[q].refund # f
    BY <2>1, RefundPools DEF RowsOf
  <2>3. \A q \in Rows \ {r} : row[q].refund # f
    BY <2>2, RefundPools DEF OneRowPerRefund
  <2>4. CASE ~MayApply(row[r], status, at)
    <3>1. row[r].refund = f
      BY <2>2, <2>4 DEF MayApply, NamesWhatItHeard
    <3> QED BY <2>1, <2>2, <2>4, <3>1 DEF RowMove
  <2>5. CASE MayApply(row[r], status, at) /\ row[r].status = status /\ row[r].refund = f
    BY <2>1, <2>2, <2>5 DEF Save, Told, RowMove
  <2>6. CASE MayApply(row[r], status, at) /\ ~(row[r].status = status /\ row[r].refund = f)
    <3> DEFINE x == [row[r] EXCEPT !.refund = f, !.status = status, !.at = at,
                                   !.lapsed = FALSE, !.waiting = FALSE]
    <3>0. row[r].status # "none"
      BY <2>2, RefundPools DEF AskedForRows, NamesWhatItHeard
    <3>1. x \in RefundRow /\ x.status = status /\ x.refund = f /\ x.amount = row[r].amount
      BY <2>2 DEF RefundRow, RowStatus, RefundStatus
    <3>2. row' = [row EXCEPT ![r] = x]
      BY <2>1, <2>2, <2>6 DEF Save, Told
    <3>3. money[f].row \in {None, r} \/ row[money[f].row].refund # None
      BY <2>2, RefundPools DEF CarriedAtHome
    <3>4. Carries(r, x)
      BY <2>2, <2>3, <3>0, <3>1, <3>3 DEF Carries, RefundStatus
    <3>5. row'[r].refund = f
      BY <2>2, <3>1, <3>2
    <3> QED BY <2>2, <3>1, <3>2, <3>4, <3>5 DEF RowMove
  <2> QED BY <2>4, <2>5, <2>6
<1> QED BY <1>1, <1>2

(***************************************************************************)
(* Every step is one of these moves.                                       *)
(***************************************************************************)

\* The order's status moves with the settlement and stays in its range; it becomes
\* refunded when the rows add up.
OrderMove ==
    /\ OrderOK' /\ (order' = "pending" <=> settling' # "done")
    /\ order' = "refunded" => order = "refunded" \/ Succeeded(row') >= Gross

\* A refund comes to be owed.
LEMMA OwedMoves ==
    ASSUME RefundInv, Withdraw \/ FraudWarning \/ Dispute
    PROVE  RowMove /\ OrderMove /\ UNCHANGED settling
<1> USE DEF RefundInv, TypeOK, OrderOK, OrderMove, Beginning
<1>1. ASSUME NEW r \in Rows, NEW origin \in Origin, FreshRow(r), settling = "done",
             row' = [row EXCEPT ![r] = Due(origin)], UNCHANGED settling
      PROVE  RowMove
  <2>1. Opens(r, Due(origin))
    BY <1>1, DueRow DEF Opens, FreshRow
  <2> QED BY <1>1, <2>1, DueRow DEF RowMove
<1>2. CASE Withdraw
  BY <1>1, <1>2 DEF Withdraw, Origin
<1>3. CASE FraudWarning
  BY <1>1, <1>3 DEF FraudWarning, RowMove, Origin
<1>4. CASE Dispute
  BY <1>4 DEF Dispute, RowMove
<1> QED BY <1>2, <1>3, <1>4

\* The settlement finds what is held, and commits it with the payment.
LEMMA SettlementMoves ==
    ASSUME RefundInv, SettlementBegins \/ SettlementCommits
    PROVE  RowMove /\ OrderMove
<1> USE DEF RefundInv, TypeOK, OrderOK, OrderMove, Beginning
<1>1. CASE SettlementBegins
  BY <1>1 DEF SettlementBegins, RowMove
<1>2. CASE SettlementCommits
  <2>1. PICK place \in Injection(HeldRefunds, Rows) :
           row' = [r \in Rows |->
                     IF \E f \in HeldRefunds : place[f] = r
                     THEN LET f == CHOOSE f \in HeldRefunds : place[f] = r
                          IN  FromDashboard(f, taken[f].status, taken[f].at)
                     ELSE NoRow]
    BY <1>2 DEF SettlementCommits
  <2>2. /\ place \in [HeldRefunds -> Rows]
        /\ \A f, g \in HeldRefunds : place[f] = place[g] => f = g
    BY DEF Injection, IsInjective
  <2>3. ASSUME NEW f \in HeldRefunds
        PROVE  /\ f \in StripeIds /\ taken[f].status \in RefundStatus /\ taken[f].at \in Moments
               /\ FromDashboard(f, taken[f].status, taken[f].at) \in RefundRow
               /\ FromDashboard(f, taken[f].status, taken[f].at).status = taken[f].status
               /\ FromDashboard(f, taken[f].status, taken[f].at).refund = f
               /\ FromDashboard(f, taken[f].status, taken[f].at).amount = money[f].amount
    <3>1. f \in StripeIds /\ taken[f] \in Word
      BY DEF HeldRefunds, EventsOK
    <3>2. taken[f].status \in RefundStatus /\ taken[f].at \in Moments
      BY <3>1 DEF Word
    <3> QED BY <3>1, <3>2, DashboardRow
  <2>4. ASSUME NEW f \in HeldRefunds
        PROVE  row'[place[f]] = FromDashboard(f, taken[f].status, taken[f].at)
    <3>1. (CHOOSE g \in HeldRefunds : place[g] = place[f]) = f
      BY <2>2
    <3> QED BY <2>1, <2>2, <3>1
  <2>5. ASSUME NEW r \in Rows
        PROVE  row'[r] = NoRow \/ \E f \in HeldRefunds : place[f] = r
    BY <2>1
  <2>6. NoRow \in RefundRow
    BY RefundAmounts DEF NoRow, RefundRow, RowStatus, Origin
  <2>7. row' \in [Rows -> RefundRow]
    BY <2>1, <2>3, <2>4, <2>5, <2>6
  <2>8. \A f \in HeldRefunds : \E r \in Rows : row'[r].refund = f
    BY <2>2, <2>3, <2>4
  <2>9. ASSUME NEW r \in Rows, row'[r] # NoRow
        PROVE  /\ row'[r].refund \in HeldRefunds /\ row'[r].status \in RefundStatus
               /\ row'[r].status = taken[row'[r].refund].status
               /\ row'[r].amount = money[row'[r].refund].amount
               /\ \A q \in Rows \ {r} : row'[q].refund # row'[r].refund
    <3>1. PICK f \in HeldRefunds : place[f] = r
      BY <2>5, <2>9
    <3>2. /\ row'[r].refund = f /\ row'[r].status \in RefundStatus
          /\ row'[r].status = taken[f].status /\ row'[r].amount = money[f].amount
      BY <2>3, <2>4, <3>1
    <3>3. ASSUME NEW q \in Rows \ {r}, row'[q].refund = f
          PROVE  FALSE
      <4>1. f # None
        BY <2>3, RefundPools
      <4>2. PICK g \in HeldRefunds : place[g] = q
        BY <2>5, <3>3, <4>1 DEF NoRow
      <4> QED BY <2>3, <2>4, <3>1, <3>3, <4>2
    <3> QED BY <3>2, <3>3
  <2>10. Settles
    BY <1>2, <2>7, <2>8, <2>9 DEF Settles, SettlementCommits
  <2>11. OrderMove
    BY <1>2 DEF SettlementCommits
  <2> QED BY <2>10, <2>11 DEF RowMove
<1> QED BY <1>1, <1>2

\* A row that is claimed holds no refund, so it goes on without one.
LEMMA OpenRowMoves ==
    ASSUME RefundInv, NEW r \in Rows, row[r].status \in {"due", "issuing"},
           NEW x \in RefundRow, x.status \in {"due", "issuing"}, x.refund = row[r].refund,
           x.at = row[r].at, x.amount = row[r].amount, row' = [row EXCEPT ![r] = x], UNCHANGED settling
    PROVE  RowMove
BY DEF RefundInv, OpenRowHoldsNoRefund, RowMove, Keeps

\* A row claimed is still a row.
LEMMA ClaimedRow ==
    ASSUME NEW y \in RefundRow, NEW x,
           x = [y EXCEPT !.status = "issuing", !.lapsed = FALSE, !.waiting = FALSE,
                         !.attempts = @ + 1, !.used = TRUE]
    PROVE  /\ x \in RefundRow /\ x.status = "issuing" /\ x.refund = y.refund /\ x.at = y.at
           /\ x.amount = y.amount
<1>1. y.attempts + 1 \in Nat
  BY DEF RefundRow
<1> QED BY <1>1 DEF RefundRow, RowStatus

\* A run's steps.
LEMMA RunMoves ==
    ASSUME RefundInv, NEW w \in Runs, RunStep(w)
    PROVE  RowMove /\ OrderMove /\ UNCHANGED settling
<1> USE DEF RefundInv, TypeOK, OrderOK, OrderMove, Beginning
<1>1. ASSUME NEW r \in Rows, Claim(w, r)
      PROVE  RowMove /\ OrderMove /\ UNCHANGED settling
  <2> DEFINE x == [row[r] EXCEPT !.status = "issuing", !.lapsed = FALSE, !.waiting = FALSE,
                                 !.attempts = @ + 1, !.used = TRUE]
  <2>1. row[r] \in RefundRow
    OBVIOUS
  <2>2. /\ x \in RefundRow /\ x.status = "issuing" /\ x.refund = row[r].refund /\ x.at = row[r].at
        /\ x.amount = row[r].amount
    BY <2>1, ClaimedRow
  <2>3. row' = [row EXCEPT ![r] = x] /\ row[r].status \in {"due", "issuing"}
    BY <1>1 DEF Claim, Claimable
  <2>4. RowMove
    BY <1>1, <2>2, <2>3, OpenRowMoves DEF Claim
  <2> QED BY <1>1, <2>4 DEF Claim
<1>2. CASE Ask(w) \/ Answered(w) \/ Unclear(w) \/ RunCrashes(w)
  BY <1>2 DEF Ask, Answered, Unclear, RunCrashes, RowMove, ours
<1>3. CASE DontAsk(w)
  <2>1. RowMove
    BY <1>3, CloseMoves DEF DontAsk
  <2> QED BY <1>3, <2>1 DEF DontAsk, Close
<1>4. CASE RecordFailure(w)
  <2>1. RowMove
    BY <1>4, CloseMoves DEF RecordFailure
  <2> QED BY <1>4, <2>1 DEF RecordFailure, Close
<1>5. CASE RecordRetry(w)
  <2> DEFINE r == run[w].row
             moves == MovesOn(run[w].says)
             x == [row[r] EXCEPT !.status = "due", !.lapsed = FALSE, !.waiting = TRUE,
                                 !.seq = IF moves THEN @ + 1 ELSE @,
                                 !.used = IF moves THEN FALSE ELSE @]
  <2>1. r \in Rows /\ row[r] \in RefundRow
    BY <1>5 DEF RecordRetry, RunsOK
  <2>2. /\ x \in RefundRow /\ x.status = "due" /\ x.refund = row[r].refund /\ x.at = row[r].at
        /\ x.amount = row[r].amount
    <3> HIDE DEF moves
    <3>1. row[r].seq + 1 \in Nat /\ row[r].seq \in Nat /\ row[r].used \in BOOLEAN
      BY <2>1 DEF RefundRow
    <3>2. CASE moves
      BY <2>1, <3>1, <3>2 DEF RefundRow, RowStatus
    <3>3. CASE ~moves
      BY <2>1, <3>1, <3>3 DEF RefundRow, RowStatus
    <3> QED BY <3>2, <3>3
  <2>3. CASE row[r].status # "issuing"
    BY <1>5, <2>3 DEF RecordRetry, Retry, RowMove
  <2>4. CASE row[r].status = "issuing"
    <3>1. row' = [row EXCEPT ![r] = x]
      BY <1>5, <2>1, <2>4 DEF RecordRetry, Retry
    <3>2. RowMove
      BY <1>5, <2>1, <2>2, <2>4, <3>1, OpenRowMoves DEF RecordRetry
    <3> QED BY <1>5, <3>2 DEF RecordRetry
  <2> QED BY <1>5, <2>3, <2>4 DEF RecordRetry
<1>6. CASE RecordIssued(w)
  <2> DEFINE r == run[w].row
             f == run[w].refund
             x == [row[r] EXCEPT !.refund = IF @ = None THEN f ELSE @,
                     !.status = IF @ \in {"issuing", "due"} THEN money[f].made ELSE @,
                     !.lapsed = FALSE, !.waiting = FALSE]
  <2>1. r \in Rows /\ row[r] \in RefundRow /\ row[r].status # "none" /\ settling = "done"
    BY <1>6 DEF RecordIssued, RunsOK, AskedForRows
  <2>2. Made(f, r) /\ f \in StripeIds /\ f # None
    BY <1>6, RefundPools DEF RecordIssued, AskedForRows, Made
  <2>3. money[f].made \in {"pending", "succeeded"} /\ money[f].row = r
    BY <2>2 DEF Made, StripeOK, StripeRefund
  <2>4. /\ x \in RefundRow /\ x.at = row[r].at /\ x.amount = row[r].amount
        /\ x.refund = IF row[r].refund = None THEN f ELSE row[r].refund
        /\ x.status = IF row[r].status \in {"issuing", "due"} THEN money[f].made ELSE row[r].status
    BY <2>1, <2>2, <2>3 DEF RefundRow, RowStatus
  <2>5. row' = [row EXCEPT ![r] = x] /\ UNCHANGED settling /\ Save(Issued(w))
    BY <1>6, <2>1 DEF RecordIssued, Save, Issued
  <2>6. CASE row[r].refund = None
    <3>1. \A q \in Rows \ {r} : row[q].refund # f
      BY <2>1, <2>2, <2>3, <2>6, RefundPools DEF CarriedAtHome
    <3>2. Carries(r, x)
      BY <2>1, <2>2, <2>3, <2>4, <2>6, <3>1 DEF Carries, Heard, Made
    <3> QED BY <1>6, <2>1, <2>4, <2>5, <3>2, SavedOrder DEF RowMove, RecordIssued
  <2>7. CASE row[r].refund # None
    <3>1. row[r].status \notin {"due", "issuing"}
      BY <2>1, <2>7 DEF OpenRowHoldsNoRefund
    <3>2. Keeps(r, x)
      BY <2>1, <2>4, <2>7, <3>1 DEF Keeps
    <3> QED BY <1>6, <2>1, <2>4, <2>5, <3>2, SavedOrder DEF RowMove, RecordIssued
  <2> QED BY <2>6, <2>7
<1> QED BY <1>1, <1>2, <1>3, <1>4, <1>5, <1>6 DEF RunStep

\* The clock's hand on a row, and a refund read again.
LEMMA RowStepMoves ==
    ASSUME RefundInv, NEW r \in Rows, RowStep(r) \/ \E n \in 0 .. row[r].seq : KeyGetsOld(r, n)
    PROVE  RowMove /\ OrderMove /\ UNCHANGED settling
<1> USE DEF RefundInv, TypeOK, OrderOK, OrderMove, Beginning
<1>1. row[r] \in RefundRow
  OBVIOUS
<1>2. CASE LeaseRunsOut(r)
  <2> DEFINE x == [row[r] EXCEPT !.lapsed = TRUE]
  <2>1. /\ x \in RefundRow /\ x.status = row[r].status /\ x.refund = row[r].refund
        /\ x.at = row[r].at /\ x.amount = row[r].amount
    BY <1>1 DEF RefundRow
  <2>2. RowMove
    BY <1>2, <2>1, OpenRowMoves DEF LeaseRunsOut
  <2> QED BY <1>2, <2>2 DEF LeaseRunsOut
<1>3. CASE WaitEnds(r)
  <2> DEFINE x == [row[r] EXCEPT !.waiting = FALSE]
  <2>1. /\ x \in RefundRow /\ x.status = row[r].status /\ x.refund = row[r].refund
        /\ x.at = row[r].at /\ x.amount = row[r].amount
    BY <1>1 DEF RefundRow
  <2>2. RowMove
    BY <1>3, <2>1, OpenRowMoves DEF WaitEnds
  <2> QED BY <1>3, <2>2 DEF WaitEnds
<1>4. CASE ReadAgain(r) \/ \E n \in 0 .. row[r].seq : KeyGetsOld(r, n)
  BY <1>4 DEF ReadAgain, KeyGetsOld, RowMove, ours
<1> QED BY <1>2, <1>3, <1>4 DEF RowStep

\* Applying leaves the order in its range, as paid as it was.
LEMMA ApplyOrder ==
    ASSUME OrderOK, NEW f, NEW status, NEW at, Apply(f, status, at), UNCHANGED <<disputed, warned>>
    PROVE  /\ OrderOK' /\ (order' = "pending" <=> order = "pending")
           /\ order' = "refunded" => order = "refunded" \/ Succeeded(row') >= Gross
BY SavedOrder DEF Apply, OrderOK

\* What a delivered event, or a reading, does.
LEMMA NewsMoves ==
    ASSUME RefundInv, EventStep \/ ApplyReading \/ ReadingFails
    PROVE  /\ RowMove /\ OrderMove /\ UNCHANGED settling
           /\ \A e \in sent : RefundEvent(e) => \E r \in Rows : row'[r].refund = e.refund
<1> USE DEF RefundInv, TypeOK, OrderMove, Beginning
<1>1. ASSUME NEW e \in sent, RefundEvent(e)
      PROVE  /\ RowMove /\ OrderMove /\ UNCHANGED settling
             /\ \E r \in Rows : row'[r].refund = e.refund
  <2>1. /\ e.refund \in StripeIds /\ e.status \in RefundStatus /\ e.at \in Moments
        /\ money[e.refund].status # "none" /\ Heard(e.refund, e.status)
    BY DEF EventsOK, Events, KnownToStripe, Heard
  <2>2. Apply(e.refund, e.status, e.at) /\ settling = "done" /\ UNCHANGED <<settling, disputed, warned>>
    BY <1>1 DEF RefundEvent
  <2> QED BY <2>1, <2>2, ApplyMoves, ApplyOrder
<1>2. ASSUME NEW e \in sent, HoldBegins(e)
      PROVE  RowMove /\ OrderMove /\ UNCHANGED settling
  BY <1>2 DEF HoldBegins, RowMove, OrderOK
<1>3. ASSUME HoldCommits \/ ReadingFails
      PROVE  RowMove /\ OrderMove /\ UNCHANGED settling
  BY <1>3 DEF HoldCommits, ReadingFails, ours, RowMove, OrderOK
<1>4. ASSUME ApplyReading
      PROVE  RowMove /\ OrderMove /\ UNCHANGED settling
  <2>1. /\ reading.refund \in StripeIds /\ reading.status \in RefundStatus
        /\ money[reading.refund].status # "none" /\ settling = "done"
        /\ Heard(reading.refund, reading.status)
    BY <1>4 DEF ApplyReading, EventsOK, KnownToStripe, Heard
  <2>2. OwnMoment \in Moments
    BY RefundAmounts DEF OwnMoment, Moments, EventsOK
  <2>3. Apply(reading.refund, reading.status, OwnMoment) /\ UNCHANGED <<settling, disputed, warned>>
    BY <1>4 DEF ApplyReading
  <2> QED BY <2>1, <2>2, <2>3, ApplyMoves, ApplyOrder
<1> QED BY <1>1, <1>2, <1>3, <1>4 DEF EventStep

\* Any step at all.
LEMMA EveryMove ==
    ASSUME RefundInv, [Next]_vars
    PROVE  RowMove /\ OrderMove
<1> USE DEF RefundInv, TypeOK, OrderOK, OrderMove, Beginning
<1>1. CASE UNCHANGED vars \/ StripeStep \/ SessionNears \/ Tick
  <2>1. UNCHANGED <<row, settling, order, disputed, warned>>
    BY <1>1 DEF vars, ours, StripeStep, StripeMakes, StripeRefuses, RequestLost, StripeForgets,
                StripeMoves, Dashboard, SessionNears, Tick
  <2>2. session' \in {"later", "soon", "started", "cancelled"}
    BY <1>1 DEF vars, ours, StripeStep, StripeMakes, StripeRefuses, RequestLost, StripeForgets,
                StripeMoves, Dashboard, SessionNears, Tick
  <2> QED BY <2>1, <2>2 DEF RowMove
<1> QED BY <1>1, OwedMoves, SettlementMoves, RunMoves, RowStepMoves, NewsMoves DEF Next

(***************************************************************************)
(* What a step can do to Stripe's refunds.                                 *)
(***************************************************************************)

\* Nothing, a new refund for nobody or for a row that exists, or a new status.
MoneyMove ==
    \/ UNCHANGED money
    \/ /\ UNCHANGED row
       /\ \E f \in StripeIds, x \in StripeRefund :
            /\ money' = [money EXCEPT ![f] = x]
            /\ x.status # "none" /\ x.made # "none"
            /\ \/ money[f].status = "none" /\ (x.row # None => row[x.row].status # "none")
               \/ money[f].status # "none" /\ x.row = money[f].row

\* A refund made by Stripe.
LEMMA MakeRefundMoves ==
    ASSUME RefundInv, NEW f \in StripeIds, NEW r \in Rows \union {None}, NEW amount \in 0 .. Gross,
           NEW status \in {"pending", "succeeded"}, MakeRefund(f, r, amount, status), UNCHANGED row,
           r # None => row[r].status # "none"
    PROVE  MoneyMove /\ sent' = sent \union {[refund |-> f, status |-> status, at |-> EventMoment]}
                     /\ money[f].status = "none" /\ money'[f].row = r
                     /\ money'[f].status # "none" /\ money'[f].made # "none"
<1> USE DEF RefundInv, TypeOK
<1> DEFINE x == [status |-> status, made |-> status, row |-> r, amount |-> amount,
                 at |-> EventMoment, went |-> status = "succeeded"]
<1>1. EventMoment \in Moments
  BY RefundAmounts DEF EventMoment, Moments, EventsOK
<1>2. x \in StripeRefund
  BY <1>1 DEF StripeRefund, RefundStatus
<1>3. money' = [money EXCEPT ![f] = x] /\ money[f].status = "none"
  BY DEF MakeRefund, FreshId
<1>4. money'[f] = x
  BY <1>3 DEF StripeOK
<1>5. x.status # "none" /\ x.made # "none" /\ x.row = r
  OBVIOUS
<1>6. sent' = sent \union {[refund |-> f, status |-> status, at |-> EventMoment]}
  BY DEF MakeRefund, News
<1> HIDE DEF x
<1>7. MoneyMove
  BY <1>2, <1>3, <1>5 DEF MoneyMove
<1> QED BY <1>3, <1>4, <1>5, <1>6, <1>7

\* Any step.
LEMMA MoneyMoves ==
    ASSUME RefundInv, [Next]_vars
    PROVE  MoneyMove
<1> USE DEF RefundInv, TypeOK
<1>1. ASSUME NEW k \in wire, StripeMakes(k)
      PROVE  MoneyMove
  <2>1. k[1] \in Rows /\ row[k[1]].status # "none"
    BY DEF StripeOK, Keys, AskedForRows
  <2>2. Gross \in 0 .. Gross
    BY RefundAmounts
  <2> QED BY <1>1, <2>1, <2>2, MakeRefundMoves DEF StripeMakes, ours
<1>2. CASE Dashboard
  BY <1>2, MakeRefundMoves DEF Dashboard, ours
<1>3. ASSUME NEW f \in StripeIds, NEW status \in Final, StripeMoves(f, status)
      PROVE  MoneyMove
  <2> DEFINE x == [money[f] EXCEPT !.status = status, !.at = EventMoment,
                                   !.went = @ \/ status = "succeeded"]
  <2>1. EventMoment \in Moments
    BY RefundAmounts DEF EventMoment, Moments, EventsOK
  <2>2. money[f] \in StripeRefund /\ money[f].status # "none" /\ money[f].made # "none"
    BY <1>3 DEF StripeOK, StripeMoves, AskedForRows
  <2>3. (money[f].went \/ status = "succeeded") \in BOOLEAN
    OBVIOUS
  <2>4. /\ x \in StripeRefund /\ x.status = status /\ x.status # "none"
        /\ x.made = money[f].made /\ x.row = money[f].row
    BY <2>1, <2>2, <2>3 DEF StripeRefund, Final, RefundStatus
  <2>5. money' = [money EXCEPT ![f] = x] /\ UNCHANGED row
    BY <1>3 DEF StripeMoves, StripeOK, ours
  <2> QED BY <2>2, <2>4, <2>5 DEF MoneyMove
<1>4. CASE \/ \E k \in wire : StripeRefuses(k) \/ RequestLost(k)
           \/ \E a \in answers : StripeForgets(a)
  BY <1>4 DEF StripeRefuses, RequestLost, StripeForgets, MoneyMove
<1>5. ASSUME NEW w \in Runs, RunStep(w)
      PROVE  UNCHANGED money
  BY <1>5 DEF RunStep, Claim, Ask, DontAsk, Answered, Unclear, RecordIssued, RecordRetry,
              RecordFailure, RunCrashes, stripe
<1>6. ASSUME NEW r \in Rows, RowStep(r) \/ \E n \in 0 .. row[r].seq : KeyGetsOld(r, n)
      PROVE  UNCHANGED money
  BY <1>6 DEF RowStep, LeaseRunsOut, WaitEnds, ReadAgain, KeyGetsOld, stripe
<1>7. CASE Withdraw \/ FraudWarning \/ Dispute \/ SettlementBegins \/ SettlementCommits
  BY <1>7 DEF Withdraw, FraudWarning, Dispute, SettlementBegins, SettlementCommits, stripe, MoneyMove
<1>8. CASE EventStep \/ ApplyReading \/ ReadingFails
  BY <1>8 DEF EventStep, HoldCommits, RefundEvent, HoldBegins, ApplyReading, ReadingFails,
              stripe, MoneyMove
<1>9. CASE SessionNears \/ Tick \/ UNCHANGED vars
  BY <1>9 DEF SessionNears, Tick, vars, stripe, MoneyMove
<1>10. ASSUME UNCHANGED money PROVE MoneyMove
  BY <1>10 DEF MoneyMove
<1> QED BY <1>1, <1>2, <1>3, <1>4, <1>5, <1>6, <1>7, <1>8, <1>9, <1>10 DEF Next, StripeStep

(***************************************************************************)
(* What lasts.                                                             *)
(***************************************************************************)

\* A row in use stays in use, and keeps the refund it names.
RowsKept ==
    \A r \in Rows : /\ row[r].status # "none" => row'[r].status # "none"
                    /\ row[r].refund # None => row'[r].refund = row[r].refund

\* A refund, once made, was made, and for the row it was made for.
MoneyKept ==
    \A f \in StripeIds : money[f].status # "none" =>
        money'[f].status # "none" /\ money'[f].made # "none" /\ money'[f].row = money[f].row

LEMMA RowMoveKeeps ==
    ASSUME RefundInv, RowMove
    PROVE  row' \in [Rows -> RefundRow] /\ RowsKept
<1> USE DEF RefundInv, TypeOK
<1>1. CASE row' = row
  BY <1>1 DEF RowsKept
<1>2. ASSUME NEW r \in Rows, NEW x \in RefundRow, row' = [row EXCEPT ![r] = x],
             Opens(r, x) \/ Keeps(r, x) \/ Carries(r, x)
      PROVE  row' \in [Rows -> RefundRow] /\ RowsKept
  <2>1. \A q \in Rows : row'[q] = IF q = r THEN x ELSE row[q]
    BY <1>2
  <2>2. /\ row[r].status # "none" => x.status # "none"
        /\ row[r].refund # None => x.refund = row[r].refund
    BY <1>2 DEF Opens, Keeps, Carries, NamesWhatItHeard
  <2> QED BY <1>2, <2>1, <2>2 DEF RowsKept
<1>3. CASE Settles
  BY <1>3 DEF Settles, RowsKept, Beginning, NamesWhatItHeard
<1> QED BY <1>1, <1>2, <1>3 DEF RowMove

LEMMA MoneyMoveKeeps ==
    ASSUME RefundInv, MoneyMove
    PROVE  money' \in [StripeIds -> StripeRefund] /\ MoneyKept
<1> USE DEF RefundInv, TypeOK, StripeOK
<1>1. CASE UNCHANGED money
  BY <1>1 DEF MoneyKept, AskedForRows
<1>2. ASSUME NEW f \in StripeIds, NEW x \in StripeRefund, money' = [money EXCEPT ![f] = x],
             x.status # "none", x.made # "none", money[f].status # "none" => x.row = money[f].row
      PROVE  money' \in [StripeIds -> StripeRefund] /\ MoneyKept
  <2>1. \A g \in StripeIds : money'[g] = IF g = f THEN x ELSE money[g]
    BY <1>2
  <2> QED BY <1>2, <2>1 DEF MoneyKept, AskedForRows
<1> QED BY <1>1, <1>2 DEF MoneyMove

(***************************************************************************)
(* The rows' invariants, from the moves.                                   *)
(***************************************************************************)

\* A row that would be asked for again holds no refund, no two rows carry one,
\* and a row an event reached names its refund.
LEMMA RowsHold ==
    ASSUME RefundInv, RowMove
    PROVE  OpenRowHoldsNoRefund' /\ OneRowPerRefund' /\ NamesWhatItHeard'
<1> USE DEF RefundInv, TypeOK, OpenRowHoldsNoRefund, OneRowPerRefund, NamesWhatItHeard
<1>1. CASE row' = row
  BY <1>1
<1>2. ASSUME NEW r \in Rows, NEW x \in RefundRow, row' = [row EXCEPT ![r] = x],
             Opens(r, x) \/ Keeps(r, x) \/ Carries(r, x)
      PROVE  OpenRowHoldsNoRefund' /\ OneRowPerRefund' /\ NamesWhatItHeard'
  <2>1. \A q \in Rows : row'[q] = IF q = r THEN x ELSE row[q]
    BY <1>2
  <2>2. CASE Opens(r, x)
    BY <2>1, <2>2 DEF Opens
  <2>3. CASE Keeps(r, x)
    BY <2>1, <2>3 DEF Keeps
  <2>4. CASE Carries(r, x)
    <3>1. x.refund # None
      BY <2>4, RefundPools DEF Carries
    <3> QED BY <2>1, <2>4, <3>1 DEF Carries
  <2> QED BY <1>2, <2>2, <2>3, <2>4
<1>3. CASE Settles
  <2>1. ASSUME NEW r \in Rows
        PROVE  \/ row'[r].status = "none" /\ row'[r].refund = None /\ row'[r].at = None
               \/ /\ row'[r].refund # None /\ row'[r].status \in RefundStatus
                  /\ \A q \in Rows \ {r} : row'[q].refund # row'[r].refund
    <3>1. NoRow.status = "none" /\ NoRow.refund = None /\ NoRow.at = None
      BY DEF NoRow
    <3>2. None \notin HeldRefunds
      BY RefundPools DEF HeldRefunds
    <3> QED BY <1>3, <3>1, <3>2 DEF Settles
  <2> QED BY <2>1 DEF RefundStatus
<1> QED BY <1>1, <1>2, <1>3 DEF RowMove

\* A refund made for one row is not carried by another before that row has one.
LEMMA StillCarriedAtHome ==
    ASSUME RefundInv, RowMove, MoneyMove
    PROVE  CarriedAtHome'
<1> USE DEF RefundInv, TypeOK, CarriedAtHome
<1>1. RowsKept /\ MoneyKept
  BY RowMoveKeeps, MoneyMoveKeeps
<1>2. \A f \in StripeIds : money[f].row \in Rows \union {None}
  BY DEF StripeOK, StripeRefund
<1>3. CASE row' = row
  <2>1. ASSUME NEW q \in Rows, NEW f \in StripeIds, row'[q].refund = f
        PROVE  money'[f].row \in {None, q} \/ row'[money'[f].row].refund # None
    <3>1. money[f].status # "none"
      BY <1>3, <2>1, RefundPools DEF KnownToStripe
    <3>2. money'[f].row = money[f].row
      BY <1>1, <3>1 DEF MoneyKept
    <3> QED BY <1>3, <2>1, <3>2
  <2> QED BY <2>1
<1>4. CASE row' # row
  <2>1. money' = money
    BY <1>4 DEF MoneyMove
  <2>2. ASSUME NEW r \in Rows, NEW x \in RefundRow, row' = [row EXCEPT ![r] = x],
               Opens(r, x) \/ Keeps(r, x) \/ Carries(r, x),
               NEW q \in Rows, NEW f \in StripeIds, row'[q].refund = f
        PROVE  money[f].row \in {None, q} \/ row'[money[f].row].refund # None
    <3>1. row[q].refund = f \/ (q = r /\ Carries(r, x) /\ x.refund = f)
      BY <2>2, RefundPools DEF Opens, Keeps
    <3>2. money[f].row \in {None, q} \/ row[money[f].row].refund # None
      BY <3>1 DEF Carries
    <3> QED BY <1>1, <1>2, <3>2, RefundPools DEF RowsKept
  <2>3. ASSUME Settles, NEW q \in Rows, NEW f \in StripeIds, row'[q].refund = f
        PROVE  money[f].row = None
    BY <1>2, <2>3 DEF Settles, Beginning, AskedForRows
  <2> QED BY <1>4, <2>1, <2>2, <2>3 DEF RowMove
<1> QED BY <1>3, <1>4

(***************************************************************************)
(* The other variables.                                                    *)
(***************************************************************************)

\* Rows are used only once the order has been paid for.
LEMMA StillBeginning ==
    ASSUME RefundInv, [Next]_vars
    PROVE  Beginning'
<1> USE DEF RefundInv, TypeOK, Beginning
<1>1. RowMove /\ OrderMove
  BY EveryMove
<1>2. \A r \in Rows : row'[r].status # "none" => settling' = "done"
  <2>1. ASSUME NEW r \in Rows, NEW x \in RefundRow, row' = [row EXCEPT ![r] = x],
               Opens(r, x) \/ Keeps(r, x) \/ Carries(r, x), settling' = settling
        PROVE  settling' = "done"
    BY <2>1 DEF Opens, Keeps, Carries
  <2> QED BY <1>1, <2>1 DEF RowMove, Settles
<1>3. (holding' # None => settling' = "before") /\ (reading' # None => settling' = "done")
  <2>1. CASE Withdraw \/ FraudWarning \/ Dispute \/ SettlementBegins \/ SettlementCommits
    BY <2>1 DEF Withdraw, FraudWarning, Dispute, SettlementBegins, SettlementCommits, sweep, LockFree
  <2>2. ASSUME NEW w \in Runs, RunStep(w)
        PROVE  UNCHANGED <<holding, reading, settling>>
    BY <2>2 DEF RunStep, Claim, Ask, DontAsk, Answered, Unclear, RecordIssued, RecordRetry,
                RecordFailure, RunCrashes, ours
  <2>3. ASSUME NEW r \in Rows, RowStep(r) \/ \E n \in 0 .. row[r].seq : KeyGetsOld(r, n)
        PROVE  (holding' # None => settling' = "before") /\ (reading' # None => settling' = "done")
    BY <2>3 DEF RowStep, LeaseRunsOut, WaitEnds, ReadAgain, Quiet, KeyGetsOld, ours, sweep
  <2>4. CASE EventStep
    BY <2>4 DEF EventStep, HoldCommits, RefundEvent, HoldBegins, LockFree, sweep, EventsOK
  <2>5. CASE ApplyReading \/ ReadingFails
    BY <2>5 DEF ApplyReading, ReadingFails, ours
  <2>6. CASE StripeStep \/ SessionNears \/ Tick \/ UNCHANGED vars
    BY <2>6 DEF StripeStep, StripeMakes, StripeRefuses, RequestLost, StripeForgets, StripeMoves,
                Dashboard, SessionNears, Tick, vars, ours, sweep
  <2> QED BY <2>1, <2>2, <2>3, <2>4, <2>5, <2>6 DEF Next
<1> QED BY <1>1, <1>2, <1>3 DEF OrderMove

\* What the runs know, and what is asked of Stripe and answered.
LEMMA StillAsked ==
    ASSUME RefundInv, [Next]_vars
    PROVE  RunsOK' /\ StripeOK' /\ AskedForRows'
<1> USE DEF RefundInv, TypeOK
<1>1. /\ row' \in [Rows -> RefundRow] /\ RowsKept
      /\ money' \in [StripeIds -> StripeRefund] /\ MoneyKept
  BY EveryMove, MoneyMoves, RowMoveKeeps, MoneyMoveKeeps
<1>2. \A f, r : Made(f, r) => /\ f \in StripeIds /\ money'[f].row = r
                              /\ money'[f].status # "none" /\ money'[f].made # "none"
  BY <1>1 DEF Made, MoneyKept
<1>3. \A f \in StripeIds : /\ money'[f].row # None => row'[money'[f].row].status # "none"
                           /\ money'[f].status # "none" => money'[f].made # "none"
  <2>1. CASE UNCHANGED money
    BY <1>1, <2>1, RefundPools DEF RowsKept, AskedForRows, StripeOK, StripeRefund
  <2>2. ASSUME UNCHANGED row, NEW g \in StripeIds, NEW x \in StripeRefund,
               money' = [money EXCEPT ![g] = x], x.made # "none",
               \/ money[g].status = "none" /\ (x.row # None => row[x.row].status # "none")
               \/ money[g].status # "none" /\ x.row = money[g].row,
               NEW f \in StripeIds
        PROVE  /\ money'[f].row # None => row'[money'[f].row].status # "none"
               /\ money'[f].status # "none" => money'[f].made # "none"
    <3>1. money'[f] = IF f = g THEN x ELSE money[f]
      BY <2>2 DEF StripeOK
    <3> QED BY <2>2, <3>1 DEF AskedForRows
  <2> QED BY <2>1, <2>2, MoneyMoves DEF MoneyMove
<1> DEFINE MadeThen(f, r) == /\ f \in StripeIds /\ money'[f].row = r
                             /\ money'[f].status # "none" /\ money'[f].made # "none"
           RunGood(w) == /\ run'[w] \in RunState
                         /\ run'[w].pc # "idle" => run'[w].row \in Rows
                         /\ run'[w].pc # "idle" => row'[run'[w].row].status # "none"
                         /\ run'[w].says = "made" => MadeThen(run'[w].refund, run'[w].row)
           KeyGood(k) == k \in Keys /\ row'[k[1]].status # "none"
           AnswerGood(a) == /\ a \in Answer /\ row'[a.key[1]].status # "none"
                            /\ a.says = "made" => MadeThen(a.refund, a.key[1])
<1>4. \A k \in wire : KeyGood(k)
  BY <1>1 DEF StripeOK, AskedForRows, RowsKept, Keys
<1>5. \A a \in answers : AnswerGood(a)
  BY <1>1, <1>2 DEF StripeOK, AskedForRows, RowsKept, Answer, Keys
<1>6. \A w \in Runs : run'[w] = run[w] => RunGood(w)
  BY <1>1, <1>2 DEF RunsOK, AskedForRows, RowsKept
<1>7. ASSUME NEW w \in Runs, run[w].pc # "idle"
      PROVE  KeyGood(KeyOf(w))
  <2>1. run[w].row \in Rows /\ run[w].seq \in Nat /\ row[run[w].row].status # "none"
    BY <1>7 DEF RunsOK, RunState, AskedForRows
  <2> QED BY <1>1, <2>1 DEF KeyOf, Keys, RowsKept
<1>8. \A w \in Runs : run'[w] = Idle => RunGood(w)
  BY DEF Idle, RunState
<1>9. ASSUME NEW w \in Runs, NEW y, run' = [run EXCEPT ![w] = y], RunGood(w)
      PROVE  (\A v \in Runs : RunGood(v)) /\ run' \in [Runs -> RunState]
  <2> HIDE DEF RunGood
  <2>1. \A v \in Runs : RunGood(v)
    <3> TAKE v \in Runs
    <3>1. CASE v = w
      BY <1>9, <3>1
    <3>2. CASE v # w
      BY <1>6, <1>9, <3>2 DEF RunsOK
    <3> QED BY <3>1, <3>2
  <2>2. \A v \in Runs : run'[v] \in RunState
    BY <2>1 DEF RunGood
  <2>3. run' = [v \in Runs |-> run'[v]]
    BY <1>9 DEF RunsOK
  <2> QED BY <2>1, <2>2, <2>3
<1>10. ASSUME NEW w \in Runs, RunStep(w)
       PROVE  (\A v \in Runs : RunGood(v)) /\ run' \in [Runs -> RunState]
  <2>1. ASSUME NEW r \in Rows, Claim(w, r)
        PROVE  (\A v \in Runs : RunGood(v)) /\ run' \in [Runs -> RunState]
    <3> DEFINE y == [Idle EXCEPT !.pc = "claimed", !.row = r, !.seq = row[r].seq,
                                 !.attempts = row[r].attempts + 1, !.order = order]
    <3>1. run' = [run EXCEPT ![w] = y] /\ run'[w] = y
      BY <2>1 DEF Claim, RunsOK
    <3>2. row[r].status # "none" /\ row'[r].status # "none"
      BY <1>1, <2>1 DEF Claim, Claimable, RowsKept
    <3>3. order \in {"paid", "partially_refunded", "refunded"}
      BY <3>2 DEF Beginning, OrderOK
    <3>4. row[r].seq \in Nat /\ row[r].attempts + 1 \in Nat
      BY DEF RefundRow
    <3>5. y \in RunState /\ y.row = r /\ y.says # "made"
      BY <3>3, <3>4 DEF Idle, RunState
    <3> HIDE DEF y
    <3> QED BY <1>9, <3>1, <3>2, <3>5
  <2>2. ASSUME Ask(w) \/ Unclear(w)
        PROVE  (\A v \in Runs : RunGood(v)) /\ run' \in [Runs -> RunState]
    <3>1. PICK pc \in {"asking", "answered"}, says \in {run[w].says, "unclear"} :
             run' = [run EXCEPT ![w] = [run[w] EXCEPT !.pc = pc, !.says = says]]
      BY <2>2 DEF Ask, Unclear, RunsOK, RunState
    <3> DEFINE y == [run[w] EXCEPT !.pc = pc, !.says = says]
    <3>2. run[w] \in RunState /\ run[w].pc # "idle" /\ run'[w] = y
      BY <2>2, <3>1 DEF Ask, Unclear, RunsOK
    <3>3. /\ y \in RunState /\ y.row = run[w].row /\ y.refund = run[w].refund
          /\ y.says = "made" => run[w].says = "made"
      BY <3>1, <3>2 DEF RunState
    <3> HIDE DEF y
    <3>4. RunGood(w)
      BY <1>1, <1>2, <3>2, <3>3 DEF RunsOK, AskedForRows, RowsKept
    <3> QED BY <1>9, <3>1, <3>2, <3>4 DEF y
  <2>3. CASE Answered(w)
    <3>1. PICK a \in answers :
             /\ a.key = KeyOf(w)
             /\ run' = [run EXCEPT ![w].pc = "answered", ![w].says = a.says, ![w].refund = a.refund]
      BY <2>3 DEF Answered
    <3> DEFINE y == [run[w] EXCEPT !.pc = "answered", !.says = a.says, !.refund = a.refund]
    <3>2. run[w] \in RunState /\ run[w].pc # "idle" /\ run' = [run EXCEPT ![w] = y] /\ run'[w] = y
      BY <2>3, <3>1 DEF Answered, RunsOK
    <3>3. a \in Answer /\ a.key[1] = run[w].row
      BY <3>1 DEF StripeOK, KeyOf
    <3>4. y \in RunState /\ y.row = run[w].row /\ y.refund = a.refund /\ y.says = a.says
      BY <3>2, <3>3 DEF RunState, Answer
    <3> HIDE DEF y
    <3>5. RunGood(w)
      BY <1>1, <1>2, <3>2, <3>3, <3>4 DEF RunsOK, AskedForRows, RowsKept
    <3> QED BY <1>9, <3>2, <3>5
  <2>4. ASSUME DontAsk(w) \/ RecordIssued(w) \/ RecordRetry(w) \/ RecordFailure(w) \/ RunCrashes(w)
        PROVE  (\A v \in Runs : RunGood(v)) /\ run' \in [Runs -> RunState]
    <3>1. run' = [run EXCEPT ![w] = Idle]
      BY <2>4 DEF DontAsk, RecordIssued, RecordRetry, RecordFailure, RunCrashes, Close
    <3> QED BY <1>8, <1>9, <3>1 DEF RunsOK
  <2> HIDE DEF RunGood
  <2> QED BY <1>10, <2>1, <2>2, <2>3, <2>4 DEF RunStep
<1>11. ASSUME \E w \in Runs : RunStep(w)
       PROVE  /\ (\A v \in Runs : RunGood(v)) /\ run' \in [Runs -> RunState] /\ old' \subseteq Keys
              /\ (\A k \in wire' : KeyGood(k)) /\ (\A a \in answers' : AnswerGood(a))
  <2>1. PICK w \in Runs : RunStep(w)
    BY <1>11
  <2>2. UNCHANGED <<answers, old>> /\ (wire' \subseteq wire \/ (run[w].pc # "idle" /\ wire' \subseteq wire \union {KeyOf(w)}))
    BY <2>1 DEF RunStep, Claim, Ask, DontAsk, Answered, Unclear, RecordIssued, RecordRetry,
                RecordFailure, RunCrashes, stripe
  <2> HIDE DEF RunGood, KeyGood, AnswerGood
  <2>3. \A k \in wire' : KeyGood(k)
    BY <1>4, <1>7, <2>2
  <2>4. \A a \in answers' : AnswerGood(a)
    BY <1>5, <2>2
  <2>5. (\A v \in Runs : RunGood(v)) /\ run' \in [Runs -> RunState] /\ old' \subseteq Keys
    BY <1>10, <2>1, <2>2 DEF StripeOK
  <2> QED BY <2>3, <2>4, <2>5
<1>12. ASSUME UNCHANGED run /\ old' \subseteq Keys /\ wire' \subseteq wire
            /\ \A a \in answers' : a \in answers \/ AnswerGood(a)
       PROVE  /\ (\A v \in Runs : RunGood(v)) /\ run' \in [Runs -> RunState] /\ old' \subseteq Keys
              /\ (\A k \in wire' : KeyGood(k)) /\ (\A a \in answers' : AnswerGood(a))
  <2> HIDE DEF RunGood, KeyGood, AnswerGood
  <2>1. \A v \in Runs : RunGood(v)
    BY <1>6, <1>12
  <2> QED BY <1>4, <1>5, <1>12, <2>1 DEF RunsOK
<1>13. ASSUME NEW k \in wire, NEW says \in {"refused", "already"}
       PROVE  AnswerGood([key |-> k, says |-> says, refund |-> None])
  BY <1>4 DEF Answer
<1>14. ASSUME NEW k \in wire, NEW f \in StripeIds, NEW status \in {"pending", "succeeded"},
              MakeRefund(f, k[1], Gross, status), UNCHANGED row
       PROVE  AnswerGood([key |-> k, says |-> "made", refund |-> f])
  <2>1. k \in Keys /\ k[1] \in Rows /\ row[k[1]].status # "none" /\ row'[k[1]].status # "none"
    BY <1>4 DEF Keys, AskedForRows
  <2>2. Gross \in 0 .. Gross
    BY RefundAmounts
  <2>3. MadeThen(f, k[1])
    BY <1>14, <2>1, <2>2, MakeRefundMoves
  <2> QED BY <2>1, <2>3 DEF Answer
<1>15. ASSUME StripeStep
       PROVE  /\ (\A v \in Runs : RunGood(v)) /\ run' \in [Runs -> RunState] /\ old' \subseteq Keys
              /\ (\A k \in wire' : KeyGood(k)) /\ (\A a \in answers' : AnswerGood(a))
  <2> HIDE DEF AnswerGood
  <2>1. UNCHANGED <<run, old>> /\ wire' \subseteq wire
    BY <1>15 DEF StripeStep, StripeMakes, StripeRefuses, RequestLost, StripeForgets, StripeMoves,
                 Dashboard, ours, sweep
  <2>2. ASSUME NEW k \in wire, StripeMakes(k)
        PROVE  \A a \in answers' : a \in answers \/ AnswerGood(a)
    BY <1>14, <2>2 DEF StripeMakes, ours
  <2>3. ASSUME NEW k \in wire, StripeRefuses(k)
        PROVE  \A a \in answers' : a \in answers \/ AnswerGood(a)
    BY <1>13, <2>3 DEF StripeRefuses
  <2>4. ASSUME \/ \E k \in wire : RequestLost(k)
               \/ \E a \in answers : StripeForgets(a)
               \/ \E f \in StripeIds, status \in Final : StripeMoves(f, status)
               \/ Dashboard
        PROVE  answers' \subseteq answers
    BY <2>4 DEF RequestLost, StripeForgets, StripeMoves, Dashboard
  <2>5. \A a \in answers' : a \in answers \/ AnswerGood(a)
    BY <1>15, <2>2, <2>3, <2>4 DEF StripeStep
  <2> QED BY <1>12, <2>1, <2>5 DEF StripeOK
<1>16. ASSUME NEW r \in Rows, RowStep(r) \/ \E n \in 0 .. row[r].seq : KeyGetsOld(r, n)
       PROVE  UNCHANGED <<run, wire, answers>> /\ old' \subseteq Keys
  <2>1. row[r].seq \in Nat
    BY DEF RefundRow
  <2>2. CASE RowStep(r)
    BY <2>2 DEF RowStep, LeaseRunsOut, WaitEnds, ReadAgain, sweep, stripe, StripeOK
  <2>3. ASSUME NEW n \in 0 .. row[r].seq, KeyGetsOld(r, n)
        PROVE  UNCHANGED <<run, wire, answers>> /\ old' \subseteq Keys
    <3>1. <<r, n>> \in Keys
      BY <2>1 DEF Keys
    <3> QED BY <2>3, <3>1 DEF KeyGetsOld, sweep, StripeOK
  <2> QED BY <1>16, <2>2, <2>3
<1>17. ASSUME \/ Withdraw \/ FraudWarning \/ Dispute \/ SettlementBegins \/ SettlementCommits
              \/ EventStep \/ ApplyReading \/ ReadingFails \/ SessionNears \/ Tick
              \/ UNCHANGED vars
       PROVE  /\ (\A v \in Runs : RunGood(v)) /\ run' \in [Runs -> RunState] /\ old' \subseteq Keys
              /\ (\A k \in wire' : KeyGood(k)) /\ (\A a \in answers' : AnswerGood(a))
  <2>1. UNCHANGED <<run, wire, answers, old>>
    BY <1>17 DEF Withdraw, FraudWarning, Dispute, SettlementBegins, SettlementCommits, EventStep,
                 HoldCommits, RefundEvent, HoldBegins, ApplyReading, ReadingFails, SessionNears,
                 Tick, vars, sweep, stripe
  <2> QED BY <1>12, <2>1 DEF StripeOK
<1>18. /\ \A v \in Runs : RunGood(v)
       /\ run' \in [Runs -> RunState] /\ old' \subseteq Keys
       /\ \A k \in wire' : KeyGood(k)
       /\ \A a \in answers' : AnswerGood(a)
  <2> HIDE DEF RunGood, KeyGood, AnswerGood
  <2> QED BY <1>11, <1>12, <1>15, <1>16, <1>17 DEF Next
<1>19. RunsOK' /\ StripeOK'
  BY <1>1, <1>18 DEF RunsOK, StripeOK
<1>20. AskedForRows'
  <2>1. \A k \in wire' : row'[k[1]].status # "none"
    BY <1>18
  <2>2. \A a \in answers' : /\ row'[a.key[1]].status # "none"
                            /\ a.says = "made" => Made(a.refund, a.key[1])'
    BY <1>18 DEF Made
  <2>3. \A w \in Runs : /\ run'[w].pc # "idle" => row'[run'[w].row].status # "none"
                        /\ run'[w].says = "made" => Made(run[w].refund, run[w].row)'
    BY <1>18 DEF Made
  <2>4. (\A k \in wire : row[k[1]].status # "none")'
    BY <2>1
  <2>5. (\A a \in answers : /\ row[a.key[1]].status # "none"
                            /\ a.says = "made" => Made(a.refund, a.key[1]))'
    BY <2>2
  <2>6. (\A w \in Runs : /\ run[w].pc # "idle" => row[run[w].row].status # "none"
                         /\ run[w].says = "made" => Made(run[w].refund, run[w].row))'
    BY <2>3
  <2>7. (\A f \in StripeIds : /\ money[f].row # None => row[money[f].row].status # "none"
                              /\ money[f].status # "none" => money[f].made # "none")'
    BY <1>3
  <2> QED BY <2>4, <2>5, <2>6, <2>7 DEF AskedForRows, Made
<1> QED BY <1>19, <1>20

\* Stripe speaks of refunds it has made.
LEMMA SentMoves ==
    ASSUME RefundInv, [Next]_vars
    PROVE  sent \subseteq sent' /\ sent' \subseteq Events /\ \A e \in sent' : money'[e.refund].status # "none"
<1> USE DEF RefundInv, TypeOK, EventsOK
<1> DEFINE Goal == /\ sent \subseteq sent' /\ sent' \subseteq Events
                   /\ \A e \in sent' : money'[e.refund].status # "none"
<1>1. \A e \in sent : e \in Events /\ money'[e.refund].status # "none"
  BY MoneyMoves, MoneyMoveKeeps DEF MoneyKept, KnownToStripe, Events
<1>2. ASSUME NEW f \in StripeIds, NEW status \in RefundStatus, money'[f].status # "none",
             sent' = sent \union {[refund |-> f, status |-> status, at |-> EventMoment]}
      PROVE  Goal
  <2> DEFINE e == [refund |-> f, status |-> status, at |-> EventMoment]
  <2>1. EventMoment \in Moments
    BY RefundAmounts DEF EventMoment, Moments
  <2>2. e \in Events /\ e.refund = f
    BY <2>1 DEF Events
  <2> HIDE DEF e
  <2>3. sent' = sent \union {e}
    BY <1>2 DEF e
  <2> QED BY <1>1, <1>2, <2>2, <2>3
<1>3. ASSUME sent' = sent PROVE Goal
  BY <1>1, <1>3
<1> HIDE DEF Goal
<1>4. ASSUME NEW k \in wire, StripeMakes(k)
      PROVE  Goal
  <2>1. k[1] \in Rows /\ row[k[1]].status # "none" /\ Gross \in 0 .. Gross
    BY RefundAmounts DEF StripeOK, Keys, AskedForRows
  <2>2. PICK f \in StripeIds, status \in {"pending", "succeeded"} : MakeRefund(f, k[1], Gross, status)
    BY <1>4 DEF StripeMakes
  <2>3. /\ sent' = sent \union {[refund |-> f, status |-> status, at |-> EventMoment]}
        /\ money'[f].status # "none" /\ status \in RefundStatus
    BY <1>4, <2>1, <2>2, MakeRefundMoves DEF StripeMakes, ours, RefundStatus
  <2> QED BY <1>2, <2>3
<1>5. ASSUME Dashboard PROVE Goal
  <2>1. PICK f \in StripeIds, amount \in 1 .. Gross, status \in {"pending", "succeeded"} :
           MakeRefund(f, None, amount, status)
    BY <1>5 DEF Dashboard
  <2>2. /\ sent' = sent \union {[refund |-> f, status |-> status, at |-> EventMoment]}
        /\ money'[f].status # "none" /\ status \in RefundStatus
    BY <1>5, <2>1, MakeRefundMoves DEF Dashboard, ours, RefundStatus
  <2> QED BY <1>2, <2>2
<1>6. ASSUME NEW f \in StripeIds, NEW status \in Final, StripeMoves(f, status)
      PROVE  Goal
  <2>1. money'[f].status = status
    BY <1>6 DEF StripeMoves, StripeOK
  <2>2. /\ sent' = sent \union {[refund |-> f, status |-> status, at |-> EventMoment]}
        /\ money'[f].status # "none" /\ status \in RefundStatus
    BY <1>6, <2>1 DEF StripeMoves, News, Final, RefundStatus
  <2> QED BY <1>2, <2>2
<1>7. ASSUME \/ \E k \in wire : StripeRefuses(k) \/ RequestLost(k)
             \/ \E a \in answers : StripeForgets(a)
      PROVE  Goal
  BY <1>3, <1>7 DEF StripeRefuses, RequestLost, StripeForgets
<1>8. ASSUME NEW w \in Runs, RunStep(w)
      PROVE  Goal
  BY <1>3, <1>8 DEF RunStep, Claim, Ask, DontAsk, Answered, Unclear, RecordIssued, RecordRetry,
                    RecordFailure, RunCrashes, stripe
<1>9. ASSUME NEW r \in Rows, RowStep(r) \/ \E n \in 0 .. row[r].seq : KeyGetsOld(r, n)
      PROVE  Goal
  BY <1>3, <1>9 DEF RowStep, LeaseRunsOut, WaitEnds, ReadAgain, KeyGetsOld, stripe
<1>10. ASSUME \/ Withdraw \/ FraudWarning \/ Dispute \/ SettlementBegins \/ SettlementCommits
              \/ EventStep \/ ApplyReading \/ ReadingFails \/ SessionNears \/ Tick
              \/ UNCHANGED vars
       PROVE  Goal
  BY <1>3, <1>10 DEF Withdraw, FraudWarning, Dispute, SettlementBegins, SettlementCommits, EventStep,
                     HoldCommits, RefundEvent, HoldBegins, ApplyReading, ReadingFails, SessionNears,
                     Tick, vars, stripe
<1>11. Goal
  BY <1>4, <1>5, <1>6, <1>7, <1>8, <1>9, <1>10 DEF Next, StripeStep
<1> QED BY <1>11 DEF Goal

\* What is held, and what the settlement and a reading took, came from Stripe.
HeldMove ==
    /\ held' \in [StripeIds -> {None} \union Word] /\ taken' \in [StripeIds -> {None} \union Word]
    /\ \A f \in StripeIds : held'[f] # None =>
          \/ held[f] # None /\ held'[f] = held[f]
          \/ holding # None /\ holding.refund = f /\ held'[f].status = holding.status
    /\ \A f \in StripeIds : taken'[f] # None =>
          \/ taken[f] # None /\ taken'[f] = taken[f]
          \/ held[f] # None /\ taken'[f] = held[f]
    /\ holding' \in sent \union {None} /\ handled' \subseteq sent
    /\ reading' # None => /\ reading' \in [refund : StripeIds, status : RefundStatus]
                          /\ money[reading'.refund].status # "none"
                          /\ \/ reading # None /\ reading' = reading
                             \/ reading'.status = money[reading'.refund].status
    /\ now' \in 0 .. MaxNow

\* Every step is such a move.
LEMMA HeldMoves ==
    ASSUME RefundInv, [Next]_vars
    PROVE  HeldMove
<1> USE DEF RefundInv, TypeOK, EventsOK
<1>1. ASSUME UNCHANGED <<held, handled, taken, holding, reading, now>>
      PROVE  HeldMove
  BY <1>1 DEF HeldMove, KnownToStripe
<1>2. ASSUME UNCHANGED <<held, handled, taken, holding, now>>, reading' = None
      PROVE  HeldMove
  BY <1>2 DEF HeldMove
<1>3. CASE Withdraw \/ FraudWarning \/ Dispute
  BY <1>1, <1>3 DEF Withdraw, FraudWarning, Dispute, sweep
<1>4. CASE SettlementBegins
  BY <1>4 DEF SettlementBegins, sweep, HeldMove, KnownToStripe
<1>5. CASE SettlementCommits
  <2>1. /\ held' \in [StripeIds -> {None} \union Word] /\ taken' \in [StripeIds -> {None} \union Word]
        /\ \A f \in StripeIds : held'[f] # None => held[f] # None /\ held'[f] = held[f]
        /\ \A f \in StripeIds : taken'[f] = None
    BY <1>5 DEF SettlementCommits
  <2> QED BY <1>5, <2>1 DEF SettlementCommits, sweep, HeldMove, KnownToStripe
<1>6. ASSUME NEW w \in Runs, RunStep(w)
      PROVE  HeldMove
  BY <1>1, <1>6 DEF RunStep, Claim, Ask, DontAsk, Answered, Unclear, RecordIssued, RecordRetry,
                    RecordFailure, RunCrashes, ours
<1>7. ASSUME NEW r \in Rows, RowStep(r) \/ \E n \in 0 .. row[r].seq : KeyGetsOld(r, n)
      PROVE  HeldMove
  <2>1. CASE ReadAgain(r)
    <3>1. row[r].refund \in StripeIds /\ money[row[r].refund].status \in RefundStatus
      BY <2>1 DEF ReadAgain, Quiet, RefundRow, KnownToStripe, StripeOK, StripeRefund
    <3>2. /\ reading' \in [refund : StripeIds, status : RefundStatus]
          /\ money[reading'.refund].status # "none"
          /\ reading'.status = money[reading'.refund].status
      BY <2>1, <3>1 DEF ReadAgain, RefundStatus
    <3> QED BY <2>1, <3>2 DEF ReadAgain, ours, HeldMove
  <2>2. CASE LeaseRunsOut(r) \/ WaitEnds(r) \/ \E n \in 0 .. row[r].seq : KeyGetsOld(r, n)
    BY <1>1, <2>2 DEF LeaseRunsOut, WaitEnds, KeyGetsOld, ours, sweep
  <2> QED BY <1>7, <2>1, <2>2 DEF RowStep
<1>8. CASE ApplyReading \/ ReadingFails
  BY <1>2, <1>8 DEF ApplyReading, ReadingFails, ours
<1>9. CASE HoldCommits
  <2>1. /\ holding \in sent /\ holding.refund \in StripeIds
        /\ [status |-> holding.status, at |-> holding.at] \in Word
    BY <1>9 DEF HoldCommits, Events, Word
  <2>2. /\ Newest(holding) \in {None} \union Word
        /\ Newest(holding) = held[holding.refund] \/ Newest(holding).status = holding.status
    BY <2>1 DEF Newest
  <2>3. \A f \in StripeIds : held'[f] = IF f = holding.refund THEN Newest(holding) ELSE held[f]
    BY <1>9, <2>1 DEF HoldCommits
  <2>4. held' \in [StripeIds -> {None} \union Word]
    BY <1>9, <2>1, <2>2 DEF HoldCommits
  <2>5. ASSUME NEW f \in StripeIds, held'[f] # None
        PROVE  \/ held[f] # None /\ held'[f] = held[f]
               \/ holding # None /\ holding.refund = f /\ held'[f].status = holding.status
    BY <1>9, <2>2, <2>3, <2>5 DEF HoldCommits
  <2> QED BY <1>9, <2>1, <2>4, <2>5 DEF HoldCommits, sweep, HeldMove, KnownToStripe
<1>10. ASSUME NEW e \in sent, RefundEvent(e) \/ HoldBegins(e)
       PROVE  HeldMove
  BY <1>10 DEF RefundEvent, HoldBegins, sweep, HeldMove, KnownToStripe
<1>11. CASE StripeStep \/ SessionNears \/ UNCHANGED vars
  BY <1>1, <1>11 DEF StripeStep, StripeMakes, StripeRefuses, RequestLost, StripeForgets, StripeMoves,
                     Dashboard, SessionNears, vars, ours, sweep
<1>12. CASE Tick
  BY <1>12, RefundAmounts DEF Tick, ours, sweep, HeldMove, KnownToStripe
<1> QED BY <1>3, <1>4, <1>5, <1>6, <1>7, <1>8, <1>9, <1>10, <1>11, <1>12 DEF Next, EventStep

\* So the events and what was heard of them keep their shape, and name
\* refunds that were made.
LEMMA StillKnown ==
    ASSUME RefundInv, [Next]_vars
    PROVE  EventsOK' /\ KnownToStripe'
<1> USE DEF RefundInv, TypeOK, EventsOK
<1>1. /\ sent \subseteq sent' /\ sent' \subseteq Events
      /\ \A e \in sent' : money'[e.refund].status # "none"
  BY SentMoves
<1>2. HeldMove /\ RowMove /\ MoneyKept
  BY HeldMoves, EveryMove, MoneyMoves, MoneyMoveKeeps
<1>3. EventsOK'
  BY <1>1, <1>2 DEF HeldMove, RowMove, Settles
<1>4. \A f \in StripeIds : money[f].status # "none" => money'[f].status # "none"
  BY <1>2 DEF MoneyKept
<1>5. holding # None => money[holding.refund].status # "none"
  BY DEF KnownToStripe
<1>6. \A f \in StripeIds : held'[f] # None \/ taken'[f] # None => money'[f].status # "none"
  BY <1>2, <1>4, <1>5 DEF HeldMove, KnownToStripe
<1>7. reading' # None => money'[reading'.refund].status # "none"
  BY <1>2, <1>4 DEF HeldMove
<1>8. \A r \in Rows : row'[r].refund # None => money'[row'[r].refund].status # "none"
  <2>1. \A r \in Rows : row[r].refund # None => money'[row[r].refund].status # "none"
    BY <1>4 DEF KnownToStripe, RefundRow
  <2>2. ASSUME NEW r \in Rows, NEW x \in RefundRow, row' = [row EXCEPT ![r] = x],
               Opens(r, x) \/ Keeps(r, x) \/ Carries(r, x), NEW q \in Rows, row'[q].refund # None
        PROVE  money'[row'[q].refund].status # "none"
    <3>1. row'[q] = IF q = r THEN x ELSE row[q]
      BY <2>2
    <3> QED BY <1>4, <2>1, <2>2, <3>1 DEF Opens, Keeps, Carries
  <2>3. ASSUME Settles, NEW q \in Rows, row'[q].refund # None
        PROVE  money'[row'[q].refund].status # "none"
    BY <1>4, <2>3 DEF Settles, HeldRefunds, KnownToStripe, NoRow
  <2> QED BY <1>2, <2>1, <2>2, <2>3 DEF RowMove
<1> QED BY <1>1, <1>3, <1>6, <1>7, <1>8 DEF KnownToStripe

\* What is held stays held until the settlement takes it, and what is newly
\* acknowledged has reached a row or is held.
HeardMove ==
    /\ settling = "before" /\ settling' = "before" =>
          \A f \in StripeIds : held[f] # None => held'[f] # None
    /\ settling = "before" /\ settling' = "open" => taken' = held
    /\ settling = "open" /\ settling' = "open" => taken' = taken
    /\ \A e \in handled' \ handled :
          \/ \E r \in Rows : row'[r].refund = e.refund
          \/ settling' = "before" /\ held'[e.refund] # None

\* Every step is such a move.
LEMMA HeardMoves ==
    ASSUME RefundInv, [Next]_vars
    PROVE  HeardMove
<1> USE DEF RefundInv, TypeOK, EventsOK
<1>1. ASSUME UNCHANGED <<held, handled, taken, settling>>
      PROVE  HeardMove
  BY <1>1 DEF HeardMove
<1>2. CASE Withdraw \/ FraudWarning \/ Dispute
  BY <1>1, <1>2 DEF Withdraw, FraudWarning, Dispute
<1>3. CASE SettlementBegins \/ SettlementCommits
  BY <1>3 DEF SettlementBegins, SettlementCommits, HeardMove
<1>4. ASSUME NEW w \in Runs, RunStep(w)
      PROVE  HeardMove
  BY <1>1, <1>4 DEF RunStep, Claim, Ask, DontAsk, Answered, Unclear, RecordIssued, RecordRetry,
                    RecordFailure, RunCrashes, ours
<1>5. ASSUME NEW r \in Rows, RowStep(r) \/ \E n \in 0 .. row[r].seq : KeyGetsOld(r, n)
      PROVE  HeardMove
  BY <1>1, <1>5 DEF RowStep, LeaseRunsOut, WaitEnds, ReadAgain, KeyGetsOld, ours
<1>6. CASE ApplyReading \/ ReadingFails
  BY <1>1, <1>6 DEF ApplyReading, ReadingFails, ours
<1>7. CASE HoldCommits
  <2>1. /\ holding \in sent /\ holding.refund \in StripeIds
        /\ [status |-> holding.status, at |-> holding.at] \in Word
    BY <1>7 DEF HoldCommits, Events, Word
  <2>2. Newest(holding) # None
    BY <2>1, NullIsNothing DEF Newest
  <2>3. \A f \in StripeIds : held'[f] = IF f = holding.refund THEN Newest(holding) ELSE held[f]
    BY <1>7, <2>1 DEF HoldCommits
  <2>4. settling = "before" /\ settling' = "before" /\ handled' = handled \union {holding}
    BY <1>7 DEF HoldCommits, Beginning
  <2> QED BY <2>1, <2>2, <2>3, <2>4 DEF HeardMove
<1>8. ASSUME NEW e \in sent, RefundEvent(e)
      PROVE  HeardMove
  <2>1. \E r \in Rows : row'[r].refund = e.refund
    BY <1>8, NewsMoves DEF EventStep
  <2>2. UNCHANGED <<held, settling, taken>> /\ handled' = handled \union {e}
    BY <1>8 DEF RefundEvent
  <2> QED BY <2>1, <2>2 DEF HeardMove
<1>9. ASSUME NEW e \in sent, HoldBegins(e)
      PROVE  HeardMove
  BY <1>1, <1>9 DEF HoldBegins
<1>10. CASE StripeStep \/ SessionNears \/ Tick \/ UNCHANGED vars
  BY <1>1, <1>10 DEF StripeStep, StripeMakes, StripeRefuses, RequestLost, StripeForgets, StripeMoves,
                     Dashboard, SessionNears, Tick, vars, ours
<1> QED BY <1>2, <1>3, <1>4, <1>5, <1>6, <1>7, <1>8, <1>9, <1>10 DEF Next, EventStep

\* An event heard is on a row, or held for the settlement that will write it.
LEMMA StillHeard ==
    ASSUME RefundInv, [Next]_vars
    PROVE  HeardIsRecorded'
<1> USE DEF RefundInv, TypeOK, EventsOK
<1>1. RowMove /\ RowsKept /\ HeardMove
  BY EveryMove, RowMoveKeeps, HeardMoves
<1>2. ASSUME NEW e \in handled
      PROVE  \/ \E r \in Rows : row'[r].refund = e.refund
             \/ settling' = "before" /\ held'[e.refund] # None
             \/ settling' = "open" /\ taken'[e.refund] # None
  <2>1. e.refund \in StripeIds /\ e.refund # None
    BY RefundPools DEF Events
  <2>2. CASE \E r \in Rows : row[r].refund = e.refund
    BY <1>1, <2>1, <2>2 DEF RowsKept
  <2>3. CASE settling = "before" /\ held[e.refund] # None
    BY <1>1, <2>1, <2>3 DEF RowMove, Settles, HeardMove
  <2>4. CASE settling = "open" /\ taken[e.refund] # None
    BY <1>1, <2>1, <2>4 DEF RowMove, Settles, HeardMove, HeldRefunds
  <2> QED BY <2>2, <2>3, <2>4 DEF HeardIsRecorded
<1> QED BY <1>1, <1>2 DEF HeardMove, HeardIsRecorded

(***************************************************************************)
(* The invariant, and what follows from it.                                *)
(***************************************************************************)

\* It holds at first,
LEMMA InitRefund == Init => RefundInv
<1> SUFFICES ASSUME Init PROVE RefundInv
  OBVIOUS
<1> USE DEF Init
<1>1. NoRow \in RefundRow /\ NoRow.status = "none" /\ NoRow.refund = None /\ NoRow.at = None
  BY RefundAmounts DEF NoRow, RefundRow, RowStatus, Origin
<1>2. NoRefund \in StripeRefund /\ NoRefund.status = "none" /\ NoRefund.row = None
  BY RefundAmounts DEF NoRefund, StripeRefund, Moments
<1>3. Idle \in RunState /\ Idle.pc = "idle" /\ Idle.says = "nothing"
  BY DEF Idle, RunState
<1>4. TypeOK
  <2>1. OrderOK
    BY DEF OrderOK
  <2>2. row \in [Rows -> RefundRow]
    BY <1>1
  <2>3. EventsOK
    BY RefundAmounts DEF EventsOK
  <2>4. RunsOK
    BY <1>3 DEF RunsOK
  <2>5. StripeOK
    BY <1>2 DEF StripeOK
  <2> QED BY <2>1, <2>2, <2>3, <2>4, <2>5 DEF TypeOK
<1>5. Beginning /\ NamesWhatItHeard /\ HeardIsRecorded
  BY <1>1 DEF Beginning, NamesWhatItHeard, HeardIsRecorded
<1>6. AskedForRows /\ KnownToStripe /\ CarriedAtHome
  BY <1>1, <1>2, <1>3, RefundPools DEF AskedForRows, KnownToStripe, CarriedAtHome
<1>7. OpenRowHoldsNoRefund /\ OneRowPerRefund
  BY <1>1 DEF OpenRowHoldsNoRefund, OneRowPerRefund
<1> QED BY <1>4, <1>5, <1>6, <1>7 DEF RefundInv

\* and every step preserves it.
LEMMA RefundStep == RefundInv /\ [Next]_vars => RefundInv'
<1> SUFFICES ASSUME RefundInv, [Next]_vars PROVE RefundInv'
  OBVIOUS
<1>1. RowMove /\ OrderMove /\ MoneyMove /\ row' \in [Rows -> RefundRow]
  BY EveryMove, MoneyMoves, RowMoveKeeps
<1>2. RunsOK' /\ StripeOK' /\ AskedForRows' /\ EventsOK' /\ KnownToStripe'
  BY StillAsked, StillKnown
<1>3. TypeOK'
  BY <1>1, <1>2 DEF TypeOK, OrderMove
<1>4. OpenRowHoldsNoRefund' /\ OneRowPerRefund' /\ NamesWhatItHeard' /\ CarriedAtHome'
  BY <1>1, RowsHold, StillCarriedAtHome
<1>5. Beginning' /\ HeardIsRecorded'
  BY StillBeginning, StillHeard
<1> QED BY <1>2, <1>3, <1>4, <1>5 DEF RefundInv

\* The strengthened invariant holds in every reachable state of Refunds.
THEOREM RefundAlways == Spec => []RefundInv
BY InitRefund, RefundStep, PTL DEF Spec

\* The rows, the runs and Stripe's records keep their shape (schema of refunds,
\* ClaimedRefund in refunds.ts).
THEOREM RefundTypes == Spec => []TypeOK
<1>1. RefundInv => TypeOK
  BY DEF RefundInv
<1> QED BY <1>1, RefundAlways, PTL

\* A row that would be asked for again holds no refund: recordRefundIssued and
\* applyRefundEvent never leave an id on a row still due or claimed, even when
\* the claim has run out and another run has the row.
THEOREM OpenRowsHoldNone == Spec => []OpenRowHoldsNoRefund
<1>1. RefundInv => OpenRowHoldsNoRefund
  BY DEF RefundInv
<1> QED BY <1>1, RefundAlways, PTL

\* No two rows carry one refund, whichever comes first, the answer to the
\* request or the event about it: the unique index on the refund's id never
\* refuses a write of recordRefundIssued, applyRefundEvent or the settlement.
THEOREM OneRowEach == Spec => []OneRowPerRefund
<1>1. RefundInv => OneRowPerRefund
  BY DEF RefundInv
<1> QED BY <1>1, RefundAlways, PTL

\* An event Stripe was told is taken care of is not forgotten, however it and
\* the settlement overlap (handleRefundEvent, holdRefundEvent, applyHeldRefunds).
THEOREM HeardStaysRecorded == Spec => []HeardIsRecorded
<1>1. RefundInv => HeardIsRecorded
  BY DEF RefundInv
<1> QED BY <1>1, RefundAlways, PTL

(***************************************************************************)
(* What a step leaves of a row, as its claim and its origin go.            *)
(***************************************************************************)

\* A refund the application itself came to owe.
Ours(r) == row[r].origin \in {"withdrawal", "fraud_warning"}

\* Nobody's claim on the row is disturbed.
SameClaim(r) ==
    /\ row'[r].seq = row[r].seq /\ row'[r].attempts = row[r].attempts
    /\ row'[r].status = "due" => row[r].status = "due"
    /\ row'[r].status = "issuing" /\ row'[r].lapsed => row[r].status = "issuing" /\ row[r].lapsed

\* No refund of ours is added, and a session cancelled stays so.
NoneOfOurs ==
    /\ \A r \in Rows : Ours(r)' => Ours(r)
    /\ session = "cancelled" => session' = "cancelled"

\* Or one is, and its session is cancelled with it.
OneOfOurs ==
    /\ session # "cancelled" /\ session' = "cancelled"
    /\ \E r \in Rows : \A q \in Rows \ {r} : row'[q] = row[q]

\* Stripe's word on a refund disturbs no claim and adds none of ours.
LEMMA ApplyKeeps ==
    ASSUME row \in [Rows -> RefundRow], NEW f, NEW status \in RefundStatus, NEW at, Apply(f, status, at)
    PROVE  NoneOfOurs /\ \A r \in Rows : row[r].status # "none" => SameClaim(r)
<1>1. CASE RowsOf(f) = {}
  <2> DEFINE x == FromDashboard(f, status, at)
  <2>1. PICK r \in Rows : FreshRow(r) /\ Save([row EXCEPT ![r] = x])
    BY <1>1 DEF Apply
  <2>2. x.origin = "processor"
    BY DEF FromDashboard, NoRow
  <2> HIDE DEF x
  <2>3. /\ row[r].status = "none" /\ row'[r] = x
        /\ \A q \in Rows \ {r} : row'[q] = row[q]
        /\ session = "cancelled" => session' = "cancelled"
    BY <2>1 DEF Save, FreshRow
  <2> QED BY <2>2, <2>3 DEF NoneOfOurs, Ours, SameClaim
<1>2. CASE RowsOf(f) # {}
  <2>1. CASE UNCHANGED <<row, order, session>>
    BY <2>1 DEF NoneOfOurs, Ours, SameClaim
  <2>2. CASE ~UNCHANGED <<row, order, session>>
    <3>1. PICK r \in RowsOf(f) : Save(Told(r, f, status, at))
      BY <1>2, <2>2 DEF Apply
    <3>2. r \in Rows
      BY DEF RowsOf
    <3>3. session = "cancelled" => session' = "cancelled"
      BY <3>1 DEF Save
    <3>4. CASE row' = row
      BY <3>3, <3>4 DEF NoneOfOurs, Ours, SameClaim
    <3>5. CASE row' = [row EXCEPT ![r].refund = f, ![r].status = status, ![r].at = at,
                                  ![r].lapsed = FALSE, ![r].waiting = FALSE]
      <4>1. \A q \in Rows \ {r} : row'[q] = row[q]
        BY <3>2, <3>5
      <4>2. row'[r] = [row[r] EXCEPT !.refund = f, !.status = status, !.at = at,
                                     !.lapsed = FALSE, !.waiting = FALSE]
        BY <3>2, <3>5
      <4>3. row[r] \in RefundRow
        BY <3>2
      <4>4. /\ row'[r].seq = row[r].seq /\ row'[r].attempts = row[r].attempts
            /\ row'[r].origin = row[r].origin /\ row'[r].status = status
        BY <4>2, <4>3 DEF RefundRow
      <4>5. status \notin {"due", "issuing"}
        BY DEF RefundStatus
      <4> QED BY <3>2, <3>3, <4>1, <4>4, <4>5 DEF NoneOfOurs, Ours, SameClaim
    <3> QED BY <3>1, <3>4, <3>5 DEF Save, Told
  <2> QED BY <2>1, <2>2
<1> QED BY <1>1, <1>2

\* What a refund that comes to be owed leaves.
LEMMA OwedKeeps ==
    ASSUME RefundInv, Withdraw \/ FraudWarning
    PROVE  NoneOfOurs \/ OneOfOurs
<1>1. CASE Withdraw
  <2>1. PICK r \in Rows : row' = [row EXCEPT ![r] = Due("withdrawal")]
    BY <1>1 DEF Withdraw
  <2>2. session # "cancelled" /\ session' = "cancelled"
    BY <1>1 DEF Withdraw
  <2> QED BY <2>1, <2>2 DEF OneOfOurs, RefundInv, TypeOK
<1>2. CASE FraudWarning
  <2>1. CASE row' = row /\ session' = session
    BY <2>1 DEF NoneOfOurs, Ours
  <2>2. CASE ~(row' = row /\ session' = session)
    <3>1. Refundable /\ session' = "cancelled"
      BY <1>2, <2>2 DEF FraudWarning
    <3>2. \E r \in Rows : row' = [row EXCEPT ![r] = Due("fraud_warning")]
      BY <1>2, <2>2 DEF FraudWarning
    <3>3. session # "cancelled"
      BY <3>1 DEF Refundable
    <3> QED BY <3>1, <3>2, <3>3 DEF OneOfOurs, RefundInv, TypeOK
  <2> QED BY <2>1, <2>2
<1> QED BY <1>1, <1>2

\* Nor does either disturb a claim.
LEMMA OwedDisturbsNone ==
    ASSUME RefundInv, Withdraw \/ FraudWarning, NEW r \in Rows, row[r].status # "none"
    PROVE  SameClaim(r)
<1>1. \/ row' = row
      \/ \E q \in Rows : \E x : FreshRow(q) /\ row' = [row EXCEPT ![q] = x]
  BY DEF Withdraw, FraudWarning
<1>2. row'[r] = row[r]
  BY <1>1 DEF FreshRow, RefundInv, TypeOK
<1> QED BY <1>2 DEF SameClaim

\* A run's steps touch its own row, if any.
LEMMA RunTouches ==
    ASSUME RefundInv, NEW w \in Runs, RunStep(w)
    PROVE  /\ NoneOfOurs
           /\ \/ \E r \in Rows : Claim(w, r) /\ \A q \in Rows \ {r} : row'[q] = row[q]
              \/ row' = row
              \/ /\ run[w].pc # "idle" /\ run' = [run EXCEPT ![w] = Idle] /\ UNCHANGED stripe
                 /\ \A q \in Rows \ {run[w].row} : row'[q] = row[q]
                 /\ row'[run[w].row].seq = row[run[w].row].seq
                    \/ (run[w].pc = "answered" /\ run[w].says = "refused")
<1> USE DEF RefundInv, TypeOK
<1>1. ASSUME NEW r \in Rows, Claim(w, r)
      PROVE  NoneOfOurs /\ \A q \in Rows \ {r} : row'[q] = row[q]
  <2>1. row' = [row EXCEPT ![r] = [row[r] EXCEPT !.status = "issuing", !.lapsed = FALSE,
                  !.waiting = FALSE, !.attempts = @ + 1, !.used = TRUE]]
    BY <1>1 DEF Claim
  <2>2. row'[r].origin = row[r].origin
    BY <2>1 DEF RefundRow
  <2> QED BY <1>1, <2>1, <2>2 DEF Claim, NoneOfOurs, Ours
<1>2. CASE Ask(w) \/ Answered(w) \/ Unclear(w) \/ RunCrashes(w)
  <2>1. row' = row /\ session' = session
    BY <1>2 DEF Ask, Answered, Unclear, RunCrashes, ours
  <2> QED BY <2>1 DEF NoneOfOurs, Ours
<1> DEFINE r == run[w].row
<1>3. ASSUME r \in Rows, NEW x, row' = row \/ row' = [row EXCEPT ![r] = x], x.origin = row[r].origin,
             session = "cancelled" => session' = "cancelled"
      PROVE  NoneOfOurs /\ \A q \in Rows \ {r} : row'[q] = row[q]
  BY <1>3 DEF NoneOfOurs, Ours
<1>4. CASE DontAsk(w) \/ RecordFailure(w)
  <2>1. PICK status \in {"superseded", "failed"} : Close(w, status)
    BY <1>4 DEF DontAsk, RecordFailure
  <2> DEFINE x == [row[r] EXCEPT !.status = status, !.lapsed = FALSE]
  <2>2. r \in Rows /\ row[r] \in RefundRow /\ run[w].pc # "idle"
    BY <1>4 DEF DontAsk, RecordFailure, RunsOK
  <2>3. x.origin = row[r].origin /\ x.seq = row[r].seq
    BY <2>2 DEF RefundRow
  <2>4. row' = row \/ row' = [row EXCEPT ![r] = x]
    BY <2>1, <2>2 DEF Close
  <2>5. session' = session /\ run' = [run EXCEPT ![w] = Idle] /\ UNCHANGED stripe
    BY <1>4, <2>1 DEF Close, DontAsk, RecordFailure
  <2> HIDE DEF x
  <2>6. NoneOfOurs /\ \A q \in Rows \ {r} : row'[q] = row[q]
    BY <1>3, <2>2, <2>3, <2>4, <2>5
  <2>7. row'[r].seq = row[r].seq
    BY <2>2, <2>3, <2>4
  <2> QED BY <2>2, <2>5, <2>6, <2>7
<1>5. CASE RecordRetry(w)
  <2> DEFINE moves == MovesOn(run[w].says)
             x == [row[r] EXCEPT !.status = "due", !.lapsed = FALSE, !.waiting = TRUE,
                                 !.seq = IF moves THEN @ + 1 ELSE @,
                                 !.used = IF moves THEN FALSE ELSE @]
  <2>1. r \in Rows /\ row[r] \in RefundRow /\ run[w].pc # "idle"
    BY <1>5 DEF RecordRetry, RunsOK
  <2>2. x.origin = row[r].origin /\ (~moves => x.seq = row[r].seq)
    BY <2>1 DEF RefundRow
  <2>3. row' = row \/ row' = [row EXCEPT ![r] = x]
    BY <1>5, <2>1 DEF RecordRetry, Retry
  <2>4. session' = session /\ run' = [run EXCEPT ![w] = Idle] /\ UNCHANGED stripe
    BY <1>5 DEF RecordRetry
  <2>5. moves => run[w].pc = "answered" /\ run[w].says = "refused"
    BY <1>5 DEF MovesOn, RecordRetry
  <2> HIDE DEF x, moves
  <2>6. NoneOfOurs /\ \A q \in Rows \ {r} : row'[q] = row[q]
    BY <1>3, <2>1, <2>2, <2>3, <2>4
  <2>7. row'[r].seq = row[r].seq \/ (run[w].pc = "answered" /\ run[w].says = "refused")
    BY <2>1, <2>2, <2>3, <2>5
  <2> QED BY <2>1, <2>4, <2>6, <2>7
<1>6. CASE RecordIssued(w)
  <2> DEFINE f == run[w].refund
             x == [row[r] EXCEPT !.refund = IF @ = None THEN f ELSE @,
                     !.status = IF @ \in {"issuing", "due"} THEN money[f].made ELSE @,
                     !.lapsed = FALSE, !.waiting = FALSE]
  <2>1. r \in Rows /\ row[r] \in RefundRow /\ run[w].pc # "idle"
    BY <1>6 DEF RecordIssued, RunsOK
  <2>2. x.origin = row[r].origin /\ x.seq = row[r].seq
    BY <2>1 DEF RefundRow
  <2>3. row' = [row EXCEPT ![r] = x] /\ (session = "cancelled" => session' = "cancelled")
    BY <1>6, <2>1 DEF RecordIssued, Save, Issued
  <2>4. run' = [run EXCEPT ![w] = Idle] /\ UNCHANGED stripe
    BY <1>6 DEF RecordIssued
  <2> HIDE DEF x
  <2>5. NoneOfOurs /\ \A q \in Rows \ {r} : row'[q] = row[q]
    BY <1>3, <2>1, <2>2, <2>3
  <2>6. row'[r].seq = row[r].seq
    BY <2>1, <2>2, <2>3
  <2> QED BY <2>1, <2>4, <2>5, <2>6
<1> QED BY <1>1, <1>2, <1>4, <1>5, <1>6 DEF RunStep

\* What the world's steps leave.
LEMMA OthersKeep ==
    ASSUME RefundInv, [Next]_vars, ~\E w \in Runs : RunStep(w)
    PROVE  /\ UNCHANGED run
           /\ NoneOfOurs \/ OneOfOurs
           /\ \A r \in Rows : row[r].status # "none" =>
                SameClaim(r) \/ (LeaseRunsOut(r) /\ \A q \in Rows \ {r} : row'[q] = row[q])
           /\ UNCHANGED stripe \/ StripeStep \/ \E r \in Rows, n \in Nat : KeyGetsOld(r, n)
<1> USE DEF RefundInv, TypeOK
<1> DEFINE Kept == /\ NoneOfOurs \/ OneOfOurs
                   /\ \A r \in Rows : row[r].status # "none" =>
                        SameClaim(r) \/ (LeaseRunsOut(r) /\ \A q \in Rows \ {r} : row'[q] = row[q])
           Goal == /\ Kept /\ UNCHANGED run
                   /\ UNCHANGED stripe \/ StripeStep \/ \E r \in Rows, n \in Nat : KeyGetsOld(r, n)
<1>1. ASSUME row' = row, session = "cancelled" => session' = "cancelled" PROVE Kept
  BY <1>1 DEF NoneOfOurs, Ours, SameClaim
<1>2. ASSUME Withdraw \/ FraudWarning PROVE Goal
  <2>1. Kept
    BY <1>2, OwedKeeps, OwedDisturbsNone
  <2> QED BY <1>2, <2>1 DEF Withdraw, FraudWarning, sweep
<1>3. ASSUME Dispute \/ SettlementBegins PROVE Goal
  <2>1. row' = row /\ (session = "cancelled" => session' = "cancelled")
    BY <1>3 DEF Dispute, SettlementBegins
  <2> QED BY <1>1, <1>3, <2>1 DEF Dispute, SettlementBegins, sweep
<1>4. ASSUME SettlementCommits PROVE Goal
  <2>1. \A r \in Rows : row[r].status = "none"
    BY <1>4 DEF SettlementCommits, Beginning
  <2>2. \A r \in Rows : row'[r].origin \in {"none", "processor"}
    <3>1. PICK place \in Injection(HeldRefunds, Rows) :
             row' = [r \in Rows |->
                        IF \E f \in HeldRefunds : place[f] = r
                        THEN LET f == CHOOSE f \in HeldRefunds : place[f] = r
                             IN  FromDashboard(f, taken[f].status, taken[f].at)
                        ELSE NoRow]
      BY <1>4, Zenon DEF SettlementCommits
    <3>2. /\ NoRow.origin = "none"
          /\ \A f, status, at : FromDashboard(f, status, at).origin = "processor"
      BY DEF FromDashboard, NoRow
    <3> QED BY <3>1, <3>2
  <2>3. session = "cancelled" => session' = "cancelled"
    BY <1>4 DEF SettlementCommits
  <2>4. UNCHANGED <<run, stripe>>
    BY <1>4 DEF SettlementCommits, sweep
  <2> QED BY <2>1, <2>2, <2>3, <2>4 DEF NoneOfOurs, Ours
<1>5. ASSUME NEW r \in Rows, RowStep(r)
      PROVE  Goal
  <2>1. CASE ReadAgain(r)
    BY <1>1, <2>1 DEF ReadAgain, ours
  <2>2. CASE LeaseRunsOut(r) \/ WaitEnds(r)
    <3>1. PICK x \in {[row[r] EXCEPT !.lapsed = TRUE], [row[r] EXCEPT !.waiting = FALSE]} :
             row' = [row EXCEPT ![r] = x]
      BY <2>2 DEF LeaseRunsOut, WaitEnds
    <3>2. x.origin = row[r].origin
      BY <3>1 DEF RefundRow
    <3>3. (\A q \in Rows \ {r} : row'[q] = row[q]) /\ row'[r] = x /\ session' = session
      BY <2>2, <3>1 DEF LeaseRunsOut, WaitEnds
    <3>4. NoneOfOurs
      BY <3>2, <3>3 DEF NoneOfOurs, Ours
    <3>5. WaitEnds(r) => SameClaim(r)
      <4> SUFFICES ASSUME WaitEnds(r) PROVE SameClaim(r)
        OBVIOUS
      <4>1. row'[r] = [row[r] EXCEPT !.waiting = FALSE] /\ row[r] \in RefundRow
        BY DEF WaitEnds
      <4> QED BY <4>1 DEF RefundRow, SameClaim
    <3> QED BY <2>2, <3>3, <3>4, <3>5 DEF LeaseRunsOut, WaitEnds, SameClaim, sweep
  <2> QED BY <1>5, <2>1, <2>2 DEF RowStep
<1>6. ASSUME NEW r \in Rows, NEW n \in 0 .. row[r].seq, KeyGetsOld(r, n)
      PROVE  Goal
  <2>1. row' = row /\ session' = session /\ run' = run
    BY <1>6 DEF KeyGetsOld, ours, sweep
  <2>2. row[r].seq \in Nat
    BY DEF RefundRow
  <2> QED BY <1>1, <1>6, <2>1, <2>2
<1>7. ASSUME ApplyReading PROVE Goal
  <2>1. reading.status \in RefundStatus /\ Apply(reading.refund, reading.status, OwnMoment)
    BY <1>7 DEF ApplyReading, EventsOK
  <2> QED BY <1>7, <2>1, ApplyKeeps DEF ApplyReading
<1>8. ASSUME NEW e \in sent, RefundEvent(e)
      PROVE  Goal
  <2>1. e.status \in RefundStatus /\ Apply(e.refund, e.status, e.at)
    BY <1>8 DEF RefundEvent, EventsOK, Events
  <2> QED BY <1>8, <2>1, ApplyKeeps DEF RefundEvent, sweep
<1>9. ASSUME \/ ReadingFails \/ HoldCommits \/ \E e \in sent : HoldBegins(e)
             \/ SessionNears \/ Tick \/ UNCHANGED vars
      PROVE  Goal
  <2>1. row' = row /\ (session = "cancelled" => session' = "cancelled") /\ UNCHANGED <<run, stripe>>
    BY <1>9 DEF ReadingFails, HoldCommits, HoldBegins, SessionNears, Tick, vars, ours, sweep
  <2> QED BY <1>1, <2>1
<1>10. ASSUME StripeStep PROVE Goal
  <2>1. row' = row /\ session' = session /\ run' = run
    BY <1>10 DEF StripeStep, StripeMakes, StripeRefuses, RequestLost, StripeForgets, StripeMoves,
                 Dashboard, ours, sweep
  <2> QED BY <1>1, <1>10, <2>1
<1> HIDE DEF Goal
<1>11. Goal
  BY <1>2, <1>3, <1>4, <1>5, <1>6, <1>7, <1>8, <1>9, <1>10 DEF Next, EventStep
<1> QED BY <1>11 DEF Goal

(***************************************************************************)
(* One refund of ours.                                                     *)
(***************************************************************************)

\* A refund comes to be owed once: what makes one cancels the session, and only a
\* session still to come makes one.
OwedOnce ==
    /\ \A r, q \in Rows : Ours(r) /\ Ours(q) => r = q
    /\ \A r \in Rows : Ours(r) => session = "cancelled"

\* It holds at first and after every step.
LEMMA OwedOnceStep == RefundInv /\ OwedOnce /\ [Next]_vars => OwedOnce'
<1> SUFFICES ASSUME RefundInv, OwedOnce, [Next]_vars PROVE OwedOnce'
  OBVIOUS
<1>1. NoneOfOurs \/ OneOfOurs
  BY RunTouches, OthersKeep
<1>2. CASE NoneOfOurs
  BY <1>2 DEF NoneOfOurs, OwedOnce
<1>3. CASE OneOfOurs
  <2>1. PICK r \in Rows : \A q \in Rows \ {r} : row'[q] = row[q]
    BY <1>3 DEF OneOfOurs
  <2>2. session # "cancelled" /\ session' = "cancelled"
    BY <1>3 DEF OneOfOurs
  <2>3. \A q \in Rows \ {r} : ~Ours(q)'
    BY <2>1, <2>2 DEF OwedOnce, Ours
  <2> QED BY <2>2, <2>3 DEF OwedOnce
<1> QED BY <1>1, <1>2, <1>3

(***************************************************************************)
(* One claim, one key.                                                     *)
(***************************************************************************)

\* The row a run works on, and the key the row would be asked for with now.
At(w) == run[w].row
KeyNow(r) == <<r, row[r].seq>>

\* Stripe has made a refund for the row; Stripe remembers an answer to the key.
MadeFor(r) == \E f \in StripeIds : money[f].row = r
HasAnswer(k) == \E a \in answers : a.key = k

\* While no run is held up beyond its lease, a run has its row to itself, and its
\* key is the row's.
OneClaim ==
    \A w \in Runs : run[w].pc # "idle" =>
        /\ run[w].seq = row[At(w)].seq /\ run[w].attempts = row[At(w)].attempts
        /\ row[At(w)].status # "due"
        /\ ~(row[At(w)].status = "issuing" /\ row[At(w)].lapsed)
        /\ \A v \in Runs : run[v].pc # "idle" /\ At(v) = At(w) => v = w

\* What is on its way to Stripe carries the row's key of now, which has made nothing
\* and has no answer; a key that made a refund has its answer, or is too old to be
\* sent; and a key that was refused has made nothing and will not.
OneKey ==
    /\ \A k \in wire : k = KeyNow(k[1]) /\ ~HasAnswer(k) /\ ~MadeFor(k[1])
    /\ \A r \in Rows : MadeFor(r) => KeyNow(r) \in old \/ HasAnswer(KeyNow(r))
    /\ \A a \in answers : a.says = "refused" /\ a.key = KeyNow(a.key[1]) => ~MadeFor(a.key[1])
    /\ \A w \in Runs : run[w].pc = "answered" /\ run[w].says = "refused" =>
          ~MadeFor(At(w)) /\ KeyOf(w) \notin wire

\* A lease runs out only behind a run that is gone.
LEMMA OneClaimStep ==
    ASSUME "slow" \notin World, RefundInv, OneClaim, [Next]_vars
    PROVE  OneClaim'
<1> USE DEF RefundInv, TypeOK
<1>1. \A w \in Runs : run[w].pc # "idle" => At(w) \in Rows /\ row[At(w)].status # "none"
  BY DEF RunsOK, AskedForRows, At
<1>2. ASSUME NEW w \in Runs, NEW r \in Rows, Claim(w, r), \A q \in Rows \ {r} : row'[q] = row[q]
      PROVE  OneClaim'
  <2>1. \A v \in Runs : run[v].pc # "idle" => At(v) # r
    BY <1>2 DEF Claim, Claimable, OneClaim
  <2>2. /\ run' = [run EXCEPT ![w] = [Idle EXCEPT !.pc = "claimed", !.row = r, !.seq = row[r].seq,
                                         !.attempts = row[r].attempts + 1, !.order = order]]
        /\ row' = [row EXCEPT ![r] = [row[r] EXCEPT !.status = "issuing", !.lapsed = FALSE,
                                         !.waiting = FALSE, !.attempts = @ + 1, !.used = TRUE]]
    BY <1>2 DEF Claim
  <2>3. /\ run'[w].row = r /\ run'[w].seq = row[r].seq /\ run'[w].attempts = row[r].attempts + 1
        /\ \A v \in Runs \ {w} : run'[v] = run[v]
    BY <2>2 DEF RunsOK, Idle
  <2>4. /\ row'[r].seq = row[r].seq /\ row'[r].attempts = row[r].attempts + 1
        /\ row'[r].status = "issuing" /\ row'[r].lapsed = FALSE
    BY <2>2 DEF RefundRow
  <2> SUFFICES ASSUME NEW v \in Runs, run'[v].pc # "idle"
               PROVE  /\ run'[v].seq = row'[run'[v].row].seq /\ run'[v].attempts = row'[run'[v].row].attempts
                      /\ row'[run'[v].row].status # "due"
                      /\ ~(row'[run'[v].row].status = "issuing" /\ row'[run'[v].row].lapsed)
                      /\ \A u \in Runs : run'[u].pc # "idle" /\ run'[u].row = run'[v].row => u = v
    BY DEF OneClaim, At
  <2>5. CASE v = w
    BY <2>1, <2>3, <2>4, <2>5 DEF At
  <2>6. CASE v # w
    <3>1. At(v) \in Rows \ {r} /\ run'[v] = run[v] /\ row'[At(v)] = row[At(v)]
      BY <1>1, <1>2, <2>1, <2>3, <2>6
    <3>2. \A u \in Runs : run'[u].pc # "idle" /\ run'[u].row = run'[v].row => u = v
      BY <2>3, <3>1 DEF At, OneClaim
    <3> QED BY <2>6, <3>1, <3>2 DEF At, OneClaim
  <2> QED BY <2>5, <2>6
<1>3. ASSUME NEW w \in Runs, run'[w].pc # "idle" => run[w].pc # "idle",
             run'[w].pc # "idle" => /\ run'[w].row = run[w].row /\ run'[w].seq = run[w].seq
                                    /\ run'[w].attempts = run[w].attempts,
             \A v \in Runs \ {w} : run'[v] = run[v],
             \A v \in Runs : run'[v].pc # "idle" => row'[At(v)] = row[At(v)]
      PROVE  OneClaim'
  BY <1>3 DEF OneClaim, At
<1>4. ASSUME NEW w \in Runs, RunStep(w), row' = row, ~\E r \in Rows : Claim(w, r)
      PROVE  OneClaim'
  <2>1. \A v \in Runs \ {w} : run'[v] = run[v]
    BY <1>4 DEF RunStep, Ask, DontAsk, Answered, Unclear, RecordIssued, RecordRetry,
                RecordFailure, RunCrashes, Close, RunsOK
  <2>2. /\ run'[w].pc # "idle" => run[w].pc # "idle"
        /\ run'[w].pc # "idle" => /\ run'[w].row = run[w].row /\ run'[w].seq = run[w].seq
                                  /\ run'[w].attempts = run[w].attempts
    <3>1. run[w].pc # "idle" /\ run[w] \in RunState
      BY <1>4 DEF RunStep, Ask, DontAsk, Answered, Unclear, RecordIssued, RecordRetry,
                  RecordFailure, RunCrashes, RunsOK
    <3>2. CASE Ask(w) \/ Unclear(w) \/ Answered(w)
      <4>1. PICK x \in {[run[w] EXCEPT !.pc = "asking"], [run[w] EXCEPT !.pc = "answered", !.says = "unclear"]}
                      \cup {[run[w] EXCEPT !.pc = "answered", !.says = a.says, !.refund = a.refund] : a \in answers} :
               run' = [run EXCEPT ![w] = x]
        BY <3>2 DEF Ask, Unclear, Answered
      <4>2. x.row = run[w].row /\ x.seq = run[w].seq /\ x.attempts = run[w].attempts
        BY <3>1, <4>1 DEF RunState
      <4> QED BY <3>1, <4>1, <4>2 DEF RunsOK
    <3>3. CASE ~(Ask(w) \/ Unclear(w) \/ Answered(w))
      BY <1>4, <3>3 DEF RunStep, DontAsk, RecordIssued, RecordRetry, RecordFailure, RunCrashes,
                        Close, RunsOK, Idle
    <3> QED BY <3>1, <3>2, <3>3
  <2> QED BY <1>3, <1>4, <2>1, <2>2
<1>5. ASSUME NEW w \in Runs, run[w].pc # "idle", run' = [run EXCEPT ![w] = Idle],
             \A q \in Rows \ {At(w)} : row'[q] = row[q]
      PROVE  OneClaim'
  <2>1. run'[w].pc = "idle" /\ \A v \in Runs \ {w} : run'[v] = run[v]
    BY <1>5 DEF RunsOK, Idle
  <2>2. \A v \in Runs : run'[v].pc # "idle" => At(v) \in Rows \ {At(w)}
    BY <1>1, <1>5, <2>1 DEF OneClaim
  <2> QED BY <1>3, <1>5, <2>1, <2>2
<1>6. CASE ~\E w \in Runs : RunStep(w)
  <2>1. /\ UNCHANGED run
        /\ \A r \in Rows : row[r].status # "none" =>
             SameClaim(r) \/ (LeaseRunsOut(r) /\ \A q \in Rows \ {r} : row'[q] = row[q])
    BY <1>6, OthersKeep
  <2>2. ASSUME NEW w \in Runs, run[w].pc # "idle" PROVE SameClaim(At(w))
    <3>1. CASE LeaseRunsOut(At(w))
      BY <2>2, <3>1 DEF LeaseRunsOut, Working, OneClaim, At
    <3> QED BY <1>1, <2>1, <2>2, <3>1
  <2> QED BY <2>1, <2>2 DEF OneClaim, SameClaim, At
<1> QED BY <1>2, <1>4, <1>5, <1>6, RunTouches DEF At

\* A key is sent again only until it is answered or too old, and moves on only when it was
\* refused: so no row's refund is made twice.
LEMMA OneKeyStep ==
    ASSUME RefundInv, OneClaim, OneKey, OneRefundPerRow, [Next]_vars
    PROVE  OneKey' /\ OneRefundPerRow'
<1> USE DEF RefundInv, TypeOK
<1>1. \A r \in Rows : row[r].status = "none" =>
         /\ ~MadeFor(r) /\ \A k \in wire : k[1] # r
         /\ \A a \in answers : a.key[1] # r
         /\ \A w \in Runs : run[w].pc # "idle" => At(w) # r
  BY RefundPools DEF AskedForRows, MadeFor, At
<1>2. /\ \A k \in wire : k[1] \in Rows /\ k = <<k[1], k[2]>>
      /\ \A a \in answers : a.key[1] \in Rows
      /\ \A w \in Runs : run[w].pc # "idle" => At(w) \in Rows
      /\ \A r \in Rows : row[r].seq \in Nat
  BY DEF StripeOK, Keys, Answer, RunsOK, At, RefundRow
<1>3. ASSUME UNCHANGED money PROVE OneRefundPerRow' /\ \A r \in Rows : MadeFor(r)' <=> MadeFor(r)
  BY <1>3 DEF OneRefundPerRow, MadeFor
\* Steps that leave Stripe alone.
<1>4. ASSUME UNCHANGED stripe,
             \A v \in Runs : \/ run'[v] = run[v]
                             \/ run'[v].pc = "answered" /\ run'[v].says = "refused" =>
                                  ~MadeFor(At(v))' /\ KeyOf(v)' \notin wire,
             \A r \in Rows : row[r].status # "none" =>
               row'[r].seq = row[r].seq \/ (~MadeFor(r) /\ \A k \in wire : k[1] # r)
      PROVE  OneKey' /\ OneRefundPerRow'
  <2>1. UNCHANGED <<money, wire, answers, old>>
    BY <1>4 DEF stripe
  <2>2. OneRefundPerRow' /\ \A r \in Rows : MadeFor(r)' <=> MadeFor(r)
    BY <1>3, <2>1
  <2>3. \A k \in wire : KeyNow(k[1])' = KeyNow(k[1])
    BY <1>1, <1>2, <1>4 DEF KeyNow
  <2>4. \A r \in Rows : MadeFor(r) => KeyNow(r)' = KeyNow(r)
    BY <1>1, <1>4 DEF KeyNow
  <2>5. \A k : HasAnswer(k)' <=> HasAnswer(k)
    BY <2>1 DEF HasAnswer
  <2>6. (\A k \in wire : k = KeyNow(k[1]) /\ ~HasAnswer(k) /\ ~MadeFor(k[1]))'
    BY <1>2, <2>1, <2>2, <2>3, <2>5 DEF OneKey
  <2>7. (\A r \in Rows : MadeFor(r) => KeyNow(r) \in old \/ HasAnswer(KeyNow(r)))'
    BY <2>1, <2>2, <2>4, <2>5 DEF OneKey
  <2>8. (\A a \in answers : a.says = "refused" /\ a.key = KeyNow(a.key[1]) => ~MadeFor(a.key[1]))'
    BY <1>2, <2>1, <2>2, <2>4 DEF OneKey
  <2>9. (\A w \in Runs : run[w].pc = "answered" /\ run[w].says = "refused" =>
           ~MadeFor(At(w)) /\ KeyOf(w) \notin wire)'
    <3> SUFFICES ASSUME NEW w \in Runs, run'[w].pc = "answered", run'[w].says = "refused"
                 PROVE  ~MadeFor(At(w))' /\ KeyOf(w)' \notin wire
      BY <2>1
    <3>1. CASE run'[w] = run[w]
      <4>1. At(w)' = At(w) /\ KeyOf(w)' = KeyOf(w) /\ At(w) \in Rows
        BY <1>2, <3>1 DEF At, KeyOf
      <4>2. MadeFor(At(w))' = MadeFor(At(w))
        BY <2>1, <3>1 DEF MadeFor, At
      <4> QED BY <3>1, <4>1, <4>2 DEF OneKey
    <3> QED BY <1>4, <3>1
  <2> QED BY <2>2, <2>6, <2>7, <2>8, <2>9 DEF OneKey
\* A run's own steps.
<1>5. \A w \in Runs : run[w].pc # "idle" => KeyOf(w) = KeyNow(At(w))
  BY DEF OneClaim, KeyOf, KeyNow, At
<1>6. ASSUME NEW w \in Runs, RunStep(w), ~Ask(w)
      PROVE  UNCHANGED stripe /\ \A v \in Runs \ {w} : run'[v] = run[v]
  BY <1>6 DEF RunStep, Claim, DontAsk, Answered, Unclear, RecordIssued, RecordRetry,
              RecordFailure, RunCrashes, Close, RunsOK
<1>7. ASSUME NEW w \in Runs, NEW r \in Rows, Claim(w, r), \A q \in Rows \ {r} : row'[q] = row[q]
      PROVE  OneKey' /\ OneRefundPerRow'
  <2>1. UNCHANGED stripe /\ \A v \in Runs \ {w} : run'[v] = run[v]
    BY <1>6, <1>7 DEF RunStep, Claim, Ask
  <2>2. run'[w].says = "nothing"
    BY <1>7 DEF Claim, RunsOK, Idle
  <2>3. row'[r].seq = row[r].seq
    <3>1. row'[r] = [row[r] EXCEPT !.status = "issuing", !.lapsed = FALSE, !.waiting = FALSE,
                                   !.attempts = @ + 1, !.used = TRUE]
      BY <1>7 DEF Claim
    <3> QED BY <3>1 DEF RefundRow
  <2> QED BY <1>4, <1>7, <2>1, <2>2, <2>3
<1>8. ASSUME NEW w \in Runs, Answered(w) \/ Unclear(w) \/ RunCrashes(w)
      PROVE  OneKey' /\ OneRefundPerRow'
  <2>1. UNCHANGED <<row, stripe>> /\ \A v \in Runs \ {w} : run'[v] = run[v]
    BY <1>8 DEF Answered, Unclear, RunCrashes, ours, RunsOK
  <2>2. ASSUME run'[w].pc = "answered", run'[w].says = "refused"
        PROVE  ~MadeFor(At(w))' /\ KeyOf(w)' \notin wire
    <3>1. CASE Answered(w)
      <4>1. PICK a \in answers :
               /\ a.key = KeyOf(w)
               /\ run' = [run EXCEPT ![w].pc = "answered", ![w].says = a.says, ![w].refund = a.refund]
        BY <3>1 DEF Answered
      <4> DEFINE x == [run[w] EXCEPT !.pc = "answered", !.says = a.says, !.refund = a.refund]
      <4>2. run'[w] = x /\ run[w] \in RunState /\ run[w].pc # "idle"
        BY <3>1, <4>1 DEF RunsOK, Answered
      <4>3. x.says = a.says /\ x.row = run[w].row /\ x.seq = run[w].seq
        BY <4>2 DEF RunState
      <4>4. KeyOf(w)' = KeyOf(w) /\ At(w)' = At(w) /\ a.says = "refused"
        BY <2>2, <4>2, <4>3 DEF KeyOf, At
      <4>5. a.key = KeyNow(At(w)) /\ a.key[1] = At(w) /\ At(w) \in Rows
        BY <1>2, <1>5, <4>1, <4>2 DEF KeyNow
      <4>6. ~MadeFor(At(w)) /\ KeyOf(w) \notin wire
        BY <4>1, <4>4, <4>5 DEF OneKey, HasAnswer
      <4>7. MadeFor(At(w))' = MadeFor(At(w))
        BY <2>1, <4>4 DEF MadeFor, stripe
      <4> QED BY <4>4, <4>6, <4>7
    <3>2. CASE Unclear(w) \/ RunCrashes(w)
      <4>1. run'[w].says = "unclear" \/ run'[w] = Idle
        BY <3>2 DEF Unclear, RunCrashes, RunsOK, RunState
      <4> QED BY <2>2, <4>1 DEF Idle
    <3> QED BY <1>8, <3>1, <3>2
  <2> QED BY <1>4, <2>1, <2>2
<1>9. ASSUME NEW w \in Runs, run[w].pc # "idle", run' = [run EXCEPT ![w] = Idle], UNCHANGED stripe,
             \A q \in Rows \ {At(w)} : row'[q] = row[q],
             row'[At(w)].seq = row[At(w)].seq \/ (run[w].pc = "answered" /\ run[w].says = "refused")
      PROVE  OneKey' /\ OneRefundPerRow'
  <2>1. run'[w].pc = "idle" /\ \A v \in Runs \ {w} : run'[v] = run[v]
    BY <1>9 DEF RunsOK, Idle
  <2>2. run[w].pc = "answered" /\ run[w].says = "refused" => ~MadeFor(At(w)) /\ \A k \in wire : k[1] # At(w)
    BY <1>5, <1>9 DEF OneKey
  <2> QED BY <1>4, <1>9, <2>1, <2>2
\* The request goes out: under a key that is not too old and has no answer.
<1>10. ASSUME NEW w \in Runs, Ask(w)
       PROVE  OneKey' /\ OneRefundPerRow'
  <2>1. /\ UNCHANGED <<row, money, answers, old>> /\ run[w].pc # "idle" /\ KeyOf(w) \notin old
        /\ wire' = IF HasAnswer(KeyOf(w)) THEN wire ELSE wire \union {KeyOf(w)}
        /\ run' = [run EXCEPT ![w].pc = "asking"]
    BY <1>10 DEF Ask, ours, KeyWindowPassed, HasAnswer
  <2>2. \A v \in Runs \ {w} : run'[v] = run[v]
    BY <2>1 DEF RunsOK
  <2>3. run'[w] = [run[w] EXCEPT !.pc = "asking"] /\ run[w] \in RunState
    BY <2>1 DEF RunsOK
  <2>4. run'[w].says = run[w].says /\ run'[w].row = run[w].row /\ run'[w].seq = run[w].seq
    BY <2>3 DEF RunState
  <2>5. OneRefundPerRow' /\ \A r : MadeFor(r)' = MadeFor(r)
    BY <1>3, <2>1 DEF MadeFor
  <2>6. \A r : KeyNow(r)' = KeyNow(r)
    BY <2>1 DEF KeyNow
  <2>7. \A k : HasAnswer(k)' = HasAnswer(k)
    BY <2>1 DEF HasAnswer
  <2>8. \A v \in Runs : run'[v].pc # "idle" =>
           /\ run[v].pc # "idle" /\ At(v)' = At(v) /\ KeyOf(v)' = KeyOf(v)
           /\ v # w => run'[v] = run[v]
    BY <2>1, <2>2, <2>4 DEF At, KeyOf
  <2>9. KeyOf(w) = KeyNow(At(w)) /\ At(w) \in Rows /\ KeyOf(w)[1] = At(w)
    BY <1>2, <1>5, <2>1 DEF KeyOf, At
  <2>10. ~HasAnswer(KeyOf(w)) => ~MadeFor(At(w))
    BY <2>1, <2>9 DEF OneKey
  <2>11. (\A k \in wire : k = KeyNow(k[1]) /\ ~HasAnswer(k) /\ ~MadeFor(k[1]))'
    BY <2>1, <2>5, <2>6, <2>7, <2>9, <2>10 DEF OneKey
  <2>12. (\A r \in Rows : MadeFor(r) => KeyNow(r) \in old \/ HasAnswer(KeyNow(r)))'
    BY <2>1, <2>5, <2>6, <2>7 DEF OneKey
  <2>13. (\A a \in answers : a.says = "refused" /\ a.key = KeyNow(a.key[1]) => ~MadeFor(a.key[1]))'
    BY <2>1, <2>5, <2>6 DEF OneKey
  <2>14. run'[w].pc = "asking"
    BY <2>3 DEF RunState
  <2>15. \A v \in Runs \ {w} : run[v].pc # "idle" => KeyOf(v) # KeyOf(w)
    BY <1>5, <2>1, <2>9 DEF OneClaim, KeyOf, At
  <2>16. (\A v \in Runs : run[v].pc = "answered" /\ run[v].says = "refused" =>
           ~MadeFor(At(v)) /\ KeyOf(v) \notin wire)'
    BY <2>1, <2>5, <2>8, <2>14, <2>15 DEF OneKey
  <2> QED BY <2>5, <2>11, <2>12, <2>13, <2>16 DEF OneKey
\* What Stripe does with a request, and what happens to it on the way.
<1>11. ASSUME UNCHANGED <<row, run>>, old \subseteq old', \A k \in wire' : k \in wire,
              \A k \in wire' : ~HasAnswer(k)' /\ ~MadeFor(k[1])',
              \A r \in Rows : MadeFor(r)' => KeyNow(r) \in old' \/ HasAnswer(KeyNow(r))',
              \A a \in answers' : a.says = "refused" /\ a.key = KeyNow(a.key[1]) => ~MadeFor(a.key[1])',
              \A w \in Runs : run[w].pc = "answered" /\ run[w].says = "refused" => ~MadeFor(At(w))'
       PROVE  OneKey'
  <2>1. \A r : KeyNow(r)' = KeyNow(r)
    BY <1>11 DEF KeyNow
  <2>2. \A w \in Runs : At(w)' = At(w) /\ KeyOf(w)' = KeyOf(w)
    BY <1>11 DEF At, KeyOf
  <2>3. \A w \in Runs : MadeFor(At(w))' = \E f \in StripeIds : money'[f].row = At(w)
    BY <1>11 DEF MadeFor, At
  <2>4. (\A k \in wire : k = KeyNow(k[1]) /\ ~HasAnswer(k) /\ ~MadeFor(k[1]))'
    BY <1>11, <2>1 DEF OneKey
  <2>5. (\A r \in Rows : MadeFor(r) => KeyNow(r) \in old \/ HasAnswer(KeyNow(r)))'
    BY <1>11, <2>1
  <2>6. (\A a \in answers : a.says = "refused" /\ a.key = KeyNow(a.key[1]) => ~MadeFor(a.key[1]))'
    BY <1>11, <2>1
  <2>7. (\A w \in Runs : run[w].pc = "answered" /\ run[w].says = "refused" =>
           ~MadeFor(At(w)) /\ KeyOf(w) \notin wire)'
    BY <1>11, <2>2, <2>3 DEF OneKey
  <2> QED BY <2>4, <2>5, <2>6, <2>7 DEF OneKey
<1>12. ASSUME NEW k \in wire, StripeMakes(k)
       PROVE  OneKey' /\ OneRefundPerRow'
  <2>1. PICK f \in StripeIds, status \in {"pending", "succeeded"} :
           /\ MakeRefund(f, k[1], Gross, status)
           /\ answers' = answers \union {[key |-> k, says |-> "made", refund |-> f]}
    BY <1>12 DEF StripeMakes
  <2>2. UNCHANGED <<row, run, old>> /\ wire' = wire \ {k}
    BY <1>12 DEF StripeMakes, ours, sweep
  <2>3. money'[f].row = k[1] /\ \A g \in StripeIds \ {f} : money'[g] = money[g]
    BY <2>1 DEF MakeRefund, StripeOK
  <2>4. \A r : MadeFor(r)' => MadeFor(r) \/ r = k[1]
    BY <2>3 DEF MadeFor
  <2>5. k \in wire /\ k = KeyNow(k[1]) /\ ~HasAnswer(k) /\ ~MadeFor(k[1]) /\ k[1] \in Rows
    BY <1>2 DEF OneKey
  <2>6. OneRefundPerRow'
    BY <2>3, <2>5 DEF OneRefundPerRow, MadeFor
  <2>7. \A q : HasAnswer(q)' <=> (HasAnswer(q) \/ q = k)
    <3> DEFINE x == [key |-> k, says |-> "made", refund |-> f]
    <3>1. x.key = k
      OBVIOUS
    <3>2. answers' = answers \union {x}
      BY <2>1
    <3> HIDE DEF x
    <3>3. ASSUME NEW q, HasAnswer(q)' PROVE HasAnswer(q) \/ q = k
      BY <3>1, <3>2, <3>3 DEF HasAnswer
    <3>4. ASSUME NEW q, HasAnswer(q) \/ q = k PROVE HasAnswer(q)'
      BY <3>1, <3>2, <3>4 DEF HasAnswer
    <3> QED BY <3>3, <3>4
  <2>8. \A q \in wire' : q \in wire /\ q[1] # k[1] /\ q # k
    BY <2>2, <2>5 DEF OneKey
  <2>9. \A q \in wire' : ~HasAnswer(q)' /\ ~MadeFor(q[1])'
    BY <2>4, <2>7, <2>8 DEF OneKey
  <2>10. \A r \in Rows : MadeFor(r)' => KeyNow(r) \in old' \/ HasAnswer(KeyNow(r))'
    <3> SUFFICES ASSUME NEW r \in Rows, MadeFor(r)' PROVE KeyNow(r) \in old \/ HasAnswer(KeyNow(r))'
      BY <2>2
    <3>1. HasAnswer(KeyNow(r))' <=> (HasAnswer(KeyNow(r)) \/ KeyNow(r) = k)
      BY <2>7, <2>2 DEF KeyNow, HasAnswer
    <3>2. KeyNow(r)' = KeyNow(r)
      BY <2>2 DEF KeyNow
    <3> QED BY <2>4, <2>5, <3>1, <3>2 DEF OneKey
  <2>11. \A a \in answers' : a.says = "refused" /\ a.key = KeyNow(a.key[1]) => ~MadeFor(a.key[1])'
    <3> SUFFICES ASSUME NEW a \in answers, a.says = "refused", a.key = KeyNow(a.key[1])
                 PROVE  ~MadeFor(a.key[1])'
      BY <2>1
    <3> QED BY <2>4, <2>5 DEF OneKey, HasAnswer
  <2>12. \A w \in Runs : run[w].pc = "answered" /\ run[w].says = "refused" => ~MadeFor(At(w))'
    <3> SUFFICES ASSUME NEW w \in Runs, run[w].pc = "answered", run[w].says = "refused"
                 PROVE  ~MadeFor(At(w))'
      OBVIOUS
    <3>1. At(w) # k[1] /\ ~MadeFor(At(w))
      BY <1>5, <2>5 DEF OneKey
    <3>2. ~\E g \in StripeIds : money'[g].row = At(w)
      BY <2>3, <3>1 DEF MadeFor
    <3> QED BY <2>2, <3>2 DEF MadeFor, At
  <2> QED BY <1>11, <2>2, <2>6, <2>8, <2>9, <2>10, <2>11, <2>12
\* A refusal, a request lost, an answer forgotten, a key grown old: nothing is made.
<1>13. ASSUME UNCHANGED <<row, run>>, old \subseteq old', \A k \in wire' : k \in wire /\ ~HasAnswer(k)',
              \A r \in Rows : MadeFor(r)' => MadeFor(r),
              \A a \in answers : a \in answers' \/ a.key \in old',
              \A a \in answers' : a \in answers \/ ~MadeFor(a.key[1])'
       PROVE  OneKey'
  <2>1. \A k \in wire' : ~HasAnswer(k)' /\ ~MadeFor(k[1])'
    BY <1>2, <1>13 DEF OneKey
  <2>2. \A r \in Rows : HasAnswer(KeyNow(r)) => HasAnswer(KeyNow(r))' \/ KeyNow(r) \in old'
    <3> SUFFICES ASSUME NEW r \in Rows, NEW a \in answers, a.key = KeyNow(r)
                 PROVE  HasAnswer(KeyNow(r))' \/ KeyNow(r) \in old'
      BY DEF HasAnswer
    <3> QED BY <1>13 DEF HasAnswer, KeyNow
  <2>3. \A r \in Rows : MadeFor(r)' => KeyNow(r) \in old' \/ HasAnswer(KeyNow(r))'
    BY <1>13, <2>2 DEF OneKey
  <2>4. \A a \in answers' : a.says = "refused" /\ a.key = KeyNow(a.key[1]) => ~MadeFor(a.key[1])'
    BY <1>2, <1>13 DEF OneKey
  <2>5. \A w \in Runs : run[w].pc = "answered" /\ run[w].says = "refused" => ~MadeFor(At(w))'
    <3> SUFFICES ASSUME NEW w \in Runs, run[w].pc = "answered", run[w].says = "refused"
                 PROVE  ~MadeFor(At(w))'
      OBVIOUS
    <3>1. At(w) \in Rows /\ ~MadeFor(At(w)) /\ At(w)' = At(w)
      BY <1>2, <1>13 DEF OneKey, At
    <3> QED BY <1>13, <3>1
  <2> QED BY <1>11, <1>13, <2>1, <2>3, <2>4, <2>5
<1>14. ASSUME NEW k \in wire, StripeRefuses(k)
       PROVE  OneKey' /\ OneRefundPerRow'
  <2>1. PICK says \in {"already", "refused"} :
           answers' = answers \union {[key |-> k, says |-> says, refund |-> None]}
    BY <1>14, Zenon DEF StripeRefuses
  <2>2. UNCHANGED <<row, run, money, old>> /\ wire' = wire \ {k}
    BY <1>14 DEF StripeRefuses, ours, sweep
  <2>3. OneRefundPerRow' /\ \A r \in Rows : MadeFor(r)' <=> MadeFor(r)
    BY <1>3, <2>2
  <2>4. k \in wire /\ ~MadeFor(k[1]) /\ k[1] \in Rows
    BY <1>2 DEF OneKey
  <2>5. \A q \in wire' : q \in wire /\ ~HasAnswer(q)'
    BY <2>1, <2>2 DEF OneKey, HasAnswer
  <2>6. ~MadeFor(k[1])'
    BY <2>3, <2>4
  <2>7. \A a \in answers' : a \in answers \/ ~MadeFor(a.key[1])'
    BY <2>1, <2>6
  <2> QED BY <1>13, <2>1, <2>2, <2>3, <2>5, <2>7
<1>15. ASSUME \/ \E k \in wire : RequestLost(k)
              \/ \E a \in answers : StripeForgets(a)
              \/ \E r \in Rows, n \in Nat : KeyGetsOld(r, n)
       PROVE  OneKey' /\ OneRefundPerRow'
  <2>1. UNCHANGED <<row, run, money>> /\ old \subseteq old' /\ wire' \subseteq wire
        /\ answers' \subseteq answers /\ \A a \in answers : a \in answers' \/ a.key \in old'
    BY <1>15 DEF RequestLost, StripeForgets, KeyGetsOld, ours, sweep
  <2>2. \A q \in wire' : q \in wire /\ ~HasAnswer(q)'
    BY <2>1 DEF OneKey, HasAnswer
  <2> QED BY <1>3, <1>13, <2>1, <2>2
<1>16. ASSUME Dashboard \/ \E f \in StripeIds, status \in Final : StripeMoves(f, status)
       PROVE  OneKey' /\ OneRefundPerRow'
  <2>1. UNCHANGED <<row, run, old, wire, answers>>
    BY <1>16 DEF Dashboard, StripeMoves, ours, sweep
  <2>2. PICK f \in StripeIds : /\ money'[f].row \in {None, money[f].row}
                               /\ \A g \in StripeIds \ {f} : money'[g] = money[g]
    <3>1. CASE Dashboard
      BY <3>1 DEF Dashboard, MakeRefund, StripeOK
    <3>2. ASSUME NEW f \in StripeIds, NEW status \in Final, StripeMoves(f, status)
          PROVE  /\ money'[f].row = money[f].row
                 /\ \A g \in StripeIds \ {f} : money'[g] = money[g]
      <4>1. money' = [money EXCEPT ![f] = [money[f] EXCEPT !.status = status, !.at = EventMoment,
                                              !.went = @ \/ status = "succeeded"]]
        BY <3>2 DEF StripeMoves
      <4>2. money[f] \in StripeRefund
        BY DEF StripeOK
      <4> QED BY <4>1, <4>2 DEF StripeOK, StripeRefund
    <3> QED BY <1>16, <3>1, <3>2
  <2>3. \A r \in Rows : MadeFor(r)' => MadeFor(r)
    BY <2>2, RefundPools DEF MadeFor
  <2>4. OneRefundPerRow'
    BY <2>2 DEF OneRefundPerRow
  <2>5. \A q \in wire' : q \in wire /\ ~HasAnswer(q)'
    BY <2>1 DEF OneKey, HasAnswer
  <2> QED BY <1>13, <2>1, <2>3, <2>4, <2>5
<1>17. CASE ~\E w \in Runs : RunStep(w)
  <2>1. /\ UNCHANGED run
        /\ \A r \in Rows : row[r].status # "none" => SameClaim(r) \/ LeaseRunsOut(r)
        /\ UNCHANGED stripe \/ StripeStep \/ \E r \in Rows, n \in Nat : KeyGetsOld(r, n)
    BY <1>17, OthersKeep
  <2>2. ASSUME NEW r \in Rows, LeaseRunsOut(r) PROVE row'[r].seq = row[r].seq
    <3>1. row'[r] = [row[r] EXCEPT !.lapsed = TRUE] /\ row[r] \in RefundRow
      BY <2>2 DEF LeaseRunsOut
    <3> QED BY <3>1 DEF RefundRow
  <2>3. CASE UNCHANGED stripe
    BY <1>4, <2>1, <2>2, <2>3 DEF SameClaim
  <2> QED BY <1>12, <1>14, <1>15, <1>16, <2>1, <2>3 DEF StripeStep
<1>18. ASSUME NEW w \in Runs, RunStep(w)
       PROVE  OneKey' /\ OneRefundPerRow'
  <2>1. CASE row' = row /\ ~(Ask(w) \/ Answered(w) \/ Unclear(w) \/ RunCrashes(w))
                        /\ ~\E r \in Rows : Claim(w, r)
    <3>1. run[w].pc # "idle" /\ run' = [run EXCEPT ![w] = Idle] /\ UNCHANGED stripe
      BY <1>18, <2>1 DEF RunStep, DontAsk, RecordIssued, RecordRetry, RecordFailure, Close
    <3> QED BY <1>9, <2>1, <3>1
  <2>2. CASE row' = row /\ \E r \in Rows : Claim(w, r)
    BY <1>7, <2>2
  <2> QED BY <1>7, <1>8, <1>9, <1>10, <1>18, <2>1, <2>2, RunTouches DEF At
<1> QED BY <1>17, <1>18

\* As long as no run outlives its lease, Stripe makes one refund at most for a row,
\* however often it is asked for: a repeat keeps the key that may have made it, and is
\* not sent once the key may be forgotten (recordRefundRetry, keyWindowPassed).
THEOREM OneRefundEach == ASSUME "slow" \notin World PROVE Spec => []OneRefundPerRow
<1>1. Init => OneClaim /\ OneKey /\ OneRefundPerRow
  BY RefundPools DEF Init, OneClaim, OneKey, OneRefundPerRow, MadeFor, HasAnswer, NoRefund, Idle
<1>2. RefundInv /\ OneClaim /\ OneKey /\ OneRefundPerRow /\ [Next]_vars
        => OneClaim' /\ OneKey' /\ OneRefundPerRow'
  BY OneClaimStep, OneKeyStep
<1> QED BY <1>1, <1>2, RefundAlways, PTL DEF Spec

\* A withdrawal and a fraud warning never both give the money back: each makes a
\* refund only while the session is to come, and cancels it in the same transaction
\* (recordWithdrawal; decide in fraud-warnings.ts).
THEOREM OneFullRefund == Spec => []OneFullRefundAtATime
<1>1. Init => OwedOnce
  BY DEF Init, OwedOnce, Ours, NoRow
<1>2. OwedOnce => OneFullRefundAtATime
  BY DEF OwedOnce, Ours, OneFullRefundAtATime
<1> QED BY <1>1, <1>2, OwedOnceStep, RefundAlways, PTL DEF Spec

(***************************************************************************)
(* The news of a refund.                                                   *)
(***************************************************************************)

\* How far along a status is.  No refund passes through two of one rank.
Rank(status) == IF status = "pending" THEN 1 ELSE IF status = "succeeded" THEN 2 ELSE 3

\* Event d was sent before e.  Of two in one second the first says pending.
Before(d, e) ==
    /\ Rank(d.status) < Rank(e.status)
    /\ d.at < e.at \/ (d.at = e.at /\ d.status = "pending")

\* Stripe's events about one refund follow one another.
InOrder ==
    /\ \A e \in sent : e.at <= EventMoment
    /\ \A d, e \in sent : d.refund = e.refund => (d = e \/ Before(d, e) \/ Before(e, d))

\* The last of them says what Stripe says now, the first what was made.
LastOf(f) == [refund |-> f, status |-> money[f].status, at |-> money[f].at]
LastIsSent ==
    \A f \in StripeIds : money[f].status # "none" =>
        /\ LastOf(f) \in sent
        /\ \A e \in sent : e.refund = f =>
             /\ e = LastOf(f) \/ Before(e, LastOf(f))
             /\ e.status = money[f].made \/ Rank(money[f].made) < Rank(e.status)

\* No event about the refund that was heeded is further along than the status; some
\* event said just this.
Heeds(f, status) == \A e \in handled : e.refund = f => Rank(e.status) <= Rank(status)
Said(f, status, at) == [refund |-> f, status |-> status, at |-> at] \in sent

\* What is held for the settlement is the newest of what was delivered.
IsNewest(f, word) == word # None => Said(f, word.status, word.at) /\ Heeds(f, word.status)
HeldIsNewest ==
    \A f \in StripeIds : /\ settling = "before" => IsNewest(f, held[f])
                         /\ settling = "open" => IsNewest(f, taken[f])

\* So is what a row says; before any event changed it, it says what was made.
RowIsNewest ==
    \A r \in Rows : row[r].refund # None =>
        /\ Heeds(row[r].refund, row[r].status)
        /\ IF row[r].at = None THEN row[r].status = money[row[r].refund].made
           ELSE Said(row[r].refund, row[r].status, row[r].at)

\* What a step can add to Stripe's events.
SentMove ==
    \/ UNCHANGED <<money, sent>> /\ now' \in {now, now + 1}
    \/ /\ UNCHANGED <<now, row, handled, held, taken, settling>>
       /\ \E f \in StripeIds, status \in RefundStatus :
            /\ sent' = sent \union {[refund |-> f, status |-> status, at |-> EventMoment]}
            /\ \A g \in StripeIds \ {f} : money'[g] = money[g]
            /\ money'[f].status = status /\ money'[f].at = EventMoment
            /\ status = "succeeded" => money'[f].went
            /\ \/ /\ money[f].status = "none" /\ status \in {"pending", "succeeded"}
                  /\ money'[f].made = status
                  /\ money'[f].row # None => money'[f].amount = Gross
               \/ /\ money'[f].made = money[f].made /\ money'[f].amount = money[f].amount
                  /\ money'[f].row = money[f].row /\ (money[f].went => money'[f].went)
                  /\ \/ money[f].status = "pending" /\ status \in Final
                     \/ money[f].status = "succeeded" /\ status = "failed" /\ money[f].at < EventMoment

\* Every step is such a move.
LEMMA SentSteps ==
    ASSUME RefundInv, [Next]_vars
    PROVE  SentMove
<1> USE DEF RefundInv, TypeOK
<1>1. ASSUME NEW f \in StripeIds, NEW r, NEW amount, NEW status \in {"pending", "succeeded"},
             MakeRefund(f, r, amount, status), r # None => amount = Gross,
             UNCHANGED <<now, row, handled, held, taken, settling>>
      PROVE  SentMove
  <2> DEFINE x == [status |-> status, made |-> status, row |-> r, amount |-> amount,
                   at |-> EventMoment, went |-> status = "succeeded"]
  <2>1. money[f].status = "none" /\ money' = [money EXCEPT ![f] = x]
        /\ sent' = sent \union {[refund |-> f, status |-> status, at |-> EventMoment]}
    BY <1>1 DEF MakeRefund, News, FreshId
  <2>2. /\ x.status = status /\ x.made = status /\ x.at = EventMoment /\ x.row = r
        /\ x.amount = amount /\ (status = "succeeded" => x.went)
    OBVIOUS
  <2> HIDE DEF x
  <2>3. money'[f] = x /\ \A g \in StripeIds \ {f} : money'[g] = money[g]
    BY <2>1 DEF StripeOK
  <2>4. status \in RefundStatus
    BY DEF RefundStatus
  <2> QED BY <1>1, <2>1, <2>2, <2>3, <2>4 DEF SentMove
<1>2. ASSUME NEW k \in wire, StripeMakes(k)
      PROVE  SentMove
  BY <1>1, <1>2 DEF StripeMakes, ours
<1>3. CASE Dashboard
  BY <1>1, <1>3 DEF Dashboard, ours
<1>4. ASSUME NEW f \in StripeIds, NEW status \in Final, StripeMoves(f, status)
      PROVE  SentMove
  <2> DEFINE x == [money[f] EXCEPT !.status = status, !.at = EventMoment,
                                   !.went = @ \/ status = "succeeded"]
  <2>1. money' = [money EXCEPT ![f] = x]
        /\ sent' = sent \union {[refund |-> f, status |-> status, at |-> EventMoment]}
        /\ UNCHANGED <<now, row, handled, held, taken, settling>>
    BY <1>4 DEF StripeMoves, News, StripeOK, ours
  <2>2. money[f] \in StripeRefund
    BY DEF StripeOK
  <2>3. /\ x.status = status /\ x.at = EventMoment /\ x.made = money[f].made
        /\ x.amount = money[f].amount /\ x.row = money[f].row
        /\ (money[f].went => x.went) /\ (status = "succeeded" => x.went)
    BY <2>2 DEF StripeRefund
  <2> HIDE DEF x
  <2>4. money'[f] = x /\ \A g \in StripeIds \ {f} : money'[g] = money[g]
    BY <2>1 DEF StripeOK
  <2>5. \/ money[f].status = "pending" /\ status \in Final
        \/ money[f].status = "succeeded" /\ status = "failed" /\ money[f].at < EventMoment
    BY <1>4 DEF StripeMoves
  <2>6. status \in RefundStatus
    BY DEF Final, RefundStatus
  <2> QED BY <2>1, <2>3, <2>4, <2>5, <2>6 DEF SentMove
<1>5. ASSUME UNCHANGED <<money, sent, now>> PROVE SentMove
  BY <1>5 DEF SentMove
<1>6. CASE \/ \E k \in wire : StripeRefuses(k) \/ RequestLost(k)
           \/ \E a \in answers : StripeForgets(a)
  BY <1>5, <1>6 DEF StripeRefuses, RequestLost, StripeForgets
<1>7. ASSUME NEW w \in Runs, RunStep(w)
      PROVE  SentMove
  BY <1>5, <1>7 DEF RunStep, Claim, Ask, DontAsk, Answered, Unclear, RecordIssued, RecordRetry,
                    RecordFailure, RunCrashes, stripe
<1>8. ASSUME NEW r \in Rows, RowStep(r) \/ \E n \in 0 .. row[r].seq : KeyGetsOld(r, n)
      PROVE  SentMove
  BY <1>5, <1>8 DEF RowStep, LeaseRunsOut, WaitEnds, ReadAgain, KeyGetsOld, stripe
<1>9. CASE \/ Withdraw \/ FraudWarning \/ Dispute \/ SettlementBegins \/ SettlementCommits
           \/ EventStep \/ ApplyReading \/ ReadingFails \/ SessionNears \/ UNCHANGED vars
  BY <1>5, <1>9 DEF Withdraw, FraudWarning, Dispute, SettlementBegins, SettlementCommits, EventStep,
                    HoldCommits, RefundEvent, HoldBegins, ApplyReading, ReadingFails, SessionNears,
                    vars, stripe
<1>10. CASE Tick
  BY <1>10 DEF Tick, stripe, SentMove
<1> QED BY <1>2, <1>3, <1>4, <1>6, <1>7, <1>8, <1>9, <1>10 DEF Next, StripeStep

\* So the events stay in order.
LEMMA OrderStep ==
    ASSUME RefundInv, InOrder, LastIsSent, [Next]_vars
    PROVE  InOrder' /\ LastIsSent'
<1> USE DEF RefundInv, TypeOK
<1>1. now \in Nat /\ \A e \in sent : e.at \in Nat /\ e.refund \in StripeIds /\ e.status \in RefundStatus
  BY RefundAmounts DEF EventsOK, Events, Moments
<1>2. CASE UNCHANGED <<money, sent>> /\ now' \in {now, now + 1}
  <2>1. InOrder'
    BY <1>1, <1>2 DEF InOrder, EventMoment, Before
  <2>2. LastIsSent'
    BY <1>2 DEF LastIsSent, LastOf, Before
  <2> QED BY <2>1, <2>2
<1>3. ASSUME NEW f \in StripeIds, NEW status \in RefundStatus, now' = now,
             sent' = sent \union {[refund |-> f, status |-> status, at |-> EventMoment]},
             \A g \in StripeIds \ {f} : money'[g] = money[g],
             money'[f].status = status, money'[f].at = EventMoment,
             \/ money[f].status = "none" /\ status \in {"pending", "succeeded"} /\ money'[f].made = status
             \/ /\ money'[f].made = money[f].made
                /\ \/ money[f].status = "pending" /\ status \in Final
                   \/ money[f].status = "succeeded" /\ status = "failed" /\ money[f].at < EventMoment
      PROVE  InOrder' /\ LastIsSent'
  <2> DEFINE x == [refund |-> f, status |-> status, at |-> EventMoment]
  <2>1. x = LastOf(f)'
    BY <1>3 DEF LastOf, EventMoment
  <2>2. x.refund = f /\ x.status = status /\ x.at = EventMoment
    OBVIOUS
  <2> HIDE DEF x
  <2>3. sent' = sent \union {x}
    BY <1>3 DEF x
  <2>4. EventMoment \in Nat /\ EventMoment' = EventMoment
    BY <1>1, <1>3 DEF EventMoment
  <2>5. ASSUME NEW e \in sent, e.refund = f
        PROVE  /\ Before(e, x)
               /\ e.status = money'[f].made \/ Rank(money'[f].made) < Rank(e.status)
               /\ money[f].made = money'[f].made
    <3>1. money[f].status # "none" /\ money'[f].made = money[f].made
      BY <1>3, <2>5 DEF KnownToStripe
    <3>2. e = LastOf(f) \/ Before(e, LastOf(f))
      BY <2>5, <3>1 DEF LastIsSent
    <3>3. LastOf(f).status = money[f].status /\ LastOf(f).at = money[f].at
      BY DEF LastOf
    <3>4. LastOf(f) \in sent /\ (e.status = money[f].made \/ Rank(money[f].made) < Rank(e.status))
      BY <2>5, <3>1 DEF LastIsSent
    <3>5. money[f].at \in Nat /\ e.at <= EventMoment /\ e.status \in RefundStatus /\ e.at \in Nat
      BY <1>1, <3>3, <3>4 DEF InOrder
    <3>6. CASE money[f].status = "pending" /\ status \in Final
      <4>1. e.status = "pending"
        BY <3>2, <3>3, <3>5, <3>6 DEF Before, Rank, RefundStatus
      <4> QED BY <2>2, <2>4, <3>1, <3>4, <3>5, <3>6, <4>1 DEF Before, Rank, Final
    <3>7. CASE money[f].status = "succeeded" /\ status = "failed" /\ money[f].at < EventMoment
      <4>1. e.status \in {"pending", "succeeded"} /\ e.at <= money[f].at
        BY <3>2, <3>3, <3>5, <3>7 DEF Before, Rank, RefundStatus
      <4> QED BY <2>2, <2>4, <3>1, <3>4, <3>5, <3>7, <4>1 DEF Before, Rank
    <3> QED BY <1>3, <3>1, <3>6, <3>7
  <2>6. ASSUME NEW d \in sent', NEW e \in sent', d.refund = e.refund
        PROVE  d = e \/ Before(d, e) \/ Before(e, d)
    BY <2>2, <2>3, <2>5, <2>6 DEF InOrder
  <2>7. \A e \in sent' : e.at <= EventMoment'
    BY <1>1, <2>2, <2>3, <2>4 DEF InOrder
  <2>8. InOrder'
    BY <2>6, <2>7 DEF InOrder, Before
  <2>9. ASSUME NEW g \in StripeIds, money'[g].status # "none"
        PROVE  /\ LastOf(g)' \in sent'
               /\ \A e \in sent' : e.refund = g =>
                    /\ e = LastOf(g)' \/ Before(e, LastOf(g)')
                    /\ e.status = money'[g].made \/ Rank(money'[g].made) < Rank(e.status)
    <3>1. CASE g = f
      <4>1. money'[f].made = status \/ money[f].status # "none"
        BY <1>3
      <4>2. status = money'[f].made \/ Rank(money'[f].made) < Rank(status)
        <5>1. CASE money[f].status = "none"
          BY <1>3, <5>1 DEF Final
        <5>2. CASE money[f].status # "none"
          <6>1. LastOf(f) \in sent /\ LastOf(f).refund = f
            BY <5>2 DEF LastIsSent, LastOf
          <6> HIDE DEF LastOf
          <6>2. Before(LastOf(f), x) /\ (LastOf(f).status = money'[f].made
                    \/ Rank(money'[f].made) < Rank(LastOf(f).status))
            BY <2>5, <6>1
          <6> QED BY <2>2, <6>2 DEF Before, Rank
        <5> QED BY <5>1, <5>2
      <4> QED BY <2>1, <2>2, <2>3, <2>5, <3>1, <4>2
    <3>2. CASE g # f
      <4>1. money'[g] = money[g] /\ LastOf(g)' = LastOf(g)
        BY <1>3, <3>2 DEF LastOf
      <4>2. \A e \in sent' : e.refund = g => e \in sent
        BY <2>2, <2>3, <3>2
      <4> QED BY <2>3, <2>9, <4>1, <4>2 DEF LastIsSent
    <3> QED BY <3>1, <3>2
  <2>10. LastIsSent'
    BY <2>9 DEF LastIsSent, Before
  <2> QED BY <2>8, <2>10
<1> QED BY <1>2, <1>3, SentSteps DEF SentMove

\* An event may replace the word of another just when it is further along (mayApply).
LEMMA MayApplyRanks ==
    ASSUME InOrder, NEW d \in sent, NEW e \in sent, d.refund = e.refund, d.at \in Nat, e.at \in Nat,
           d.status \in RefundStatus, e.status \in RefundStatus,
           NEW was, was.status = d.status, was.at = d.at
    PROVE  MayApply(was, e.status, e.at) <=> Rank(d.status) <= Rank(e.status)
<1>1. was.at # None
  BY RefundPools
<1>2. d = e \/ Before(d, e) \/ Before(e, d)
  BY DEF InOrder
<1>3. CASE d = e
  BY <1>1, <1>3 DEF MayApply, Rank
<1>4. CASE Before(d, e)
  BY <1>1, <1>4 DEF MayApply, Before, Rank, RefundStatus, Final
<1>5. CASE Before(e, d)
  BY <1>1, <1>5 DEF MayApply, Before, Rank, RefundStatus, Final
<1> QED BY <1>2, <1>3, <1>4, <1>5

\* An event says what it says.
LEMMA EventSays ==
    ASSUME RefundInv, NEW e \in sent
    PROVE  /\ e.refund \in StripeIds /\ e.status \in RefundStatus /\ e.at \in Nat /\ e.at # None
           /\ Said(e.refund, e.status, e.at)
<1>1. e \in Events
  BY DEF RefundInv, TypeOK, EventsOK
<1>2. e = [refund |-> e.refund, status |-> e.status, at |-> e.at]
  BY <1>1 DEF Events
<1>3. e.at \in Nat
  BY <1>1, RefundAmounts DEF Events, Moments
<1> QED BY <1>1, <1>2, <1>3, RefundPools DEF Events, Said

\* Whether a word somebody said gives way to an event.
LEMMA SaidRanks ==
    ASSUME RefundInv, InOrder, NEW e \in sent, NEW was, Said(e.refund, was.status, was.at)
    PROVE  MayApply(was, e.status, e.at) <=> Rank(was.status) <= Rank(e.status)
<1> DEFINE d == [refund |-> e.refund, status |-> was.status, at |-> was.at]
<1>1. d \in sent
  BY DEF Said
<1>2. d.refund = e.refund /\ d.status = was.status /\ d.at = was.at
  OBVIOUS
<1> HIDE DEF d
<1> QED BY <1>1, <1>2, EventSays, MayApplyRanks

(***************************************************************************)
(* What a step can do to the word of a row.                                *)
(***************************************************************************)

\* No row comes to name a refund, and one that names one keeps its word.
QuietWords ==
    \A r \in Rows : /\ row'[r].refund = row[r].refund
                    /\ row[r].refund # None => /\ row'[r].status = row[r].status
                                               /\ row'[r].at = row[r].at

\* An open row changed in other things.
LEMMA OpenRowIsQuiet ==
    ASSUME RefundInv, NEW r \in Rows, row[r].status \in {"none", "due", "issuing"}, NEW x, x.refund = None,
           row' = row \/ row' = [row EXCEPT ![r] = x]
    PROVE  QuietWords
BY DEF RefundInv, TypeOK, NamesWhatItHeard, OpenRowHoldsNoRefund, QuietWords

\* A run changes a row's word only when it records Stripe's answer.
LEMMA RunIsQuiet ==
    ASSUME RefundInv, NEW w \in Runs, RunStep(w)
    PROVE  QuietWords \/ RecordIssued(w)
<1> USE DEF RefundInv, TypeOK
<1>0. ASSUME row' = row PROVE QuietWords
  BY <1>0 DEF QuietWords
<1>1. ASSUME NEW r \in Rows, Claim(w, r)
      PROVE  QuietWords
  <2> DEFINE x == [row[r] EXCEPT !.status = "issuing", !.lapsed = FALSE, !.waiting = FALSE,
                                 !.attempts = @ + 1, !.used = TRUE]
  <2>1. row' = [row EXCEPT ![r] = x] /\ row[r].status \in {"due", "issuing"}
    BY <1>1 DEF Claim, Claimable
  <2>2. x.refund = row[r].refund /\ row[r].refund = None
    BY <2>1 DEF RefundRow, OpenRowHoldsNoRefund
  <2> HIDE DEF x
  <2> QED BY <2>1, <2>2, OpenRowIsQuiet
<1>2. CASE Ask(w) \/ Answered(w) \/ Unclear(w) \/ RunCrashes(w)
  BY <1>0, <1>2 DEF Ask, Answered, Unclear, RunCrashes, ours
<1> DEFINE r == run[w].row
<1>3. CASE DontAsk(w) \/ RecordFailure(w)
  <2>1. PICK status \in {"superseded", "failed"} : Close(w, status)
    BY <1>3 DEF DontAsk, RecordFailure
  <2> DEFINE x == [row[r] EXCEPT !.status = status, !.lapsed = FALSE]
  <2>2. r \in Rows
    BY <1>3 DEF DontAsk, RecordFailure, RunsOK
  <2>3. x.refund = row[r].refund
    BY <2>2 DEF RefundRow
  <2>4. row' = row \/ (row[r].status = "issuing" /\ row' = [row EXCEPT ![r] = x])
    BY <2>1, <2>2 DEF Close
  <2> HIDE DEF x
  <2> QED BY <1>0, <2>2, <2>3, <2>4, OpenRowIsQuiet DEF OpenRowHoldsNoRefund
<1>4. CASE RecordRetry(w)
  <2> DEFINE moves == MovesOn(run[w].says)
             x == [row[r] EXCEPT !.status = "due", !.lapsed = FALSE, !.waiting = TRUE,
                                 !.seq = IF moves THEN @ + 1 ELSE @,
                                 !.used = IF moves THEN FALSE ELSE @]
  <2>1. r \in Rows
    BY <1>4 DEF RecordRetry, RunsOK
  <2>2. x.refund = row[r].refund
    BY <2>1 DEF RefundRow
  <2>3. row' = row \/ (row[r].status = "issuing" /\ row' = [row EXCEPT ![r] = x])
    BY <1>4, <2>1 DEF RecordRetry, Retry
  <2> HIDE DEF x
  <2> QED BY <1>0, <2>1, <2>2, <2>3, OpenRowIsQuiet DEF OpenRowHoldsNoRefund
<1> QED BY <1>1, <1>2, <1>3, <1>4 DEF RunStep

\* Nor do the others, where nothing is read again, but for an event delivered and the
\* settlement; and no claim is closed.
LEMMA OthersAreQuiet ==
    ASSUME RefundInv, [Next]_vars, ~\E w \in Runs : RunStep(w), reading = None
    PROVE  \/ \E e \in sent : RefundEvent(e)
           \/ SettlementCommits
           \/ /\ QuietWords
              /\ \A r \in Rows : row[r].status = "issuing" => row'[r].status = "issuing"
<1> USE DEF RefundInv, TypeOK
<1> DEFINE Goal == /\ QuietWords
                   /\ \A r \in Rows : row[r].status = "issuing" => row'[r].status = "issuing"
<1>1. ASSUME row' = row PROVE Goal
  BY <1>1 DEF QuietWords
<1>2. ASSUME NEW r \in Rows, NEW origin, FreshRow(r), row' = [row EXCEPT ![r] = Due(origin)]
      PROVE  Goal
  <2>1. Due(origin).refund = None
    BY DEF Due, NoRow
  <2>2. row[r].status = "none"
    BY <1>2 DEF FreshRow
  <2>3. \A q \in Rows : row[q].status = "issuing" => row'[q].status = "issuing"
    BY <1>2, <2>2
  <2> QED BY <1>2, <2>1, <2>2, <2>3, OpenRowIsQuiet
<1>3. ASSUME NEW r \in Rows, LeaseRunsOut(r) \/ WaitEnds(r)
      PROVE  Goal
  <2>1. PICK x \in {[row[r] EXCEPT !.lapsed = TRUE], [row[r] EXCEPT !.waiting = FALSE]} :
           row' = [row EXCEPT ![r] = x]
    BY <1>3 DEF LeaseRunsOut, WaitEnds
  <2>2. x.refund = row[r].refund /\ x.status = row[r].status
    BY <2>1 DEF RefundRow
  <2>3. row[r].status \in {"due", "issuing"} /\ row[r].refund = None
    BY <1>3 DEF LeaseRunsOut, WaitEnds, OpenRowHoldsNoRefund
  <2>4. QuietWords
    BY <2>1, <2>2, <2>3, OpenRowIsQuiet
  <2> QED BY <2>1, <2>2, <2>4
<1> HIDE DEF Goal
<1>4. ASSUME Withdraw \/ FraudWarning PROVE Goal
  BY <1>1, <1>2, <1>4 DEF Withdraw, FraudWarning
<1>5. ASSUME \/ Dispute \/ SettlementBegins \/ HoldCommits \/ ReadingFails \/ SessionNears \/ Tick
             \/ StripeStep \/ UNCHANGED vars \/ \E e \in sent : HoldBegins(e)
             \/ \E r \in Rows : ReadAgain(r) \/ \E n \in 0 .. row[r].seq : KeyGetsOld(r, n)
      PROVE  Goal
  <2>1. row' = row
    BY <1>5 DEF Dispute, SettlementBegins, HoldCommits, ReadingFails, SessionNears, Tick, StripeStep,
                StripeMakes, StripeRefuses, RequestLost, StripeForgets, StripeMoves, Dashboard,
                HoldBegins, ReadAgain, KeyGetsOld, vars, ours
  <2> QED BY <1>1, <2>1
<1>6. ~ApplyReading
  BY DEF ApplyReading
<1>7. \/ \E e \in sent : RefundEvent(e)
      \/ SettlementCommits
      \/ Goal
  BY <1>3, <1>4, <1>5, <1>6 DEF Next, EventStep, RowStep
<1> QED BY <1>7 DEF Goal

\* An event delivered reaches one row: it leaves the row's word, which is of the same
\* status or not to be replaced, or it becomes the row's word.
LEMMA ApplySays ==
    ASSUME RefundInv, NEW f \in StripeIds, NEW status, NEW at, Apply(f, status, at)
    PROVE  \E r \in Rows :
             /\ \A q \in Rows \ {r} : row'[q] = row[q] /\ row[q].refund # f
             /\ \/ /\ row' = row /\ row[r].refund = f
                   /\ row[r].status = status \/ ~MayApply(row[r], status, at)
                \/ /\ row'[r].refund = f /\ row'[r].status = status /\ row'[r].at = at
                   /\ \/ row[r].refund = f /\ MayApply(row[r], status, at)
                      \/ row[r].refund = None
<1> USE DEF RefundInv, TypeOK
<1>1. CASE RowsOf(f) = {}
  <2> DEFINE x == FromDashboard(f, status, at)
  <2>1. PICK r \in Rows : FreshRow(r) /\ Save([row EXCEPT ![r] = x])
    BY <1>1 DEF Apply
  <2>2. x.refund = f /\ x.status = status /\ x.at = at
    BY DEF FromDashboard, NoRow
  <2> HIDE DEF x
  <2>3. row[r].refund = None /\ row'[r] = x /\ \A q \in Rows \ {r} : row'[q] = row[q]
    BY <2>1 DEF Save, FreshRow, NamesWhatItHeard
  <2>4. \A q \in Rows : row[q].refund # f
    BY <1>1 DEF RowsOf
  <2> QED BY <2>2, <2>3, <2>4
<1>2. CASE RowsOf(f) # {}
  <2>1. PICK r \in RowsOf(f) : IF MayApply(row[r], status, at) THEN Save(Told(r, f, status, at))
                               ELSE UNCHANGED <<row, order, session>>
    BY <1>2 DEF Apply
  <2>2. /\ r \in Rows /\ row[r].refund \in {None, f}
        /\ row[r].refund = None => \A q \in Rows : row[q].refund # f
    BY <2>1, RefundPools DEF RowsOf
  <2>3. \A q \in Rows \ {r} : row[q].refund # f
    BY <2>2, RefundPools DEF OneRowPerRefund
  <2>4. row[r].refund = None => MayApply(row[r], status, at)
    BY <2>2 DEF MayApply, NamesWhatItHeard
  <2>5. CASE ~MayApply(row[r], status, at)
    BY <2>1, <2>2, <2>3, <2>4, <2>5
  <2>6. CASE MayApply(row[r], status, at) /\ row[r].status = status /\ row[r].refund = f
    BY <2>1, <2>2, <2>3, <2>6 DEF Save, Told
  <2>7. CASE MayApply(row[r], status, at) /\ ~(row[r].status = status /\ row[r].refund = f)
    <3> DEFINE x == [row[r] EXCEPT !.refund = f, !.status = status, !.at = at,
                                   !.lapsed = FALSE, !.waiting = FALSE]
    <3>1. x.refund = f /\ x.status = status /\ x.at = at
      BY <2>2 DEF RefundRow
    <3>2. row' = [row EXCEPT ![r] = x]
      BY <2>1, <2>2, <2>7 DEF Save, Told
    <3> HIDE DEF x
    <3> QED BY <2>2, <2>3, <2>7, <3>1, <3>2
  <2> QED BY <2>5, <2>6, <2>7
<1> QED BY <1>1, <1>2

\* A row a run is at work on is still issuing, unless it has come to name a refund.
StillIssuing ==
    \A w \in Runs : run[w].pc # "idle" /\ row[At(w)].refund = None => row[At(w)].status = "issuing"

\* It stays so while runs have their rows to themselves.
LEMMA IssuingStep ==
    ASSUME RefundInv, OneClaim, StillIssuing, [Next]_vars, reading = None
    PROVE  StillIssuing'
<1> USE DEF RefundInv, TypeOK, RunsOK
<1>1. ASSUME NEW w \in Runs, RunStep(w)
      PROVE  StillIssuing'
  <2>1. CASE \E r \in Rows : Claim(w, r)
    <3>1. PICK r \in Rows : Claim(w, r)
      BY <2>1
    <3> DEFINE x == [row[r] EXCEPT !.status = "issuing", !.lapsed = FALSE, !.waiting = FALSE,
                                   !.attempts = @ + 1, !.used = TRUE]
               y == [Idle EXCEPT !.pc = "claimed", !.row = r, !.seq = row[r].seq,
                                 !.attempts = row[r].attempts + 1, !.order = order]
    <3>2. row' = [row EXCEPT ![r] = x] /\ run' = [run EXCEPT ![w] = y] /\ Claimable(r)
      BY <3>1 DEF Claim
    <3>3. x.status = "issuing" /\ y.row = r
      BY DEF RefundRow, Idle
    <3> HIDE DEF x, y
    <3>4. row'[r] = x /\ \A q \in Rows \ {r} : row'[q] = row[q]
      BY <3>2
    <3>5. run'[w] = y /\ \A v \in Runs \ {w} : run'[v] = run[v]
      BY <3>2
    <3>6. \A v \in Runs \ {w} : run[v].pc # "idle" => At(v) # r /\ At(v) \in Rows
      BY <3>2 DEF OneClaim, Claimable, At
    <3> QED BY <3>3, <3>4, <3>5, <3>6 DEF StillIssuing, At
  <2>2. CASE row' = row /\ ~\E r \in Rows : Claim(w, r)
    <3>1. \A v \in Runs : run'[v].pc # "idle" => run[v].pc # "idle" /\ run'[v].row = run[v].row
      <4>1. /\ run[w].pc # "idle" /\ \A v \in Runs \ {w} : run'[v] = run[v]
            /\ run'[w].pc = "idle" \/ run'[w].row = run[w].row
        <5>1. CASE Ask(w) \/ Answered(w) \/ Unclear(w)
          <6>1. run[w] \in RunState /\ run[w].pc # "idle"
            BY <5>1 DEF Ask, Answered, Unclear
          <6>2. \E says, refund :
                  run' \in {[run EXCEPT ![w].pc = "asking"],
                           [run EXCEPT ![w].pc = "answered", ![w].says = says, ![w].refund = refund],
                           [run EXCEPT ![w].pc = "answered", ![w].says = says]}
            BY <5>1 DEF Ask, Answered, Unclear
          <6> QED BY <6>1, <6>2 DEF RunState
        <5>2. CASE DontAsk(w) \/ RecordIssued(w) \/ RecordRetry(w) \/ RecordFailure(w) \/ RunCrashes(w)
          <6>1. run[w].pc # "idle" /\ run' = [run EXCEPT ![w] = Idle] /\ Idle.pc = "idle"
            BY <5>2 DEF DontAsk, RecordIssued, RecordRetry, RecordFailure, RunCrashes, Close, Idle
          <6> QED BY <6>1
        <5> QED BY <1>1, <2>2, <5>1, <5>2 DEF RunStep
      <4> QED BY <4>1
    <3> QED BY <2>2, <3>1 DEF StillIssuing, At
  <2>3. CASE /\ run[w].pc # "idle" /\ run' = [run EXCEPT ![w] = Idle]
             /\ \A q \in Rows \ {run[w].row} : row'[q] = row[q]
    <3>1. run'[w].pc = "idle" /\ \A v \in Runs \ {w} : run'[v] = run[v]
      BY <2>3 DEF Idle
    <3>2. \A v \in Runs \ {w} : run[v].pc # "idle" => At(v) \in Rows \ {run[w].row}
      BY <2>3 DEF OneClaim, At
    <3> QED BY <2>3, <3>1, <3>2 DEF StillIssuing, At
  <2> QED BY <1>1, <2>1, <2>2, <2>3, RunTouches
<1>2. ASSUME ~\E w \in Runs : RunStep(w)
      PROVE  StillIssuing'
  <2>1. run' = run
    BY <1>2, OthersKeep
  <2>2. \A w \in Runs : run[w].pc # "idle" => At(w) \in Rows /\ row[At(w)].status # "none"
    BY DEF At, AskedForRows
  <2>3. CASE SettlementCommits
    <3>1. \A w \in Runs : run[w].pc = "idle"
      BY <2>2, <2>3 DEF SettlementCommits, Beginning
    <3> QED BY <2>1, <3>1 DEF StillIssuing
  <2>4. ASSUME NEW e \in sent, RefundEvent(e)
        PROVE  StillIssuing'
    <3>1. e.refund \in StripeIds /\ e.refund # None /\ Apply(e.refund, e.status, e.at)
      BY <2>4, EventSays, RefundPools DEF RefundEvent
    <3>2. PICK r \in Rows :
            /\ \A q \in Rows \ {r} : row'[q] = row[q]
            /\ row' = row \/ row'[r].refund = e.refund
      BY <3>1, ApplySays
    <3> QED BY <2>1, <2>2, <3>1, <3>2 DEF StillIssuing, At
  <2>5. CASE /\ QuietWords
             /\ \A r \in Rows : row[r].status = "issuing" => row'[r].status = "issuing"
    BY <2>1, <2>2, <2>5 DEF StillIssuing, QuietWords, At
  <2> QED BY <1>2, <2>3, <2>4, <2>5, OthersAreQuiet
<1> QED BY <1>1, <1>2

\* What a step can do to what is held and heeded.
LEMMA HeedSteps ==
    ASSUME RefundInv, [Next]_vars
    PROVE  \/ UNCHANGED <<held, taken, handled, settling>>
           \/ HoldCommits \/ SettlementBegins \/ SettlementCommits
           \/ \E e \in sent : RefundEvent(e)
<1>1. CASE \E w \in Runs : RunStep(w)
  BY <1>1 DEF RunStep, Claim, Ask, DontAsk, Answered, Unclear, RecordIssued, RecordRetry,
              RecordFailure, RunCrashes, ours
<1>2. CASE \E r \in Rows : RowStep(r) \/ \E n \in 0 .. row[r].seq : KeyGetsOld(r, n)
  BY <1>2 DEF RowStep, LeaseRunsOut, WaitEnds, ReadAgain, KeyGetsOld, ours
<1>3. CASE \/ Withdraw \/ FraudWarning \/ Dispute \/ ApplyReading \/ ReadingFails \/ StripeStep
           \/ SessionNears \/ Tick \/ UNCHANGED vars \/ \E e \in sent : HoldBegins(e)
  BY <1>3 DEF Withdraw, FraudWarning, Dispute, ApplyReading, ReadingFails, StripeStep, StripeMakes,
              StripeRefuses, RequestLost, StripeForgets, StripeMoves, Dashboard, SessionNears, Tick,
              HoldBegins, vars, ours
<1> QED BY <1>1, <1>2, <1>3 DEF Next, EventStep

\* Before the settlement no row names a refund.
LEMMA NoNamesYet ==
    ASSUME RefundInv, settling # "done"
    PROVE  \A r \in Rows : row[r].refund = None
BY DEF RefundInv, Beginning, NamesWhatItHeard

\* What is held stays the newest of what was delivered.
LEMMA HeldStep ==
    ASSUME RefundInv, InOrder, HeldIsNewest, [Next]_vars
    PROVE  HeldIsNewest'
<1> USE DEF RefundInv, TypeOK
<1>1. sent \subseteq sent'
  BY SentMoves
<1>2. CASE UNCHANGED <<held, taken, handled, settling>>
  <2>1. \A f, status, at : Said(f, status, at) => Said(f, status, at)'
    BY <1>1 DEF Said
  <2> QED BY <1>2, <2>1 DEF HeldIsNewest, IsNewest, Heeds
<1>3. CASE HoldCommits
  <2>0. PICK e : e = holding
    OBVIOUS
  <2>1. e \in sent /\ settling = "before" /\ settling' = "before" /\ sent' = sent
    BY <1>3, <2>0 DEF HoldCommits, Beginning, EventsOK, stripe
  <2>2. handled' = handled \union {e}
        /\ \A f \in StripeIds : held'[f] = IF f = e.refund THEN Newest(e) ELSE held[f]
    BY <1>3, <2>0 DEF HoldCommits, EventsOK
  <2>3. e.refund \in StripeIds /\ e.status \in RefundStatus /\ Said(e.refund, e.status, e.at)
    BY <2>1, EventSays
  <2>4. ASSUME NEW f \in StripeIds, f # e.refund
        PROVE  IsNewest(f, held[f])'
    BY <2>1, <2>2, <2>4 DEF HeldIsNewest, IsNewest, Heeds, Said
  <2>5. PICK g, was, word : /\ g = e.refund /\ was = held[g]
                            /\ word = [status |-> e.status, at |-> e.at]
                            /\ word.status = e.status /\ word.at = e.at
    <3> DEFINE x == [status |-> e.status, at |-> e.at]
    <3>1. x.status = e.status /\ x.at = e.at
      OBVIOUS
    <3>2. \E y : y = x
      OBVIOUS
    <3> QED BY <3>1, <3>2
  <2>6. Newest(e) = IF was = None \/ MayApply(was, e.status, e.at) THEN word ELSE was
    BY <2>5 DEF Newest
  <2>7. Said(g, e.status, e.at)' /\ held'[g] = Newest(e) /\ g \in StripeIds
    BY <2>1, <2>2, <2>3, <2>5 DEF Said
  <2>8. CASE was = None
    <3>1. \A d \in handled : d.refund # g
      BY <2>1, <2>5, <2>3, <2>8, NoNamesYet, RefundPools DEF HeardIsRecorded
    <3>2. Heeds(g, e.status)'
      BY <2>2, <2>5, <3>1 DEF Heeds, Rank
    <3> QED BY <2>1, <2>5, <2>4, <2>6, <2>7, <2>8, <3>2 DEF HeldIsNewest, IsNewest
  <2>9. CASE was # None
    <3>1. Said(g, was.status, was.at) /\ Heeds(g, was.status)
      BY <2>1, <2>5, <2>3, <2>9 DEF HeldIsNewest, IsNewest
    <3>2. MayApply(was, e.status, e.at) <=> Rank(was.status) <= Rank(e.status)
      BY <2>1, <2>5, <2>7, <3>1, SaidRanks
    <3>3. \A status : Rank(status) \in Nat
      BY DEF Rank
    <3>4. CASE MayApply(was, e.status, e.at)
      <4>1. Heeds(g, e.status)'
        BY <2>2, <2>5, <3>1, <3>2, <3>3, <3>4 DEF Heeds
      <4> QED BY <2>1, <2>5, <2>4, <2>6, <2>7, <3>4, <4>1 DEF HeldIsNewest, IsNewest
    <3>5. CASE ~MayApply(was, e.status, e.at)
      <4>1. Heeds(g, was.status)' /\ Said(g, was.status, was.at)'
        BY <2>1, <2>5, <2>2, <3>1, <3>2, <3>3, <3>5 DEF Heeds, Said
      <4>2. held'[g] = was
        BY <2>6, <2>7, <2>9, <3>5
      <4> QED BY <2>1, <2>5, <2>4, <4>1, <4>2 DEF HeldIsNewest, IsNewest
    <3> QED BY <3>4, <3>5
  <2> QED BY <2>8, <2>9
<1>4. CASE SettlementBegins
  BY <1>4 DEF SettlementBegins, HeldIsNewest, IsNewest, Heeds, Said, stripe
<1>5. CASE SettlementCommits \/ \E e \in sent : RefundEvent(e)
  <2>1. settling' = "done"
    BY <1>5 DEF SettlementCommits, RefundEvent
  <2> QED BY <2>1 DEF HeldIsNewest
<1> QED BY <1>2, <1>3, <1>4, <1>5, HeedSteps

\* Stripe's events only get more, and what was made of a refund was made.
LEMMA SaidLasts ==
    ASSUME RefundInv, [Next]_vars
    PROVE  /\ \A f, status, at : Said(f, status, at) => Said(f, status, at)'
           /\ \A f \in StripeIds : money[f].status # "none" => money'[f].made = money[f].made
<1>1. sent \subseteq sent'
  BY SentMoves
<1>2. \A f \in StripeIds : money[f].status # "none" => money'[f].made = money[f].made
  BY SentSteps DEF SentMove
<1> QED BY <1>1, <1>2 DEF Said

\* A refund no row names, once the payment has settled, was not heard of.
LEMMA UnnamedUnheard ==
    ASSUME RefundInv, settling = "done", NEW f, \A r \in Rows : row[r].refund # f
    PROVE  \A e \in handled : e.refund # f
BY DEF RefundInv, HeardIsRecorded

\* Rows keep the newest word,
LEMMA RowStepKeepsNewest ==
    ASSUME RefundInv, InOrder, LastIsSent, HeldIsNewest, RowIsNewest, StillIssuing, [Next]_vars,
           reading = None
    PROVE  RowIsNewest'
<1> USE DEF RefundInv, TypeOK
<1> DEFINE Heeded(f, status) == \A e \in handled' : e.refund = f => Rank(e.status) <= Rank(status)
           SaidNow(f, status, at) == [refund |-> f, status |-> status, at |-> at] \in sent'
           Fine(r) == /\ Heeded(row'[r].refund, row'[r].status)
                      /\ IF row'[r].at = None THEN row'[r].status = money'[row'[r].refund].made
                         ELSE SaidNow(row'[r].refund, row'[r].status, row'[r].at)
<1>0. ASSUME \A r \in Rows : row'[r].refund # None => Fine(r) PROVE RowIsNewest'
  BY <1>0 DEF RowIsNewest, Heeds, Said
<1>1. /\ \A f, status, at : Said(f, status, at) => SaidNow(f, status, at)
      /\ \A f \in StripeIds : money[f].status # "none" => money'[f].made = money[f].made
  BY SaidLasts DEF Said
<1>2. \A r \in Rows : row[r].refund # None =>
         /\ row[r].refund \in StripeIds /\ money[row[r].refund].status # "none"
         /\ money'[row[r].refund].made = money[row[r].refund].made
  BY <1>1 DEF KnownToStripe, RefundRow
<1>3. \A status : Rank(status) \in Nat
  BY DEF Rank
\* where nothing changes their words and nothing is heard,
<1>4. ASSUME NEW r \in Rows, row[r].refund # None, row'[r].refund = row[r].refund,
             row'[r].status = row[r].status, row'[r].at = row[r].at,
             \A e \in handled' : e \in handled \/ e.refund # row[r].refund
      PROVE  Fine(r)
  BY <1>1, <1>2, <1>4 DEF RowIsNewest, Heeds
<1>5. CASE QuietWords /\ (handled' = handled \/ settling # "done")
  <2>1. ASSUME NEW r \in Rows, row'[r].refund # None
        PROVE  settling = "done" /\ row[r].refund # None
    BY <1>5, <2>1, NoNamesYet DEF QuietWords
  <2>2. \A r \in Rows : row'[r].refund # None => Fine(r)
    BY <1>4, <1>5, <2>1 DEF QuietWords
  <2> QED BY <1>0, <2>2
\* where Stripe's answer is recorded,
<1>6. ASSUME NEW w \in Runs, RecordIssued(w), ~QuietWords
      PROVE  RowIsNewest'
  <2>1. PICK r, f : r = run[w].row /\ f = run[w].refund
    OBVIOUS
  <2>2. /\ r \in Rows /\ row[r].status # "none" /\ settling = "done"
        /\ f \in StripeIds /\ money[f].row = r /\ money[f].status # "none"
        /\ run[w].pc # "idle"
    BY <1>6, <2>1 DEF RecordIssued, RunsOK, AskedForRows, Made, Beginning
  <2> DEFINE x == [row[r] EXCEPT !.refund = IF @ = None THEN f ELSE @,
                     !.status = IF @ \in {"issuing", "due"} THEN money[f].made ELSE @,
                     !.lapsed = FALSE, !.waiting = FALSE]
  <2>3. row' = [row EXCEPT ![r] = x] /\ UNCHANGED <<handled, stripe>>
    BY <1>6, <2>1, <2>2 DEF RecordIssued, Save, Issued
  <2>4. /\ x.refund = (IF row[r].refund = None THEN f ELSE row[r].refund) /\ x.at = row[r].at
        /\ x.status = (IF row[r].status \in {"issuing", "due"} THEN money[f].made ELSE row[r].status)
    BY <2>2 DEF RefundRow
  <2> HIDE DEF x
  <2>5. row'[r] = x /\ \A q \in Rows \ {r} : row'[q] = row[q]
    BY <2>2, <2>3
  <2>6. row[r].refund = None
    BY <1>6, <2>2, <2>4, <2>5 DEF QuietWords, OpenRowHoldsNoRefund
  <2>7. x.refund = f /\ x.at = None /\ x.status = money[f].made
    BY <2>1, <2>2, <2>4, <2>6 DEF StillIssuing, At, NamesWhatItHeard
  <2>8. \A q \in Rows : row[q].refund # f
    BY <2>2, <2>6, RefundPools DEF CarriedAtHome
  <2>9. Heeded(f, x.status)
    BY <2>2, <2>3, <2>8, UnnamedUnheard
  <2>10. ASSUME NEW q \in Rows, row'[q].refund # None
         PROVE  Fine(q)
    <3>1. CASE q = r
      BY <1>1, <2>2, <2>5, <2>7, <2>9, <3>1
    <3>2. CASE q # r
      BY <1>4, <2>3, <2>5, <2>10, <3>2
    <3> QED BY <3>1, <3>2
  <2> QED BY <1>0, <2>10
\* where an event is delivered,
<1>7. ASSUME NEW e \in sent, RefundEvent(e)
      PROVE  RowIsNewest'
  <2>1. PICK f, status, at : f = e.refund /\ status = e.status /\ at = e.at
    OBVIOUS
  <2>2. /\ f \in StripeIds /\ f # None /\ status \in RefundStatus /\ at \in Nat /\ at # None
        /\ Said(f, status, at) /\ SaidNow(f, status, at)
    BY <1>1, <2>1, EventSays, RefundPools
  <2>3. /\ Apply(f, status, at) /\ settling = "done"
        /\ handled' = handled \union {e} /\ UNCHANGED stripe
    BY <1>7, <2>1 DEF RefundEvent
  <2>4. PICK r \in Rows :
          /\ \A q \in Rows \ {r} : row'[q] = row[q] /\ row[q].refund # f
          /\ \/ /\ row' = row /\ row[r].refund = f
                /\ row[r].status = status \/ ~MayApply(row[r], status, at)
             \/ /\ row'[r].refund = f /\ row'[r].status = status /\ row'[r].at = at
                /\ \/ row[r].refund = f /\ MayApply(row[r], status, at)
                   \/ row[r].refund = None
    BY <2>2, <2>3, ApplySays
  <2>5. row[r].refund = f /\ row[r].at # None =>
          /\ Said(f, row[r].status, row[r].at)
          /\ MayApply(row[r], status, at) <=> Rank(row[r].status) <= Rank(status)
    BY <2>1, <2>2, SaidRanks DEF RowIsNewest
  <2>6. row[r].refund = f /\ row[r].at = None => Rank(row[r].status) <= Rank(status)
    <3> SUFFICES ASSUME row[r].refund = f, row[r].at = None
                 PROVE  Rank(row[r].status) <= Rank(status)
      OBVIOUS
    <3>1. row[r].status = money[f].made /\ money[f].status # "none"
      BY <1>2, <2>2 DEF RowIsNewest
    <3> QED BY <1>3, <2>1, <2>2, <3>1 DEF LastIsSent
  <2>7. row'[r].refund = f /\ Heeded(f, row'[r].status)
    <3>1. CASE row' = row /\ row[r].refund = f /\ (row[r].status = status \/ ~MayApply(row[r], status, at))
      <4>1. Heeds(f, row[r].status) /\ Rank(status) <= Rank(row[r].status)
        BY <1>3, <2>2, <2>5, <3>1 DEF RowIsNewest, MayApply
      <4> QED BY <2>1, <2>3, <3>1, <4>1 DEF Heeds
    <3>2. CASE row'[r].status = status /\ row[r].refund = f /\ MayApply(row[r], status, at)
      <4>1. Heeds(f, row[r].status) /\ Rank(row[r].status) <= Rank(status)
        BY <2>2, <2>5, <2>6, <3>2 DEF RowIsNewest
      <4>2. Heeds(f, status)
        BY <1>3, <4>1 DEF Heeds
      <4> QED BY <1>3, <2>1, <2>3, <2>4, <3>2, <4>2 DEF Heeds
    <3>3. CASE row'[r].refund = f /\ row'[r].status = status /\ row[r].refund = None
      <4>1. \A d \in handled : d.refund # f
        BY <2>2, <2>3, <2>4, <3>3, UnnamedUnheard
      <4> QED BY <1>3, <2>1, <2>3, <3>3, <4>1
    <3> QED BY <2>4, <3>1, <3>2, <3>3
  <2>8. IF row'[r].at = None THEN row'[r].status = money'[f].made
        ELSE SaidNow(f, row'[r].status, row'[r].at)
    <3>1. money' = money
      BY <2>3 DEF stripe
    <3> QED BY <1>1, <2>2, <2>4, <3>1 DEF RowIsNewest
  <2>9. ASSUME NEW q \in Rows, row'[q].refund # None
        PROVE  Fine(q)
    <3>1. CASE q = r
      BY <2>7, <2>8, <3>1
    <3>2. CASE q # r
      BY <1>4, <2>1, <2>3, <2>4, <2>9, <3>2
    <3> QED BY <3>1, <3>2
  <2> QED BY <1>0, <2>9
\* and where the settlement writes what was held.
<1>8. CASE SettlementCommits
  <2>1. UNCHANGED <<handled, stripe>> /\ settling = "open"
    BY <1>8 DEF SettlementCommits
  <2>2. ASSUME NEW r \in Rows
        PROVE  row'[r] = NoRow \/ \E f \in HeldRefunds : row'[r] = FromDashboard(f, taken[f].status, taken[f].at)
    <3>1. PICK place \in Injection(HeldRefunds, Rows) :
             row' = [q \in Rows |->
                       IF \E f \in HeldRefunds : place[f] = q
                       THEN LET f == CHOOSE f \in HeldRefunds : place[f] = q
                            IN  FromDashboard(f, taken[f].status, taken[f].at)
                       ELSE NoRow]
      BY <1>8, Zenon DEF SettlementCommits
    <3> QED BY <3>1
  <2>3. ASSUME NEW r \in Rows, row'[r].refund # None
        PROVE  Fine(r)
    <3>1. NoRow.refund = None
      BY DEF NoRow
    <3>2. PICK f \in HeldRefunds : row'[r] = FromDashboard(f, taken[f].status, taken[f].at)
      BY <2>2, <2>3, <3>1
    <3>3. row'[r].refund = f /\ row'[r].status = taken[f].status /\ row'[r].at = taken[f].at
      BY <3>2 DEF FromDashboard, NoRow
    <3>4. /\ f \in StripeIds /\ taken[f] # None /\ taken[f].at \in Moments
          /\ Said(f, taken[f].status, taken[f].at) /\ Heeds(f, taken[f].status)
      BY <2>1 DEF HeldRefunds, HeldIsNewest, IsNewest, EventsOK, Word
    <3>5. taken[f].at # None
      BY <3>4, RefundPools, RefundAmounts DEF Moments
    <3> QED BY <2>1, <3>3, <3>4, <3>5 DEF Heeds, Said, stripe
  <2> QED BY <1>0, <2>3
<1>9. CASE \E w \in Runs : RunStep(w)
  <2>1. PICK w \in Runs : RunStep(w)
    BY <1>9
  <2>2. handled' = handled
    BY <2>1 DEF RunStep, Claim, Ask, DontAsk, Answered, Unclear, RecordIssued, RecordRetry,
                RecordFailure, RunCrashes, ours
  <2> QED BY <1>5, <1>6, <2>1, <2>2, RunIsQuiet
<1>10. CASE ~\E w \in Runs : RunStep(w)
  <2>1. handled' = handled \/ settling # "done" \/ SettlementCommits \/ \E e \in sent : RefundEvent(e)
    BY HeedSteps DEF HoldCommits, SettlementBegins, Beginning
  <2> QED BY <1>5, <1>7, <1>8, <1>10, <2>1, OthersAreQuiet
<1> QED BY <1>9, <1>10

\* Nothing is read again,
LEMMA NothingIsRead ==
    ASSUME "refresh" \notin World, [Next]_vars, reading = None
    PROVE  reading' = None
<1>1. CASE \E w \in Runs : RunStep(w)
  BY <1>1 DEF RunStep, Claim, Ask, DontAsk, Answered, Unclear, RecordIssued, RecordRetry,
              RecordFailure, RunCrashes
<1>2. CASE \E r \in Rows : RowStep(r) \/ \E n \in 0 .. row[r].seq : KeyGetsOld(r, n)
  BY <1>2 DEF RowStep, LeaseRunsOut, WaitEnds, ReadAgain, KeyGetsOld, sweep
<1>3. CASE \/ Withdraw \/ FraudWarning \/ Dispute \/ SettlementBegins \/ SettlementCommits
           \/ ApplyReading \/ ReadingFails \/ StripeStep \/ EventStep \/ SessionNears \/ Tick
           \/ UNCHANGED vars
  BY <1>3 DEF Withdraw, FraudWarning, Dispute, SettlementBegins, SettlementCommits, ApplyReading,
              ReadingFails, StripeStep, StripeMakes, StripeRefuses, RequestLost, StripeForgets,
              StripeMoves, Dashboard, EventStep, HoldCommits, HoldBegins, RefundEvent, SessionNears,
              Tick, vars, sweep
<1> QED BY <1>1, <1>2, <1>3 DEF Next

\* and so what a row says, once all is in, is what Stripe says.
LEMMA NewestIsLast ==
    ASSUME RefundInv, InOrder, LastIsSent, RowIsNewest
    PROVE  NewsIsNeverLost
<1> SUFFICES ASSUME sent \subseteq handled, NEW r \in Rows, row[r].refund # None
             PROVE  row[r].status = money[row[r].refund].status
  BY DEF NewsIsNeverLost
<1> DEFINE f == row[r].refund
           last == LastOf(f)
<1>1. f \in StripeIds /\ money[f].status # "none"
  BY DEF RefundInv, TypeOK, KnownToStripe, RefundRow
<1>2. /\ last \in sent /\ last.refund = f /\ last.status = money[f].status
      /\ \A e \in sent : e.refund = f => e = last \/ Before(e, last)
      /\ last.status = money[f].made \/ Rank(money[f].made) < Rank(last.status)
  BY <1>1 DEF LastIsSent, LastOf
<1> HIDE DEF last
<1>3. Rank(last.status) <= Rank(row[r].status) /\ Rank(last.status) \in Nat /\ Rank(row[r].status) \in Nat
  BY <1>2 DEF RowIsNewest, Heeds, Rank
<1>4. CASE row[r].at = None
  BY <1>2, <1>3, <1>4 DEF RowIsNewest
<1>5. CASE row[r].at # None
  <2> DEFINE e == [refund |-> f, status |-> row[r].status, at |-> row[r].at]
  <2>1. e \in sent
    BY <1>5 DEF RowIsNewest, Said
  <2>2. e.refund = f /\ e.status = row[r].status
    OBVIOUS
  <2> HIDE DEF e
  <2>3. e = last \/ Before(e, last)
    BY <1>2, <2>1, <2>2
  <2> QED BY <1>2, <1>3, <2>2, <2>3 DEF Before
<1> QED BY <1>4, <1>5

\* Once every event is in, in whatever order they came and wherever the settlement fell
\* among them, each row says what Stripe says of its refund (mayApply, holdRefundEvent,
\* applyHeldRefunds, recordRefundIssued), as long as no run outlives its lease and
\* nothing is read again: a late reading may be older than its moment.
THEOREM NewsNeverLost ==
    ASSUME "slow" \notin World, "refresh" \notin World
    PROVE  Spec => []NewsIsNeverLost
<1> DEFINE NewsInv == /\ InOrder /\ LastIsSent /\ HeldIsNewest /\ RowIsNewest /\ StillIssuing
                      /\ OneClaim /\ reading = None
<1>1. Init => NewsInv
  <2> SUFFICES ASSUME Init PROVE NewsInv
    OBVIOUS
  <2>1. /\ \A r \in Rows : row[r].refund = None
        /\ \A f \in StripeIds : money[f].status = "none" /\ held[f] = None
        /\ \A w \in Runs : run[w].pc = "idle"
        /\ sent = {} /\ reading = None /\ settling = "before"
    BY DEF Init, NoRow, NoRefund, Idle
  <2> QED BY <2>1 DEF InOrder, LastIsSent, HeldIsNewest, IsNewest, RowIsNewest, StillIssuing, OneClaim
<1>2. RefundInv /\ NewsInv /\ [Next]_vars => NewsInv'
  BY OrderStep, HeldStep, RowStepKeepsNewest, IssuingStep, OneClaimStep, NothingIsRead
<1>3. RefundInv /\ NewsInv => NewsIsNeverLost
  BY NewestIsLast
<1> HIDE DEF NewsInv
<1> QED BY <1>1, <1>2, <1>3, RefundAlways, PTL DEF Spec

(***************************************************************************)
(* Sums over finite sets.                                                  *)
(***************************************************************************)

\* The sum of f over S, as MapThenSumSet goes about it: first one of the elements, then
\* the others.
First(T) == CHOOSE x \in T : TRUE
IsSum(g, f, S) == g = [T \in SUBSET S |-> IF T = {} THEN 0 ELSE f[First(T)] + g[T \ {First(T)}]]
Sum(f, S) == (CHOOSE g : IsSum(g, f, S))[S]

\* Of finite sets that share a property one is smallest. What follows takes the smallest
\* set for which a claim is false, and finds a smaller one.
LEMMA SmallestSet ==
    ASSUME NEW U, IsFiniteSet(U), NEW B, B \subseteq SUBSET U, B # {}
    PROVE  \E S \in B : \A T \in B : T \subseteq S => T = S
<1>1. B \subseteq FiniteSubsetsOf(U)
  BY FS_Subset DEF FiniteSubsetsOf
<1>2. IsWellFoundedOn(StrictSubsetOrdering(U), FiniteSubsetsOf(U))
  BY FS_StrictSubsetOrderingWellFounded
<1>3. PICK S \in B : \A T \in B : <<T, S>> \notin StrictSubsetOrdering(U)
  BY <1>1, <1>2, WFMin
<1> QED BY <1>3 DEF StrictSubsetOrdering

\* One element of a set that is not empty, and the others.
LEMMA FirstOfSet ==
    ASSUME NEW T, T # {}
    PROVE  First(T) \in T /\ T \ {First(T)} \subseteq T /\ T \ {First(T)} # T
<1>1. First(T) \in T
  BY DEF First
<1> QED BY <1>1

\* What a sum is, at one set.
LEMMA SumAt ==
    ASSUME NEW g, NEW f, NEW S, IsSum(g, f, S), NEW T \in SUBSET S
    PROVE  g[T] = IF T = {} THEN 0 ELSE f[First(T)] + g[T \ {First(T)}]
<1> DEFINE body(X) == IF X = {} THEN 0 ELSE f[First(X)] + g[X \ {First(X)}]
<1>1. g = [X \in SUBSET S |-> body(X)]
  BY DEF IsSum
<1> HIDE DEF body
<1>2. g[T] = body(T)
  BY <1>1
<1> QED BY <1>2 DEF body

\* Sums over two sets agree on what both contain.
LEMMA SumsAgree ==
    ASSUME NEW f, NEW S, NEW T, IsFiniteSet(S), NEW g, IsSum(g, f, S), NEW h, IsSum(h, f, T),
           NEW X, X \subseteq S, X \subseteq T
    PROVE  g[X] = h[X]
<1> DEFINE B == {Y \in SUBSET X : g[Y] # h[Y]}
<1> SUFFICES ASSUME B # {} PROVE FALSE
  OBVIOUS
<1>1. IsFiniteSet(X)
  BY FS_Subset
<1>2. PICK Y \in B : \A Z \in B : Z \subseteq Y => Z = Y
  <2> HIDE DEF B
  <2>1. B \subseteq SUBSET X
    BY DEF B
  <2> QED BY <1>1, <2>1, SmallestSet
<1>3. Y \in SUBSET S /\ Y \in SUBSET T /\ g[Y] # h[Y]
  OBVIOUS
<1>4. Y # {}
  BY <1>3, SumAt
<1>5. First(Y) \in Y /\ Y \ {First(Y)} \subseteq Y /\ Y \ {First(Y)} # Y
  BY <1>4, FirstOfSet
<1>6. g[Y \ {First(Y)}] = h[Y \ {First(Y)}]
  BY <1>2, <1>5
<1> QED BY <1>3, <1>4, <1>6, SumAt

\* A sum over a finite set is what the recursion says.
LEMMA SumOf ==
    ASSUME NEW f, NEW S, IsFiniteSet(S), NEW g, IsSum(g, f, S)
    PROVE  Sum(f, S) = g[S]
<1>1. PICK k : k = CHOOSE h : IsSum(h, f, S)
  OBVIOUS
<1>2. IsSum(k, f, S)
  BY <1>1
<1>3. k[S] = g[S]
  BY <1>2, SumsAgree
<1> QED BY <1>1, <1>3 DEF Sum

\* A finite set has its sum.
LEMMA SumExists ==
    ASSUME NEW f, NEW U, IsFiniteSet(U)
    PROVE  \E g : IsSum(g, f, U)
<1> DEFINE B == {T \in SUBSET U : ~\E g : IsSum(g, f, T)}
<1> SUFFICES ASSUME B # {} PROVE FALSE
  OBVIOUS
<1>1. PICK S \in B : \A T \in B : T \subseteq S => T = S
  <2> HIDE DEF B
  <2>1. B \subseteq SUBSET U
    BY DEF B
  <2> QED BY <2>1, SmallestSet
<1>2. \A T \in SUBSET S : T # S => \E g : IsSum(g, f, T)
  BY <1>1
<1>3. \A T \in SUBSET S : IsFiniteSet(T)
  BY FS_Subset
<1> DEFINE G == [T \in SUBSET S |-> IF T = {} THEN 0 ELSE f[First(T)] + Sum(f, T \ {First(T)})]
<1>4. ASSUME NEW T \in SUBSET S, T # S
      PROVE  G[T] = Sum(f, T)
  <2>1. PICK g : IsSum(g, f, T)
    BY <1>2, <1>4
  <2>2. Sum(f, T) = g[T]
    BY <1>3, <2>1, SumOf
  <2>3. g[T] = IF T = {} THEN 0 ELSE f[First(T)] + g[T \ {First(T)}]
    BY <2>1, SumAt
  <2>4. CASE T = {}
    BY <2>2, <2>3, <2>4
  <2>5. CASE T # {}
    <3> DEFINE Z == T \ {First(T)}
    <3>1. Z \in SUBSET S /\ Z # S /\ Z \subseteq T
      BY <2>5, FirstOfSet
    <3>2. PICK h : IsSum(h, f, Z)
      BY <1>2, <3>1
    <3>3. Sum(f, Z) = h[Z]
      BY <1>3, <3>1, <3>2, SumOf
    <3>4. g[Z] = h[Z]
      <4> HIDE DEF Z
      <4> QED BY <1>3, <2>1, <3>1, <3>2, SumsAgree
    <3> QED BY <2>2, <2>3, <2>5, <3>3, <3>4
  <2> QED BY <2>4, <2>5
<1>5. ASSUME NEW T \in SUBSET S, T # {}
      PROVE  Sum(f, T \ {First(T)}) = G[T \ {First(T)}]
  <2>1. T \ {First(T)} \in SUBSET S /\ T \ {First(T)} # S
    BY <1>5, FirstOfSet
  <2> HIDE DEF G
  <2> QED BY <1>4, <2>1
<1>6. IsSum(G, f, S)
  <2>1. \A T \in SUBSET S : (IF T = {} THEN 0 ELSE f[First(T)] + Sum(f, T \ {First(T)}))
                            = (IF T = {} THEN 0 ELSE f[First(T)] + G[T \ {First(T)}])
    <3> HIDE DEF G
    <3> QED BY <1>5
  <2>2. [T \in SUBSET S |-> IF T = {} THEN 0 ELSE f[First(T)] + Sum(f, T \ {First(T)})]
        = [T \in SUBSET S |-> IF T = {} THEN 0 ELSE f[First(T)] + G[T \ {First(T)}]]
    <3> HIDE DEF G
    <3> QED BY <2>1
  <2> QED BY <2>2 DEF IsSum
<1> QED BY <1>1, <1>6

\* The sum, taken one element first.
LEMMA SumStep ==
    ASSUME NEW f, NEW S, IsFiniteSet(S)
    PROVE  Sum(f, S) = IF S = {} THEN 0 ELSE f[First(S)] + Sum(f, S \ {First(S)})
<1>1. PICK g : IsSum(g, f, S)
  BY SumExists
<1>2. Sum(f, S) = g[S]
  BY <1>1, SumOf
<1>3. g[S] = IF S = {} THEN 0 ELSE f[First(S)] + g[S \ {First(S)}]
  BY <1>1, SumAt
<1>4. PICK T : T = S \ {First(S)}
  OBVIOUS
<1>5. T \subseteq S /\ IsFiniteSet(T)
  BY <1>4, FS_Subset
<1>6. PICK h : IsSum(h, f, T)
  BY <1>5, SumExists
<1>7. Sum(f, T) = h[T]
  BY <1>5, <1>6, SumOf
<1>8. g[T] = h[T]
  BY <1>1, <1>5, <1>6, SumsAgree
<1> QED BY <1>2, <1>3, <1>4, <1>7, <1>8

\* Of natural numbers it is one.
LEMMA SumIsNat ==
    ASSUME NEW f, NEW U, IsFiniteSet(U), \A x \in U : f[x] \in Nat
    PROVE  \A S \in SUBSET U : Sum(f, S) \in Nat
<1> DEFINE B == {T \in SUBSET U : Sum(f, T) \notin Nat}
<1> SUFFICES ASSUME B # {} PROVE FALSE
  OBVIOUS
<1>1. PICK S \in B : \A T \in B : T \subseteq S => T = S
  <2> HIDE DEF B
  <2>1. B \subseteq SUBSET U
    BY DEF B
  <2> QED BY <2>1, SmallestSet
<1>2. IsFiniteSet(S) /\ S \subseteq U /\ Sum(f, S) \notin Nat
  BY FS_Subset
<1>3. Sum(f, S) = IF S = {} THEN 0 ELSE f[First(S)] + Sum(f, S \ {First(S)})
  BY <1>2, SumStep
<1>4. S # {}
  BY <1>2, <1>3
<1>5. First(S) \in S /\ S \ {First(S)} \subseteq S /\ S \ {First(S)} # S
  BY <1>4, FirstOfSet
<1>6. Sum(f, S \ {First(S)}) \in Nat
  BY <1>1, <1>2, <1>5
<1> QED BY <1>2, <1>3, <1>4, <1>5, <1>6

\* Any element may come first.
LEMMA SumTakes ==
    ASSUME NEW f, NEW U, IsFiniteSet(U), \A x \in U : f[x] \in Nat
    PROVE  \A S \in SUBSET U : \A x \in S : Sum(f, S) = f[x] + Sum(f, S \ {x})
<1> DEFINE B == {T \in SUBSET U : \E x \in T : Sum(f, T) # f[x] + Sum(f, T \ {x})}
<1> SUFFICES ASSUME B # {} PROVE FALSE
  OBVIOUS
<1>1. PICK S \in B : \A T \in B : T \subseteq S => T = S
  <2> HIDE DEF B
  <2>1. B \subseteq SUBSET U
    BY DEF B
  <2> QED BY <2>1, SmallestSet
<1>2. PICK x \in S : Sum(f, S) # f[x] + Sum(f, S \ {x})
  OBVIOUS
<1>3. \A T \in SUBSET S : T # S => \A y \in T : Sum(f, T) = f[y] + Sum(f, T \ {y})
  BY <1>1
<1>4. \A T \in SUBSET S : T \subseteq U /\ IsFiniteSet(T) /\ Sum(f, T) \in Nat
  BY FS_Subset, SumIsNat
<1> HIDE DEF B
<1>5. PICK a : a = First(S)
  OBVIOUS
<1>6. a \in S /\ Sum(f, S) = f[a] + Sum(f, S \ {a})
  BY <1>4, <1>5, FirstOfSet, SumStep
<1>7. a # x
  BY <1>2, <1>6
<1>8. PICK A, X, Z : A = S \ {a} /\ X = S \ {x} /\ Z = S \ {a, x}
  OBVIOUS
<1>9. /\ A \in SUBSET S /\ A # S /\ x \in A /\ A \ {x} = Z
      /\ X \in SUBSET S /\ X # S /\ a \in X /\ X \ {a} = Z /\ Z \in SUBSET S
  BY <1>6, <1>7, <1>8
<1>10. Sum(f, A) = f[x] + Sum(f, Z) /\ Sum(f, X) = f[a] + Sum(f, Z)
  BY <1>3, <1>9
<1>11. f[a] \in Nat /\ f[x] \in Nat /\ Sum(f, Z) \in Nat
  BY <1>4, <1>6, <1>9
<1> QED BY <1>2, <1>6, <1>8, <1>10, <1>11

\* Summands matched with others at least as large add up to no more.
LEMMA SumInjects ==
    ASSUME NEW f, NEW U, NEW g, NEW V, IsFiniteSet(U), IsFiniteSet(V),
           NEW h, \A x \in U : h[x] \in V /\ f[x] \in Nat /\ f[x] <= g[h[x]],
           \A x, y \in U : h[x] = h[y] => x = y,
           \A y \in V : g[y] \in Nat
    PROVE  Sum(f, U) <= Sum(g, V)
<1> DEFINE Fits(S, T) == \A x \in S : h[x] \in T
           B == {S \in SUBSET U : \E T \in SUBSET V : Fits(S, T) /\ ~(Sum(f, S) <= Sum(g, T))}
<1> SUFFICES ASSUME B # {} PROVE FALSE
  OBVIOUS
<1>1. PICK S \in B : \A T \in B : T \subseteq S => T = S
  <2> HIDE DEF B
  <2>1. B \subseteq SUBSET U
    BY DEF B
  <2> QED BY <2>1, SmallestSet
<1>2. PICK T \in SUBSET V : Fits(S, T) /\ ~(Sum(f, S) <= Sum(g, T))
  OBVIOUS
<1>3. \A X \in SUBSET S : X # S => \A Y \in SUBSET V : Fits(X, Y) => Sum(f, X) <= Sum(g, Y)
  BY <1>1
<1>4. S \in SUBSET U
  OBVIOUS
<1> HIDE DEF B
<1>5. Sum(g, T) \in Nat /\ \A X \in SUBSET S : Sum(f, X) \in Nat
  BY <1>4, SumIsNat
<1>6. S # {}
  <2> SUFFICES ASSUME S = {} PROVE FALSE
    OBVIOUS
  <2>1. Sum(f, S) = 0
    BY FS_EmptySet, SumStep
  <2>2. 0 <= Sum(g, T)
    BY <1>5
  <2> QED BY <1>2, <2>1, <2>2
<1>7. PICK x \in S : TRUE
  BY <1>6
<1>8. PICK X, Y, y : X = S \ {x} /\ y = h[x] /\ Y = T \ {y}
  OBVIOUS
<1>9. X \in SUBSET S /\ X # S /\ Y \in SUBSET V /\ Fits(X, Y) /\ y \in T
  BY <1>2, <1>4, <1>7, <1>8
<1>10. Sum(f, X) <= Sum(g, Y)
  BY <1>3, <1>9
<1>11. Sum(f, S) = f[x] + Sum(f, X) /\ Sum(g, T) = g[y] + Sum(g, Y)
  BY <1>4, <1>7, <1>8, <1>9, SumTakes
<1>12. f[x] \in Nat /\ g[y] \in Nat /\ f[x] <= g[y] /\ Sum(f, X) \in Nat /\ Sum(g, Y) \in Nat
  BY <1>4, <1>5, <1>7, <1>8, <1>9, SumIsNat
<1> QED BY <1>2, <1>10, <1>11, <1>12

(***************************************************************************)
(* The money that went back.                                               *)
(***************************************************************************)

\* The refunds whose money went, and what a record of refunds adds up to.
Gone(refunds) == {f \in StripeIds : refunds[f].went}
Back(refunds) == Sum([f \in StripeIds |-> refunds[f].amount], Gone(refunds))

\* What the model's sums are: over the rows that succeeded,
LEMMA SucceededIsSum ==
    ASSUME NEW rows
    PROVE  Succeeded(rows) = Sum([r \in Rows |-> rows[r].amount],
                                 {r \in Rows : rows[r].status = "succeeded"})
<1> DEFINE S == {r \in Rows : rows[r].status = "succeeded"}
           f == [r \in Rows |-> rows[r].amount]
           SumIs(g) == g = [T \in SUBSET S |-> IF T = {} THEN 0
                                               ELSE rows[First(T)].amount + g[T \ {First(T)}]]
<1>1. Succeeded(rows) = (CHOOSE g : SumIs(g))[S]
  BY DEF Succeeded, Total, MapThenSumSet, MapThenFoldSet, First
<1>2. ASSUME NEW g PROVE SumIs(g) <=> IsSum(g, f, S)
  <2>1. \A T \in SUBSET S : T # {} => rows[First(T)].amount = f[First(T)]
    BY FirstOfSet
  <2> HIDE DEF f, S
  <2>2. [T \in SUBSET S |-> IF T = {} THEN 0 ELSE rows[First(T)].amount + g[T \ {First(T)}]]
        = [T \in SUBSET S |-> IF T = {} THEN 0 ELSE f[First(T)] + g[T \ {First(T)}]]
    BY <2>1
  <2> QED BY <2>2 DEF IsSum
<1> HIDE DEF f, S, SumIs
<1>3. (CHOOSE g : SumIs(g)) = (CHOOSE g : IsSum(g, f, S))
  BY <1>2
<1> QED BY <1>1, <1>3 DEF Sum, f, S

\* and over the refunds whose money went, before and after a step.
LEMMA WentBackIsSum == WentBack = Back(money) /\ WentBack' = Back(money')
<1>1. ASSUME NEW refunds, NEW S, S = Gone(refunds), NEW sum,
             sum = (CHOOSE g : g = [T \in SUBSET S |-> IF T = {} THEN 0
                                    ELSE refunds[First(T)].amount + g[T \ {First(T)}]])[S]
      PROVE  sum = Back(refunds)
  <2> DEFINE f == [x \in StripeIds |-> refunds[x].amount]
             SumIs(g) == g = [T \in SUBSET S |-> IF T = {} THEN 0
                                                 ELSE refunds[First(T)].amount + g[T \ {First(T)}]]
  <2>1. sum = (CHOOSE g : SumIs(g))[S]
    BY <1>1
  <2>2. ASSUME NEW g PROVE SumIs(g) <=> IsSum(g, f, S)
    <3>1. \A T \in SUBSET S : T # {} => refunds[First(T)].amount = f[First(T)]
      BY <1>1, FirstOfSet DEF Gone
    <3> HIDE DEF f
    <3>2. [T \in SUBSET S |-> IF T = {} THEN 0 ELSE refunds[First(T)].amount + g[T \ {First(T)}]]
          = [T \in SUBSET S |-> IF T = {} THEN 0 ELSE f[First(T)] + g[T \ {First(T)}]]
      BY <3>1
    <3> QED BY <3>2 DEF IsSum
  <2> HIDE DEF f, SumIs
  <2>3. (CHOOSE g : SumIs(g)) = (CHOOSE g : IsSum(g, f, S))
    BY <2>2
  <2> QED BY <1>1, <2>1, <2>3 DEF Sum, f, Back
<1>2. WentBack = Back(money)
  <2> DEFINE S == Gone(money)
  <2>1. WentBack = (CHOOSE g : g = [T \in SUBSET S |-> IF T = {} THEN 0
                                    ELSE money[First(T)].amount + g[T \ {First(T)}]])[S]
    BY DEF WentBack, Total, MapThenSumSet, MapThenFoldSet, First, Gone
  <2> HIDE DEF S
  <2> QED BY <1>1, <2>1 DEF S
<1>3. WentBack' = Back(money')
  <2> DEFINE S == Gone(money')
  <2>1. WentBack' = (CHOOSE g : g = [T \in SUBSET S |-> IF T = {} THEN 0
                                     ELSE money'[First(T)].amount + g[T \ {First(T)}]])[S]
    BY DEF WentBack, Total, MapThenSumSet, MapThenFoldSet, First, Gone
  <2> HIDE DEF S
  <2> QED BY <1>1, <2>1 DEF S
<1> QED BY <1>2, <1>3

\* What went back only grows: a refund keeps its amount, and what went has gone.
LEMMA BackGrows ==
    ASSUME NEW before, NEW after, IsFiniteSet(Gone(after)),
           \A f \in Gone(after) : after[f].amount \in Nat,
           \A f \in Gone(before) : f \in Gone(after) /\ after[f].amount = before[f].amount
    PROVE  Back(before) \in Nat /\ Back(after) \in Nat /\ Back(before) <= Back(after)
<1> DEFINE f == [x \in StripeIds |-> before[x].amount]
           g == [x \in StripeIds |-> after[x].amount]
           h == [x \in Gone(before) |-> x]
<1>1. IsFiniteSet(Gone(before))
  BY FS_Subset
<1>2. \A x \in Gone(before) : h[x] \in Gone(after) /\ f[x] \in Nat /\ f[x] <= g[h[x]]
  BY DEF Gone
<1>3. \A x, y \in Gone(before) : h[x] = h[y] => x = y
  OBVIOUS
<1>4. \A y \in Gone(after) : g[y] \in Nat
  BY DEF Gone
<1> HIDE DEF f, g, h
<1>5. Sum(f, Gone(before)) <= Sum(g, Gone(after))
  BY <1>1, <1>2, <1>3, <1>4, SumInjects
<1>6. \A x \in Gone(before) : f[x] \in Nat
  BY DEF f, Gone
<1>7. Sum(f, Gone(before)) \in Nat /\ Sum(g, Gone(after)) \in Nat
  BY <1>1, <1>4, <1>6, SumIsNat
<1> QED BY <1>5, <1>7 DEF Back, f, g

\* Rows that each carry a refund of their own, whose money went, add up to no more than
\* went back.
LEMMA RowsWithinBack ==
    ASSUME NEW rows, NEW refunds, IsFiniteSet(Gone(refunds)),
           \A f \in Gone(refunds) : refunds[f].amount \in Nat,
           \A r \in Rows : rows[r].status = "succeeded" =>
               rows[r].refund \in Gone(refunds) /\ rows[r].amount = refunds[rows[r].refund].amount,
           \A r, q \in Rows :
               rows[r].status = "succeeded" /\ rows[r].refund = rows[q].refund => r = q
    PROVE  Succeeded(rows) \in Nat /\ Succeeded(rows) <= Back(refunds)
<1> DEFINE S == {r \in Rows : rows[r].status = "succeeded"}
           f == [r \in Rows |-> rows[r].amount]
           g == [x \in StripeIds |-> refunds[x].amount]
           h == [r \in S |-> rows[r].refund]
<1>1. h \in Injection(S, Gone(refunds))
  <2>1. h \in [S -> Gone(refunds)]
    OBVIOUS
  <2>2. \A r, q \in S : h[r] = h[q] => r = q
    OBVIOUS
  <2> HIDE DEF h, S
  <2> QED BY <2>1, <2>2 DEF Injection, IsInjective
<1>2. IsFiniteSet(S)
  <2> HIDE DEF h, S
  <2> QED BY <1>1, FS_Injection
<1>3. \A r \in S : h[r] \in Gone(refunds) /\ f[r] \in Nat /\ f[r] <= g[h[r]]
  BY DEF Gone
<1>4. \A r, q \in S : h[r] = h[q] => r = q
  OBVIOUS
<1>5. \A y \in Gone(refunds) : g[y] \in Nat
  BY DEF Gone
<1>6. Sum(f, S) <= Sum(g, Gone(refunds))
  <2> HIDE DEF f, g, h, S
  <2> QED BY <1>2, <1>3, <1>4, <1>5, SumInjects
<1>7. Sum(f, S) \in Nat
  <2> HIDE DEF f, g, h, S
  <2> QED BY <1>2, <1>3, SumIsNat
<1> QED BY <1>6, <1>7, SucceededIsSum DEF Back

\* Who is told that a refund succeeded is told the truth: its money went, if only to
\* bounce afterwards.
TrueOf(f, status) == status = "succeeded" => money[f].went
WordsAreTrue ==
    /\ \A f \in StripeIds : /\ TrueOf(f, money[f].status) /\ TrueOf(f, money[f].made)
                            /\ money[f].went => money[f].status # "none"
                            /\ held[f] # None => TrueOf(f, held[f].status)
                            /\ taken[f] # None => TrueOf(f, taken[f].status)
    /\ \A e \in sent : TrueOf(e.refund, e.status)
    /\ reading # None => TrueOf(reading.refund, reading.status)

\* A refund made for a row is for all of the money.
MadeInFull == \A f \in StripeIds : money[f].row # None => money[f].amount = Gross

\* A row is for what its refund is for, or while it has none for all of the money; one
\* that succeeded has a refund whose money went.
RowsAreBacked ==
    \A r \in Rows :
        /\ row[r].status = "succeeded" => row[r].refund # None /\ money[row[r].refund].went
        /\ row[r].status # "none" =>
             row[r].amount = IF row[r].refund = None THEN Gross ELSE money[row[r].refund].amount

\* Who takes the order for refunded does so when all of the money has gone.
TakenForRefunded ==
    \/ order = "refunded"
    \/ \E r \in Rows : row[r].status = "superseded"
    \/ \E w \in Runs : run[w].order = "refunded"
PaidOff == TakenForRefunded => WentBack >= Gross

WrittenInv ==
    WordsAreTrue /\ MadeInFull /\ RowsAreBacked /\ IsFiniteSet(Gone(money)) /\ PaidOff

\* Refunds keep their amounts, and one at a time comes to have gone.
Grows ==
    /\ \A f \in StripeIds : /\ money[f].status # "none" => money'[f].amount = money[f].amount
                            /\ money[f].went => money'[f].went
    /\ \E f : Gone(money') \subseteq Gone(money) \union {f}

\* It is so at every step, and what is said of refunds stays true.
LEMMA WordsStep ==
    ASSUME RefundInv, WordsAreTrue, MadeInFull, [Next]_vars
    PROVE  Grows /\ WordsAreTrue' /\ MadeInFull'
<1> USE DEF RefundInv, TypeOK, EventsOK
<1>1. SentMove /\ HeldMove
  BY SentSteps, HeldMoves
<1>2. holding # None => holding \in sent
  OBVIOUS
<1>3. \A e \in sent : e.refund \in StripeIds
  BY DEF Events
<1>4. CASE UNCHANGED <<money, sent>>
  <2>1. Grows
    BY <1>4 DEF Grows
  <2>2. \A f, status : TrueOf(f, status)' <=> TrueOf(f, status)
    BY <1>4 DEF TrueOf
  <2>3. ASSUME NEW f \in StripeIds
        PROVE  /\ held'[f] # None => TrueOf(f, held'[f].status)
               /\ taken'[f] # None => TrueOf(f, taken'[f].status)
    BY <1>1, <1>2, <1>3 DEF HeldMove, WordsAreTrue
  <2>4. reading' # None => TrueOf(reading'.refund, reading'.status)
    BY <1>1 DEF HeldMove, WordsAreTrue
  <2>5. WordsAreTrue'
    BY <1>4, <2>2, <2>3, <2>4 DEF WordsAreTrue
  <2> QED BY <1>4, <2>1, <2>5 DEF MadeInFull
<1>5. ASSUME NEW f \in StripeIds, NEW status \in RefundStatus,
             UNCHANGED <<held, taken>>,
             sent' = sent \union {[refund |-> f, status |-> status, at |-> EventMoment]},
             \A g \in StripeIds \ {f} : money'[g] = money[g],
             money'[f].status = status, status = "succeeded" => money'[f].went,
             \/ /\ money[f].status = "none" /\ money'[f].made = status
                /\ money'[f].row # None => money'[f].amount = Gross
             \/ /\ money'[f].made = money[f].made /\ money'[f].amount = money[f].amount
                /\ money'[f].row = money[f].row /\ (money[f].went => money'[f].went)
      PROVE  Grows /\ WordsAreTrue' /\ MadeInFull'
  <2> DEFINE Then(g, says) == says = "succeeded" => money'[g].went
  <2>1. \A g \in StripeIds : money[g].went => money'[g].went
    BY <1>5 DEF WordsAreTrue
  <2>2. Grows
    <3>1. Gone(money') \subseteq Gone(money) \union {f}
      BY <1>5 DEF Gone
    <3> QED BY <1>5, <2>1, <3>1 DEF Grows
  <2>3. \A g \in StripeIds : \A says : TrueOf(g, says) => Then(g, says)
    BY <2>1 DEF TrueOf
  <2>4. Then(f, status)
    BY <1>5
  <2>5. \A e \in sent' : Then(e.refund, e.status)
    <3> DEFINE x == [refund |-> f, status |-> status, at |-> EventMoment]
    <3>1. x.refund = f /\ x.status = status /\ sent' = sent \union {x}
      BY <1>5
    <3> HIDE DEF x
    <3> QED BY <1>3, <2>3, <2>4, <3>1 DEF WordsAreTrue
  <2>6. ASSUME NEW g \in StripeIds
        PROVE  /\ Then(g, money'[g].status) /\ Then(g, money'[g].made)
               /\ money'[g].went => money'[g].status # "none"
    <3>1. CASE g = f
      <4>1. status # "none"
        BY DEF RefundStatus
      <4>2. Then(f, money'[f].made)
        BY <1>5, <2>3, <2>4 DEF WordsAreTrue
      <4> QED BY <1>5, <2>4, <3>1, <4>1, <4>2
    <3>2. CASE g # f
      BY <1>5, <2>3, <3>2 DEF WordsAreTrue
    <3> QED BY <3>1, <3>2
  <2>7. \A g \in StripeIds : /\ held'[g] # None => Then(g, held'[g].status)
                             /\ taken'[g] # None => Then(g, taken'[g].status)
    BY <1>5, <2>3 DEF WordsAreTrue
  <2>8. reading' # None => Then(reading'.refund, reading'.status)
    <3>1. reading' # None => reading'.refund \in StripeIds /\ TrueOf(reading'.refund, reading'.status)
      BY <1>1 DEF HeldMove, WordsAreTrue
    <3> QED BY <2>3, <3>1
  <2>9. WordsAreTrue'
    BY <2>5, <2>6, <2>7, <2>8 DEF WordsAreTrue, TrueOf
  <2>10. MadeInFull'
    BY <1>5 DEF MadeInFull
  <2> QED BY <2>2, <2>9, <2>10
<1> QED BY <1>1, <1>4, <1>5 DEF SentMove

\* Rows stay backed by what Stripe made.
LEMMA BackedStep ==
    ASSUME RefundInv, WordsAreTrue, MadeInFull, RowsAreBacked, [Next]_vars
    PROVE  RowsAreBacked'
<1> USE DEF RefundInv, TypeOK
<1>1. RowMove /\ MoneyMove /\ Grows
  BY EveryMove, MoneyMoves, WordsStep
<1>2. CASE row' = row
  <2>1. ASSUME NEW r \in Rows, row[r].refund # None
        PROVE  /\ money'[row[r].refund].amount = money[row[r].refund].amount
               /\ money[row[r].refund].went => money'[row[r].refund].went
    <3>1. row[r].refund \in StripeIds /\ money[row[r].refund].status # "none"
      BY <2>1 DEF KnownToStripe, RefundRow
    <3> QED BY <1>1, <3>1 DEF Grows
  <2> QED BY <1>2, <2>1 DEF RowsAreBacked
<1>3. CASE row' # row
  <2>1. money' = money
    BY <1>1, <1>3 DEF MoneyMove
  <2>2. ASSUME NEW r \in Rows, NEW x \in RefundRow, row' = [row EXCEPT ![r] = x],
               Opens(r, x) \/ Keeps(r, x) \/ Carries(r, x)
        PROVE  RowsAreBacked'
    <3>1. /\ x.status = "succeeded" => x.refund # None /\ money[x.refund].went
          /\ x.status # "none" => x.amount = IF x.refund = None THEN Gross ELSE money[x.refund].amount
      <4>1. CASE Opens(r, x)
        BY <4>1 DEF Opens
      <4>2. CASE Keeps(r, x)
        BY <4>2 DEF Keeps, RowsAreBacked
      <4>3. CASE Carries(r, x)
        <5>1. x.refund \in StripeIds /\ x.refund # None /\ row[r].refund \in {None, x.refund}
          BY <4>3, RefundPools DEF Carries
        <5>2. x.amount = money[x.refund].amount
          <6>1. CASE row[r].status = "none"
            BY <4>3, <6>1 DEF Carries
          <6>2. CASE row[r].status # "none" /\ row[r].refund = x.refund
            BY <4>3, <5>1, <6>2 DEF Carries, RowsAreBacked
          <6>3. CASE row[r].status # "none" /\ row[r].refund = None
            <7>1. money[x.refund].row = r /\ r # None
              BY <4>3, <6>3, RefundPools DEF Carries
            <7> QED BY <4>3, <5>1, <6>3, <7>1 DEF Carries, RowsAreBacked, MadeInFull
          <6> QED BY <5>1, <6>1, <6>2, <6>3
        <5>3. ASSUME Heard(x.refund, "succeeded") PROVE money[x.refund].went
          BY <5>1, <5>3 DEF Heard, WordsAreTrue, TrueOf
        <5>4. x.status = "succeeded" => money[x.refund].went
          BY <4>3, <5>1, <5>3 DEF Carries, RowsAreBacked
        <5> QED BY <5>1, <5>2, <5>4
      <4> QED BY <2>2, <4>1, <4>2, <4>3
    <3>2. row'[r] = x /\ \A q \in Rows \ {r} : row'[q] = row[q]
      BY <2>2
    <3> QED BY <2>1, <3>1, <3>2 DEF RowsAreBacked
  <2>3. CASE Settles
    <3>1. ASSUME NEW r \in Rows, row'[r] # NoRow
          PROVE  /\ row'[r].refund \in StripeIds /\ row'[r].refund # None
                 /\ row'[r].amount = money[row'[r].refund].amount
                 /\ row'[r].status = "succeeded" => money[row'[r].refund].went
      <4>1. row'[r].refund \in HeldRefunds /\ row'[r].status = taken[row'[r].refund].status
            /\ row'[r].amount = money[row'[r].refund].amount
        BY <2>3, <3>1 DEF Settles
      <4> QED BY <4>1, RefundPools DEF HeldRefunds, WordsAreTrue, TrueOf
    <3>2. NoRow.status = "none"
      BY DEF NoRow
    <3> QED BY <2>1, <3>1, <3>2 DEF RowsAreBacked
  <2> QED BY <1>1, <1>3, <2>2, <2>3 DEF RowMove
<1> QED BY <1>2, <1>3

\* A run knows of the order what its claim read.
LEMMA RunReads ==
    ASSUME RefundInv, [Next]_vars, NEW w \in Runs, run'[w].order = "refunded"
    PROVE  run[w].order = "refunded" \/ order = "refunded"
<1> USE DEF RefundInv, TypeOK, RunsOK
<1>1. CASE UNCHANGED run
  BY <1>1
<1>2. ASSUME NEW v \in Runs, RunStep(v)
      PROVE  run[w].order = "refunded" \/ order = "refunded"
  <2>1. ASSUME NEW r \in Rows, Claim(v, r)
        PROVE  run[w].order = "refunded" \/ order = "refunded"
    <3> DEFINE y == [Idle EXCEPT !.pc = "claimed", !.row = r, !.seq = row[r].seq,
                                 !.attempts = row[r].attempts + 1, !.order = order]
    <3>1. run' = [run EXCEPT ![v] = y] /\ y.order = order
      BY <2>1 DEF Claim, Idle
    <3> HIDE DEF y
    <3> QED BY <3>1
  <2>2. CASE Ask(v) \/ Answered(v) \/ Unclear(v)
    <3>1. run[v] \in RunState
      OBVIOUS
    <3>2. \E says, refund :
            run' \in {[run EXCEPT ![v].pc = "asking"],
                     [run EXCEPT ![v].pc = "answered", ![v].says = says, ![v].refund = refund],
                     [run EXCEPT ![v].pc = "answered", ![v].says = says]}
      BY <2>2 DEF Ask, Answered, Unclear
    <3>3. run'[w].order = run[w].order
      BY <3>1, <3>2 DEF RunState
    <3> QED BY <3>3
  <2>3. CASE DontAsk(v) \/ RecordIssued(v) \/ RecordRetry(v) \/ RecordFailure(v) \/ RunCrashes(v)
    <3>1. run' = [run EXCEPT ![v] = Idle] /\ Idle.order # "refunded"
      BY <2>3 DEF DontAsk, RecordIssued, RecordRetry, RecordFailure, RunCrashes, Close, Idle
    <3> QED BY <3>1
  <2> QED BY <1>2, <2>1, <2>2, <2>3 DEF RunStep
<1> QED BY <1>1, <1>2, OthersKeep

\* Nothing is called refunded, and nothing dropped, before all of the money has gone.
LEMMA PaidOffStep ==
    ASSUME RefundInv, WrittenInv, [Next]_vars, RowsAreBacked', OneRowPerRefund', TypeOK'
    PROVE  IsFiniteSet(Gone(money')) /\ PaidOff'
<1> USE DEF RefundInv, TypeOK, WrittenInv
<1>1. Grows /\ RowMove /\ OrderMove
  BY WordsStep, EveryMove
<1>2. IsFiniteSet(Gone(money'))
  <2>1. PICK f : Gone(money') \subseteq Gone(money) \union {f}
    BY <1>1 DEF Grows
  <2>2. IsFiniteSet(Gone(money) \union {f})
    BY FS_AddElement
  <2> QED BY <2>1, <2>2, FS_Subset
<1>3. \A f \in StripeIds : money'[f].amount \in Nat /\ (f \in Gone(money') <=> money'[f].went)
  BY RefundAmounts DEF StripeOK, StripeRefund, Gone
<1>4. WentBack \in Nat /\ WentBack' \in Nat /\ WentBack <= WentBack'
  <2>1. \A f \in Gone(money) : f \in Gone(money') /\ money'[f].amount = money[f].amount
    BY <1>1 DEF Grows, WordsAreTrue, Gone
  <2>2. \A f \in Gone(money') : money'[f].amount \in Nat
    BY <1>3 DEF Gone
  <2>3. Back(money) \in Nat /\ Back(money') \in Nat /\ Back(money) <= Back(money')
    BY <1>2, <2>1, <2>2, BackGrows
  <2> QED BY <2>3, WentBackIsSum
<1>5. Succeeded(row') \in Nat /\ Succeeded(row') <= WentBack'
  <2>1. ASSUME NEW r \in Rows, row'[r].status = "succeeded"
        PROVE  /\ row'[r].refund \in Gone(money') /\ row'[r].refund # None
               /\ row'[r].amount = money'[row'[r].refund].amount
    <3>1. row'[r].refund \in StripeIds \union {None}
      BY DEF RefundRow
    <3> QED BY <2>1, <3>1 DEF RowsAreBacked, Gone
  <2>2. \A r, q \in Rows : row'[r].status = "succeeded" /\ row'[r].refund = row'[q].refund => r = q
    BY <2>1 DEF OneRowPerRefund
  <2>3. \A f \in Gone(money') : money'[f].amount \in Nat
    BY <1>3 DEF Gone
  <2>4. Succeeded(row') \in Nat /\ Succeeded(row') <= Back(money')
    BY <1>2, <2>1, <2>2, <2>3, RowsWithinBack
  <2> QED BY <2>4, WentBackIsSum
<1>6. Gross \in Nat
  BY RefundAmounts
<1>7. ASSUME NEW r \in Rows, row'[r].status = "superseded"
      PROVE  row[r].status = "superseded" \/ \E w \in Runs : run[w].order = "refunded"
  <2>1. CASE row' = row
    BY <1>7, <2>1
  <2>2. ASSUME NEW q \in Rows, NEW x \in RefundRow, row' = [row EXCEPT ![q] = x],
               Opens(q, x) \/ Keeps(q, x) \/ Carries(q, x)
        PROVE  row[r].status = "superseded" \/ \E w \in Runs : run[w].order = "refunded"
    <3>1. row'[r] = IF r = q THEN x ELSE row[r]
      BY <2>2
    <3>2. ~Heard(x.refund, "superseded") \/ ~Carries(q, x)
      <4> SUFFICES ASSUME Carries(q, x) PROVE ~Heard(x.refund, "superseded")
        OBVIOUS
      <4>1. x.refund \in StripeIds /\ money[x.refund].made # "superseded"
        BY DEF Carries, StripeOK, StripeRefund
      <4>2. \A e \in sent : e.status # "superseded"
        BY DEF EventsOK, Events, RefundStatus
      <4>3. reading # None => reading.status # "superseded"
        BY DEF EventsOK, RefundStatus
      <4> QED BY <4>1, <4>2, <4>3 DEF Heard
    <3> QED BY <1>7, <2>2, <3>1, <3>2 DEF Opens, Keeps, Carries
  <2>3. CASE Settles
    <3>1. NoRow.status # "superseded" /\ "superseded" \notin RefundStatus
      BY DEF NoRow, RefundStatus
    <3> QED BY <1>7, <2>3, <3>1 DEF Settles
  <2> QED BY <1>1, <2>1, <2>2, <2>3 DEF RowMove
<1>8. CASE TakenForRefunded
  <2>1. WentBack >= Gross
    BY <1>8 DEF PaidOff
  <2>2. WentBack' >= Gross
    BY <1>4, <1>6, <2>1
  <2> QED BY <1>2, <2>2 DEF PaidOff
<1>9. CASE ~TakenForRefunded
  <2>1. \A w \in Runs : run'[w].order # "refunded"
    BY <1>9, RunReads DEF TakenForRefunded
  <2>2. \A r \in Rows : row'[r].status # "superseded"
    BY <1>7, <1>9 DEF TakenForRefunded
  <2>3. order' = "refunded" => Succeeded(row') >= Gross
    BY <1>1, <1>9 DEF OrderMove, TakenForRefunded
  <2>4. order' = "refunded" => WentBack' >= Gross
    BY <1>4, <1>5, <1>6, <2>3
  <2> QED BY <1>2, <2>1, <2>2, <2>4 DEF PaidOff, TakenForRefunded
<1> QED BY <1>8, <1>9

\* An order is called refunded, and a refund owed is dropped as superseded, only when the
\* whole of the money did go back at Stripe (recomputeOrderRefunds, closeRefund): every
\* row counted carries a refund of its own, for its amount, that did succeed. It holds
\* for any number of refunds in part, whatever is lost, repeated or late.
THEOREM NothingWrittenOffUnpaid == Spec => []WrittenOffOnlyWhenPaid
<1>1. Init => WrittenInv
  <2> SUFFICES ASSUME Init PROVE WrittenInv
    OBVIOUS
  <2>1. /\ \A r \in Rows : row[r].status = "none"
        /\ \A f \in StripeIds : /\ money[f].status = "none" /\ money[f].made = "none"
                                /\ money[f].row = None /\ ~money[f].went
                                /\ held[f] = None /\ taken[f] = None
        /\ \A w \in Runs : run[w].order = "paid"
        /\ sent = {} /\ reading = None /\ order = "pending"
    BY DEF Init, NoRow, NoRefund, Idle
  <2>2. Gone(money) = {}
    BY <2>1 DEF Gone
  <2> QED BY <2>1, <2>2, FS_EmptySet
          DEF WrittenInv, WordsAreTrue, TrueOf, MadeInFull, RowsAreBacked, PaidOff,
              TakenForRefunded
<1>2. RefundInv /\ WrittenInv /\ [Next]_vars => WrittenInv'
  <2> SUFFICES ASSUME RefundInv, WrittenInv, [Next]_vars PROVE WrittenInv'
    OBVIOUS
  <2>1. TypeOK' /\ OneRowPerRefund'
    BY RefundStep DEF RefundInv
  <2>2. WordsAreTrue' /\ MadeInFull' /\ RowsAreBacked'
    BY WordsStep, BackedStep DEF WrittenInv
  <2>3. IsFiniteSet(Gone(money')) /\ PaidOff'
    BY <2>1, <2>2, PaidOffStep
  <2> QED BY <2>2, <2>3 DEF WrittenInv, Gone
<1>3. WrittenInv => WrittenOffOnlyWhenPaid
  BY DEF WrittenInv, PaidOff, TakenForRefunded, WrittenOffOnlyWhenPaid
<1> QED BY <1>1, <1>2, <1>3, RefundAlways, PTL DEF Spec
=============================================================================
