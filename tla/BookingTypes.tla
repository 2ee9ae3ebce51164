---------------------------- MODULE BookingTypes ----------------------------
(***************************************************************************)
(* Proof that every reachable state of BookingSystem has the types, and    *)
(* the row shapes, of TypeOK, for any number of orders, holds, events and  *)
(* workers and any behaviour of the world around the code.                 *)
(*                                                                         *)
(* TypeOK is inductive as it stands.  The tables are disturbed one at a    *)
(* time, so the proof has a lemma per table that frames it, lemmas about   *)
(* the writes several actions share, and one lemma per component's steps.  *)
(***************************************************************************)
EXTENDS BookingSystem, TLAPS

(***************************************************************************)
(* Frames: what a step leaves alone keeps its type.                        *)
(***************************************************************************)

\* A slot_holds row, once written, is never deleted.
HoldsKept == \A h \in Holds : hold[h].status # "none" => hold'[h].status # "none"

\* Orders and bookings keep their rows' shape when nobody writes them.
LEMMA OrderFrame ==
    ASSUME OrderRowsOK, UNCHANGED <<order, booking>>
    PROVE  OrderRowsOK'
BY DEF OrderRowsOK, Timed

\* So do the holds.
LEMMA HoldFrame ==
    ASSUME HoldRowsOK, UNCHANGED hold
    PROVE  HoldRowsOK' /\ HoldsKept
BY DEF HoldRowsOK, HoldsKept

\* A checkout nobody moves keeps its shape while no order is written for it.
LEMMA CheckoutFrame ==
    ASSUME CheckoutTypeOK, HoldsKept, UNCHANGED checkoutVars,
           \A o \in Orders : order[o] = "none" => order'[o] = "none"
    PROVE  CheckoutTypeOK'
BY DEF CheckoutTypeOK, HoldsKept, checkoutVars

\* And an idle or unmoved worker keeps what it knows.
LEMMA WorkerFrame ==
    ASSUME ConfirmationTypeOK, UNCHANGED worker
    PROVE  ConfirmationTypeOK'
BY DEF ConfirmationTypeOK

(***************************************************************************)
(* The writes that several actions share.                                  *)
(***************************************************************************)

\* Released(hs) is the holds table with the status of hs, and nothing else, changed.
LEMMA ReleasedRows ==
    ASSUME HoldRowsOK, NEW hs
    PROVE  /\ Released(hs) \in [Holds -> HoldRow]
           /\ \A h \in Holds :
                /\ Released(hs)[h].status = IF h \in hs THEN "released" ELSE hold[h].status
                /\ Released(hs)[h].slot = hold[h].slot
                /\ Released(hs)[h].owner = hold[h].owner
                /\ Released(hs)[h].order = hold[h].order
                /\ Released(hs)[h].event = hold[h].event
<1>1. ASSUME NEW h \in Holds
      PROVE  [hold[h] EXCEPT !.status = "released"] \in HoldRow
  BY DEF HoldRowsOK, HoldRow, HoldStatus
<1>2. Released(hs) \in [Holds -> HoldRow]
  BY <1>1 DEF HoldRowsOK, Released
<1>3. ASSUME NEW h \in Holds
      PROVE  /\ Released(hs)[h].status = IF h \in hs THEN "released" ELSE hold[h].status
             /\ Released(hs)[h].slot = hold[h].slot
             /\ Released(hs)[h].owner = hold[h].owner
             /\ Released(hs)[h].order = hold[h].order
             /\ Released(hs)[h].event = hold[h].event
  BY DEF HoldRowsOK, HoldRow, Released
<1> QED BY <1>2, <1>3

\* Giving used holds back keeps the table's shape.
LEMMA ReleaseType ==
    ASSUME HoldRowsOK, NEW hs, hold' = Released(hs),
           \A h \in Holds : h \in hs => hold[h].status # "none"
    PROVE  HoldRowsOK' /\ HoldsKept
<1>1. hold' \in [Holds -> HoldRow]
  BY ReleasedRows
<1>2. \A h \in Holds :
         /\ hold'[h].status = IF h \in hs THEN "released" ELSE hold[h].status
         /\ hold'[h].slot = hold[h].slot
  BY ReleasedRows
<1>3. HoldsKept
  BY <1>2 DEF HoldsKept
<1> QED BY <1>1, <1>2, <1>3 DEF HoldRowsOK

\* So does overwriting one row by a used row with a time.
LEMMA HoldWriteType ==
    ASSUME HoldRowsOK, NEW h \in Holds, NEW r \in HoldRow,
           r.status # "none", r.slot \in Slots,
           hold' = [hold EXCEPT ![h] = r]
    PROVE  HoldRowsOK' /\ HoldsKept
BY DEF HoldRowsOK, HoldsKept

\* A new event is an event.
LEMMA AddEventType ==
    ASSUME calendar \in [Events -> EventRow], NEW e \in Events, NEW s \in Slots,
           NEW maker \in {"checkout", "confirmation", "coach"},
           NEW o \in Orders \cup {None}, AddEvent(e, s, maker, o)
    PROVE  calendar' \in [Events -> EventRow]
BY DEF AddEvent, EventRow, EventStatus

\* A deleted one is still its row.
LEMMA DropEventType ==
    ASSUME calendar \in [Events -> EventRow], NEW e \in Events, DropEvent(e)
    PROVE  calendar' \in [Events -> EventRow]
BY DEF DropEvent, EventRow, EventStatus

(***************************************************************************)
(* The checkout request, one action at a time.                             *)
(***************************************************************************)

\* Taking the hold.
LEMMA HoldSlotType ==
    ASSUME TypeOK, NEW o \in Orders, HoldSlot(o), UNCHANGED worker
    PROVE  TypeOK'
<1> USE DEF TypeOK, TablesOK
<1>1. PICK s \in Slots, h \in Holds :
         /\ hold[h].status = "none"
         /\ hold' = [Released(EarlierHolds(o)) EXCEPT ![h] =
               [NoHold EXCEPT !.status = "held", !.slot = s, !.owner = Owner[o]]]
         /\ checkout' = [checkout EXCEPT ![o] = [pc |-> "held", hold |-> h, event |-> None]]
  BY DEF HoldSlot, FreshHold
<1>2. HoldRowsOK' /\ HoldsKept
  <2>1. [NoHold EXCEPT !.status = "held", !.slot = s, !.owner = Owner[o]] \in HoldRow
    BY PoolAssumption DEF NoHold, HoldRow, HoldStatus
  <2>2. /\ hold' \in [Holds -> HoldRow]
        /\ hold'[h].status = "held" /\ hold'[h].slot = s
    BY <1>1, <2>1, ReleasedRows DEF NoHold
  <2>3. \A k \in Holds \ {h} :
           /\ hold'[k].status # "none" <=> hold[k].status # "none"
           /\ hold'[k].slot = hold[k].slot
    BY <1>1, ReleasedRows DEF EarlierHolds
  <2> QED BY <1>1, <2>2, <2>3 DEF HoldRowsOK, HoldsKept
<1>3. checkout[o].pc = "idle" /\ UNCHANGED <<order, booking, calendar, phase, session>>
  BY DEF HoldSlot
<1>4. CheckoutTypeOK'
  BY <1>1, <1>2, <1>3, NullAssumption DEF CheckoutTypeOK, HoldsKept, CheckoutPC, HoldRowsOK
<1> QED BY <1>2, <1>3, <1>4, OrderFrame, WorkerFrame

\* Blocking the calendar, whatever it answers.
LEMMA AskCalendarType ==
    ASSUME TypeOK, NEW o \in Orders, UNCHANGED worker,
           \/ PostTentative(o) \/ CalendarRefuses(o)
           \/ CalendarUnreachable(o) \/ CalendarAnswerLost(o)
    PROVE  TypeOK'
<1> USE DEF TypeOK, TablesOK
<1>1. UNCHANGED <<order, booking, hold, phase, session>> /\ checkout[o].pc = "held"
  BY DEF PostTentative, CalendarRefuses, CalendarUnreachable, CalendarAnswerLost, tableVars
<1>2. HeldSlot(o) \in Slots
  BY <1>1 DEF CheckoutTypeOK, HoldRowsOK, HeldSlot
<1>3. calendar' \in [Events -> EventRow]
  BY <1>2, AddEventType
  DEF PostTentative, CalendarRefuses, CalendarUnreachable, CalendarAnswerLost, tableVars
<1>4. CheckoutTypeOK'
  BY <1>1 DEF CheckoutTypeOK, CheckoutPC, GoTo,
              PostTentative, CalendarRefuses, CalendarUnreachable, CalendarAnswerLost
<1> QED BY <1>1, <1>3, <1>4, OrderFrame, HoldFrame, WorkerFrame

\* What becomes of the event in hand.
LEMMA KeepEventType ==
    ASSUME TypeOK, NEW o \in Orders, UNCHANGED worker, AttachEvent(o) \/ DropOrphan(o)
    PROVE  TypeOK'
<1> USE DEF TypeOK, TablesOK
<1>1. /\ UNCHANGED <<order, booking, phase, session>> /\ checkout[o].pc = "posted"
      /\ GoTo(o, "blocked")
  BY DEF AttachEvent, DropOrphan
<1>2. checkout[o].hold \in Holds /\ checkout[o].event \in Events
  BY <1>1 DEF CheckoutTypeOK
<1>3. HoldRowsOK' /\ HoldsKept
  <2>1. CASE AttachEvent(o)
    <3>1. [hold[checkout[o].hold] EXCEPT !.event = checkout[o].event] \in HoldRow
      BY <1>2 DEF HoldRowsOK, HoldRow
    <3> QED
      BY <1>2, <2>1, <3>1, HoldWriteType DEF AttachEvent, HoldRowsOK, HoldRow
  <2>2. CASE DropOrphan(o)
    BY <2>2, HoldFrame DEF DropOrphan
  <2> QED BY <2>1, <2>2
<1>4. calendar' \in [Events -> EventRow]
  BY <1>2, DropEventType DEF AttachEvent, DropOrphan
<1>5. CheckoutTypeOK'
  BY <1>1, <1>3 DEF CheckoutTypeOK, CheckoutPC, GoTo, HoldsKept
<1> QED BY <1>1, <1>3, <1>4, <1>5, OrderFrame, WorkerFrame

\* Writing the order, its booking and the hold's link, or finding the hold dead.
LEMMA PersistType ==
    ASSUME TypeOK, NEW o \in Orders, UNCHANGED worker, PersistOrder(o) \/ HoldNoLongerLive(o)
    PROVE  TypeOK'
<1> USE DEF TypeOK, TablesOK
<1>1. CASE PersistOrder(o)
  <2> USE <1>1 DEF PersistOrder
  <2>1. checkout[o].hold \in Holds /\ order[o] = "none" /\ booking[o].status = "none"
    BY DEF CheckoutTypeOK, OrderRowsOK
  <2>2. HoldRowsOK' /\ HoldsKept
    <3>1. [hold[checkout[o].hold] EXCEPT !.order = o] \in HoldRow
      BY <2>1 DEF HoldRowsOK, HoldRow
    <3> QED BY <2>1, <3>1, HoldWriteType DEF HoldRowsOK, HoldRow
  <2>3. OrderRowsOK'
    <3>1. [booking[o] EXCEPT !.status = "awaiting_schedule"] \in BookingRow
      BY DEF OrderRowsOK, BookingRow, BookingStatus
    <3>2. /\ order' = [order EXCEPT ![o] = "pending"]
          /\ booking' = [booking EXCEPT ![o] = [booking[o] EXCEPT !.status = "awaiting_schedule"]]
      OBVIOUS
    <3>3. /\ booking'[o].status = "awaiting_schedule"
          /\ booking'[o].slot = None /\ booking'[o].event = None
      BY <2>1 DEF OrderRowsOK, BookingRow
    <3> QED BY ONLY OrderRowsOK, <3>1, <3>2, <3>3 DEF OrderRowsOK, OrderStatus, Timed
  <2>4. CheckoutTypeOK'
    BY <2>1, <2>2 DEF CheckoutTypeOK, CheckoutPC, GoTo, HoldsKept
  <2> QED BY <2>2, <2>3, <2>4, WorkerFrame
<1>2. CASE HoldNoLongerLive(o)
  <2>1. /\ UNCHANGED tableVars /\ UNCHANGED session
        /\ checkout[o].pc = "blocked" /\ GoTo(o, "releasing")
    BY <1>2 DEF HoldNoLongerLive
  <2>2. CheckoutTypeOK'
    BY <2>1 DEF CheckoutTypeOK, CheckoutPC, GoTo, tableVars
  <2> QED BY <2>1, <2>2, OrderFrame, HoldFrame, WorkerFrame DEF tableVars
<1> QED BY <1>1, <1>2

\* The steps that move the request or the session and touch no table.
LEMMA RequestType ==
    ASSUME TypeOK, NEW o \in Orders, UNCHANGED worker,
           \/ StartSession(o) \/ LinkSession(o) \/ CheckoutFails(o) \/ CheckoutCrashes(o)
           \/ EndCheckout(o) \/ StripeMoves(o)
    PROVE  TypeOK'
<1> USE DEF TypeOK, TablesOK
<1>1. UNCHANGED tableVars
  BY DEF StartSession, LinkSession, CheckoutFails, CheckoutCrashes, EndCheckout, StripeMoves
<1>2. CheckoutTypeOK'
  <2>1. CASE StartSession(o) \/ LinkSession(o)
    <3>1. PICK pc \in {"started", "over"}, st \in {"unlinked", "open"} :
             /\ checkout' = [checkout EXCEPT ![o].pc = pc]
             /\ session' = [session EXCEPT ![o] = st]
             /\ checkout[o].pc \in {"ordered", "started"}
      BY <2>1 DEF StartSession, LinkSession, GoTo
    <3> QED
      BY <1>1, <3>1 DEF CheckoutTypeOK, CheckoutPC, SessionStatus, tableVars
  <2>2. CASE CheckoutFails(o) \/ CheckoutCrashes(o)
    BY <1>1, <2>2 DEF CheckoutFails, CheckoutCrashes, GoTo, CheckoutTypeOK, CheckoutPC, tableVars
  <2>3. CASE EndCheckout(o) \/ StripeMoves(o)
    BY <1>1, <2>3 DEF EndCheckout, StripeMoves, CheckoutTypeOK, SessionStatus, tableVars
  <2> QED BY <2>1, <2>2, <2>3
<1> QED BY <1>1, <1>2, OrderFrame, HoldFrame, WorkerFrame DEF tableVars

\* The catch block.
LEMMA ReleaseQuietlyType ==
    ASSUME TypeOK, NEW o \in Orders, UNCHANGED worker, ReleaseQuietly(o)
    PROVE  TypeOK'
<1> USE DEF TypeOK, TablesOK, ReleaseQuietly
<1>1. HoldRowsOK' /\ HoldsKept
  BY ReleaseType, HoldFrame
<1>2. CheckoutTypeOK'
  BY <1>1 DEF CheckoutTypeOK, CheckoutPC, GoTo, HoldsKept
<1> QED BY <1>1, <1>2, OrderFrame, WorkerFrame

(***************************************************************************)
(* Settlement.                                                             *)
(***************************************************************************)

\* Book gives the booking its time, or the claimed hold back.
LEMMA BookType ==
    ASSUME OrderRowsOK, HoldRowsOK,
           NEW o \in Orders, NEW s \in Slots, NEW e \in Events \cup {None},
           NEW h \in Holds, NEW r \in HoldRow, r.status # "none", r.slot \in Slots,
           Book(o, s, e, [hold EXCEPT ![h] = r]),
           order[o] # "none", order' = [order EXCEPT ![o] = "paid"]
    PROVE  OrderRowsOK' /\ HoldRowsOK' /\ HoldsKept
<1> DEFINE claimed == [hold EXCEPT ![h] = r]
<1>1. /\ claimed \in [Holds -> HoldRow]
      /\ \A k \in Holds : hold[k].status # "none" => claimed[k].status # "none"
      /\ \A k \in Holds : claimed[k].status # "none" => claimed[k].slot \in Slots
  BY DEF HoldRowsOK
<1> HIDE DEF claimed
<1>2. CASE BookingClash(o, s)
  <2>1. /\ hold' = [k \in Holds |-> IF claimed[k].status = "converted" /\ claimed[k].order = o
                                       /\ claimed[k].slot = s
                                  THEN [claimed[k] EXCEPT !.status = "released"]
                                  ELSE claimed[k]]
        /\ UNCHANGED booking
    BY <1>2 DEF Book, claimed
  <2>2. ASSUME NEW k \in Holds
        PROVE  /\ [claimed[k] EXCEPT !.status = "released"] \in HoldRow
               /\ [claimed[k] EXCEPT !.status = "released"].status = "released"
               /\ [claimed[k] EXCEPT !.status = "released"].slot = claimed[k].slot
    BY <1>1 DEF HoldRow, HoldStatus
  <2>3. HoldRowsOK' /\ HoldsKept
    BY <1>1, <2>1, <2>2 DEF HoldRowsOK, HoldsKept
  <2>4. OrderRowsOK'
    BY <2>1 DEF OrderRowsOK, OrderStatus, Timed
  <2> QED BY <2>3, <2>4
<1>3. CASE ~BookingClash(o, s)
  <2>1. hold' = claimed /\ Schedule(o, s, e)
    BY <1>3 DEF Book, claimed
  <2>2. HoldRowsOK' /\ HoldsKept
    BY <1>1, <2>1 DEF HoldRowsOK, HoldsKept
  <2>3. OrderRowsOK'
    BY <2>1 DEF OrderRowsOK, OrderStatus, BookingRow, BookingStatus, Schedule, Timed
  <2> QED BY <2>2, <2>3
<1> QED BY <1>2, <1>3

\* A result of any kind, applied.
LEMMA SettlementType ==
    ASSUME TypeOK, NEW o \in Orders, UNCHANGED worker, SettlementStep(o)
    PROVE  TypeOK'
<1> USE DEF TypeOK, TablesOK
<1>1. UNCHANGED <<calendar, phase, checkoutVars>>
  BY DEF SettlementStep, SettleOnHold, SettleOnRetakenTime, SettleWithoutTime, Paid,
         ReleaseFailedOrder
<1>2. order[o] \in {"pending", "failed"} /\ session[o] # "none"
  BY DEF SettlementStep, SettleOnHold, SettleOnRetakenTime, SettleWithoutTime, Paid,
         ReleaseFailedOrder, MaySettle, MayFail
<1>3. PaidHold(o) \in Holds
  BY <1>2 DEF CheckoutTypeOK, PaidHold
<1>4. OrderRowsOK' /\ HoldRowsOK' /\ HoldsKept
  <2>1. CASE SettleOnHold(o)
    <3> DEFINE r == [hold[PaidHold(o)] EXCEPT !.status = "converted"]
    <3>1. r \in HoldRow /\ r.status # "none" /\ r.slot \in Slots
      BY <1>3, <2>1 DEF HoldRowsOK, HoldRow, HoldStatus, SettleOnHold, MayConvert
    <3>2. hold[PaidHold(o)].slot \in Slots /\ hold[PaidHold(o)].event \in Events \cup {None}
      BY <1>3, <2>1 DEF HoldRowsOK, HoldRow, SettleOnHold, MayConvert
    <3>3. Book(o, hold[PaidHold(o)].slot, hold[PaidHold(o)].event,
               [hold EXCEPT ![PaidHold(o)] = r])
      BY <2>1 DEF SettleOnHold
    <3>4. order' = [order EXCEPT ![o] = "paid"]
      BY <2>1 DEF SettleOnHold, Paid
    <3> HIDE DEF r
    <3> QED BY <1>2, <1>3, <3>1, <3>2, <3>3, <3>4, BookType
  <2>2. CASE SettleOnRetakenTime(o)
    <3> DEFINE s == hold[PaidHold(o)].slot
               r == [NoHold EXCEPT !.status = "converted", !.slot = s, !.order = o,
                                   !.lapsed = TRUE]
    <3>1. s \in Slots
      BY <1>3, <2>2 DEF SettleOnRetakenTime, MayRetake, HoldRowsOK
    <3>2. r \in HoldRow /\ r.status # "none" /\ r.slot \in Slots
      BY <3>1 DEF NoHold, HoldRow, HoldStatus
    <3>3. PICK h \in Holds : Book(o, s, None, [hold EXCEPT ![h] = r])
      BY <2>2 DEF SettleOnRetakenTime
    <3>4. order' = [order EXCEPT ![o] = "paid"]
      BY <2>2 DEF SettleOnRetakenTime, Paid
    <3> HIDE DEF r, s
    <3> QED BY <1>2, <3>1, <3>2, <3>3, <3>4, BookType
  <2>3. CASE SettleWithoutTime(o)
    <3>1. UNCHANGED <<booking, hold>> /\ order' = [order EXCEPT ![o] = "paid"]
      BY <2>3 DEF SettleWithoutTime, Paid
    <3> QED BY <1>2, <3>1, HoldFrame DEF OrderRowsOK, OrderStatus, Timed
  <2>4. CASE ReleaseFailedOrder(o)
    <3>1. UNCHANGED booking /\ order' = [order EXCEPT ![o] = "failed"]
      BY <2>4 DEF ReleaseFailedOrder
    <3>2. HoldRowsOK' /\ HoldsKept
      BY <2>4, ReleaseType DEF ReleaseFailedOrder
    <3> QED BY <1>2, <3>1, <3>2 DEF OrderRowsOK, OrderStatus, Timed
  <2> QED BY <2>1, <2>2, <2>3, <2>4 DEF SettlementStep
<1>5. \A p \in Orders : order[p] = "none" => order'[p] = "none"
  BY <1>2 DEF SettlementStep, SettleOnHold, SettleOnRetakenTime, SettleWithoutTime, Paid,
              ReleaseFailedOrder, OrderRowsOK
<1>6. CheckoutTypeOK'
  BY <1>1, <1>4, <1>5, CheckoutFrame
<1> QED BY <1>1, <1>4, <1>6, WorkerFrame

(***************************************************************************)
(* Confirmation.                                                           *)
(***************************************************************************)

\* A finished worker is idle again.
LEMMA FinishType ==
    ASSUME ConfirmationTypeOK, NEW w \in Workers, Finish(w)
    PROVE  ConfirmationTypeOK'
BY DEF ConfirmationTypeOK, Finish, IdleWorker, WorkerPC

\* A working one that moves on keeps its order, its time and its event.
LEMMA MoveType ==
    ASSUME ConfirmationTypeOK, NEW w \in Workers, NEW pc, worker[w].pc # "idle", Move(w, pc),
           \/ pc \in {"post", "lost"}
           \/ pc \in {"record", "cleanup"} /\ worker[w].event \in Events
    PROVE  ConfirmationTypeOK'
BY DEF ConfirmationTypeOK, Move, WorkerPC

\* The steps of a worker that only read the tables.
LEMMA WorkerReadsType ==
    ASSUME TypeOK, NEW w \in Workers, UNCHANGED checkoutVars,
           \/ \E o \in Orders : Begin(w, o)
           \/ Check(w) \/ EventIsGone(w) \/ RecordFindsItChanged(w)
           \/ CalendarFails(w) \/ WorkerCrashes(w)
    PROVE  TypeOK'
<1> USE DEF TypeOK, TablesOK
<1>1. UNCHANGED tableVars
  BY DEF Begin, Check, EventIsGone, RecordFindsItChanged, CalendarFails, WorkerCrashes
<1>2. ConfirmationTypeOK'
  <2>1. ASSUME NEW o \in Orders, Begin(w, o)
        PROVE  ConfirmationTypeOK'
    <3>1. booking[o].slot \in Slots /\ booking[o].event \in Events \cup {None}
      BY <2>1 DEF Begin, OrderRowsOK, BookingRow, Timed
    <3> QED BY <2>1, <3>1 DEF Begin, ConfirmationTypeOK, WorkerPC
  <2>2. CASE Check(w) \/ EventIsGone(w)
    BY <2>2, MoveType DEF Check, EventIsGone
  <2>3. CASE RecordFindsItChanged(w)
    BY <2>3, MoveType, FinishType DEF RecordFindsItChanged, ConfirmationTypeOK
  <2>4. CASE CalendarFails(w) \/ WorkerCrashes(w)
    BY <2>4, FinishType DEF CalendarFails, WorkerCrashes
  <2> QED BY <2>1, <2>2, <2>3, <2>4
<1>3. CheckoutTypeOK'
  BY <1>1, HoldFrame, CheckoutFrame DEF tableVars
<1> QED BY <1>1, <1>2, <1>3, OrderFrame, HoldFrame DEF tableVars

\* The steps that act on the calendar.
LEMMA WorkerCalendarType ==
    ASSUME TypeOK, NEW w \in Workers, UNCHANGED checkoutVars,
           \/ Post(w) \/ PostAnswerLost(w) \/ Promote(w) \/ PromoteWithoutLink(w) \/ Cleanup(w)
    PROVE  TypeOK'
<1> USE DEF TypeOK, TablesOK
<1>1. UNCHANGED <<tables, phase>> /\ worker[w].pc \in {"post", "promote", "cleanup"}
  BY DEF Post, PostAnswerLost, Promote, PromoteWithoutLink, Cleanup
<1>2. /\ worker[w].order \in Orders /\ worker[w].slot \in Slots
      /\ worker[w].pc # "post" => worker[w].event \in Events
  BY <1>1 DEF ConfirmationTypeOK
<1>3. calendar' \in [Events -> EventRow]
  <2>1. CASE Post(w) \/ PostAnswerLost(w)
    BY <1>2, <2>1, AddEventType DEF Post, PostAnswerLost
  <2>2. CASE Promote(w) \/ PromoteWithoutLink(w)
    BY <1>2, <2>2 DEF Promote, PromoteWithoutLink, EventRow, EventStatus
  <2>3. CASE Cleanup(w)
    BY <1>2, <2>3, DropEventType DEF Cleanup
  <2> QED BY <2>1, <2>2, <2>3
<1>4. ConfirmationTypeOK'
  <2>1. CASE Post(w)
    <3>1. PICK e \in Events : worker' = [worker EXCEPT ![w].pc = "attach", ![w].event = e]
      BY <2>1 DEF Post
    <3> QED BY <1>2, <3>1 DEF ConfirmationTypeOK, WorkerPC
  <2>2. CASE Promote(w)
    BY <1>1, <1>2, <2>2, MoveType DEF Promote
  <2>3. CASE PostAnswerLost(w) \/ PromoteWithoutLink(w) \/ Cleanup(w)
    BY <2>3, FinishType DEF PostAnswerLost, PromoteWithoutLink, Cleanup
  <2> QED BY <2>1, <2>2, <2>3
<1>5. CheckoutTypeOK'
  BY <1>1, HoldFrame, CheckoutFrame DEF tables
<1> QED BY <1>1, <1>3, <1>4, <1>5, OrderFrame, HoldFrame DEF tables

\* The paid hold learns its event.
LEMMA AttachType ==
    ASSUME TypeOK, NEW w \in Workers, UNCHANGED checkoutVars, Attach(w)
    PROVE  TypeOK'
<1> USE DEF TypeOK, TablesOK
<1> DEFINE open == {h \in ConvertedHolds(worker[w].order, worker[w].slot) : hold[h].event = None}
<1>1. /\ UNCHANGED <<order, booking, calendar, phase>> /\ worker[w].pc = "attach"
      /\ worker' = [worker EXCEPT ![w].pc = "promote", ![w].unowned = (open = {})]
      /\ hold' = [h \in Holds |-> IF h \in open
                                  THEN [hold[h] EXCEPT !.event = worker[w].event]
                                  ELSE hold[h]]
  BY DEF Attach
<1> HIDE DEF open
<1>2. worker[w].event \in Events
  BY <1>1 DEF ConfirmationTypeOK
<1>3. HoldRowsOK' /\ HoldsKept
  <2>1. ASSUME NEW h \in Holds
        PROVE  /\ [hold[h] EXCEPT !.event = worker[w].event] \in HoldRow
               /\ [hold[h] EXCEPT !.event = worker[w].event].status = hold[h].status
               /\ [hold[h] EXCEPT !.event = worker[w].event].slot = hold[h].slot
    BY <1>2 DEF HoldRowsOK, HoldRow
  <2> QED BY <1>1, <2>1 DEF HoldRowsOK, HoldsKept
<1>4. ConfirmationTypeOK'
  <2>1. (open = {}) \in BOOLEAN
    OBVIOUS
  <2> QED BY <1>1, <1>2, <2>1 DEF ConfirmationTypeOK, WorkerPC
<1>5. CheckoutTypeOK'
  BY <1>1, <1>3, CheckoutFrame
<1> QED BY <1>1, <1>3, <1>4, <1>5, OrderFrame

\* The booking is confirmed, or returned to waiting.
LEMMA WorkerBookingType ==
    ASSUME TypeOK, NEW w \in Workers, UNCHANGED checkoutVars, Record(w) \/ ReturnToWaiting(w)
    PROVE  TypeOK'
<1> USE DEF TypeOK, TablesOK
<1>1. /\ UNCHANGED <<order, calendar, phase>> /\ Finish(w)
      /\ worker[w].pc \in {"record", "lost"}
  BY DEF Record, ReturnToWaiting
<1>2. worker[w].order \in Orders /\ (worker[w].pc = "record" => worker[w].event \in Events)
  BY <1>1 DEF ConfirmationTypeOK
<1>3. OrderRowsOK'
  <2> DEFINE o == worker[w].order
  <2>1. CASE booking[o].status = "scheduled" /\ Record(w)
    <3> DEFINE b == [[booking[o] EXCEPT !.status = "confirmed"] EXCEPT !.event = worker[w].event]
    <3>1. /\ b \in BookingRow /\ b.status = "confirmed" /\ b.slot = booking[o].slot
          /\ b.event = worker[w].event /\ worker[w].event \in Events
      <4>1. booking[o] \in BookingRow
        BY <1>2 DEF OrderRowsOK
      <4>2. worker[w].event \in Events
        BY <1>2, <2>1 DEF Record
      <4> QED BY ONLY <4>1, <4>2 DEF BookingRow, BookingStatus
    <3>2. booking' = [booking EXCEPT ![o] = b]
      BY <1>2, <2>1 DEF Record, OrderRowsOK, BookingRow
    <3> HIDE DEF b
    <3> QED BY <1>1, <1>2, <2>1, <3>1, <3>2 DEF OrderRowsOK, Timed
  <2>2. CASE booking[o].status = "scheduled" /\ ReturnToWaiting(w)
    <3>1. booking' = [booking EXCEPT ![o] = [status |-> "awaiting_schedule",
                                             slot |-> None, event |-> None]]
      BY <2>2 DEF ReturnToWaiting
    <3> QED BY <1>1, <1>2, <2>2, <3>1 DEF OrderRowsOK, BookingRow, BookingStatus, Timed
  <2>3. CASE booking[o].status # "scheduled"
    BY <1>1, <2>3, OrderFrame DEF Record, ReturnToWaiting
  <2> QED BY <2>1, <2>2, <2>3
<1>4. HoldRowsOK' /\ HoldsKept
  BY ReleaseType, HoldFrame DEF Record, ReturnToWaiting, ConvertedHolds
<1>5. CheckoutTypeOK'
  BY <1>1, <1>4, CheckoutFrame
<1> QED BY <1>1, <1>3, <1>4, <1>5, FinishType

\* Any step of any worker.
LEMMA ConfirmationType ==
    ASSUME TypeOK, NEW w \in Workers, UNCHANGED checkoutVars, ConfirmationStep(w)
    PROVE  TypeOK'
BY WorkerReadsType, WorkerCalendarType, AttachType, WorkerBookingType DEF ConfirmationStep

(***************************************************************************)
(* After the sale, the sweep, the clock and the coach.                     *)
(***************************************************************************)

\* A booking called off keeps its time; a hold of its own is never unmade.
LEMMA CancelOpenType ==
    ASSUME OrderRowsOK, HoldRowsOK, NEW o \in Orders, CancelOpenBooking(o),
           NEW st \in {"paid", "partially_refunded", "refunded"},
           order' = [order EXCEPT ![o] = st]
    PROVE  OrderRowsOK' /\ HoldRowsOK' /\ HoldsKept
<1> DEFINE b == booking[o]
           backing == ConvertedHolds(o, b.slot)
<1>1. b \in BookingRow /\ b.status \in {"awaiting_schedule", "scheduled", "confirmed"}
  BY DEF OrderRowsOK, CancelOpenBooking
<1>2. OrderRowsOK'
  <2>1. /\ [b EXCEPT !.status = "cancelled"] \in BookingRow
        /\ [b EXCEPT !.status = "cancelled"].status = "cancelled"
    BY <1>1 DEF BookingRow, BookingStatus
  <2>2. booking' = [booking EXCEPT ![o] = [b EXCEPT !.status = "cancelled"]]
    BY DEF CancelOpenBooking
  <2> QED BY <1>1, <2>1, <2>2 DEF OrderRowsOK, OrderStatus, Timed
<1>3. CASE backing = {} /\ b.event # None
  <2> DEFINE r == [NoHold EXCEPT !.status = "released", !.slot = b.slot, !.order = o,
                                 !.event = b.event, !.lapsed = TRUE]
  <2>1. b.slot \in Slots
    BY <1>1, <1>3 DEF OrderRowsOK, Timed
  <2>2. r \in HoldRow /\ r.status # "none" /\ r.slot \in Slots
    BY <1>1, <2>1 DEF NoHold, HoldRow, HoldStatus, BookingRow
  <2>3. PICK h \in Holds : hold' = [hold EXCEPT ![h] = r]
    BY <1>3 DEF CancelOpenBooking
  <2> HIDE DEF r
  <2> QED BY <1>2, <2>2, <2>3, HoldWriteType
<1>4. CASE ~(backing = {} /\ b.event # None)
  <2> DEFINE row(h) == [hold[h] EXCEPT !.status = "released",
                                       !.event = IF @ = None THEN b.event ELSE @]
  <2>1. hold' = [h \in Holds |-> IF h \in backing THEN row(h) ELSE hold[h]]
    BY <1>4 DEF CancelOpenBooking
  <2>2. ASSUME NEW h \in Holds
        PROVE  row(h) \in HoldRow /\ row(h).status = "released" /\ row(h).slot = hold[h].slot
    BY <1>1 DEF HoldRowsOK, HoldRow, HoldStatus, BookingRow
  <2>3. \A h \in backing : hold[h].status = "converted"
    BY DEF ConvertedHolds
  <2> HIDE DEF row, backing
  <2> QED BY <1>2, <2>1, <2>2, <2>3 DEF HoldRowsOK, HoldsKept
<1> QED BY <1>3, <1>4

\* A waiting booking is given a time.
LEMMA NewTimeType ==
    ASSUME TypeOK, NEW o \in Orders, ChooseTime(o) \/ PlaceByHand(o)
    PROVE  TypeOK'
<1> USE DEF TypeOK, TablesOK
<1>1. /\ UNCHANGED <<order, calendar, phase, others>>
      /\ booking[o].status = "awaiting_schedule"
  BY DEF ChooseTime, PlaceByHand
<1>2. PICK s \in Slots : Schedule(o, s, None)
  BY DEF ChooseTime, PlaceByHand
<1>3. OrderRowsOK'
  BY <1>1, <1>2 DEF OrderRowsOK, BookingRow, BookingStatus, Schedule, Timed
<1>4. HoldRowsOK' /\ HoldsKept
  <2>1. CASE ChooseTime(o)
    <3>1. PICK t \in Slots, h \in Holds :
             hold' = [hold EXCEPT ![h] = [NoHold EXCEPT
               !.status = "converted", !.slot = t, !.order = o, !.lapsed = TRUE]]
      BY <2>1 DEF ChooseTime
    <3> DEFINE r == [NoHold EXCEPT
               !.status = "converted", !.slot = t, !.order = o, !.lapsed = TRUE]
    <3>2. r \in HoldRow /\ r.status # "none" /\ r.slot \in Slots
      BY DEF NoHold, HoldRow, HoldStatus
    <3>3. hold' = [hold EXCEPT ![h] = r]
      BY <3>1
    <3> HIDE DEF r
    <3> QED BY <3>2, <3>3, HoldWriteType
  <2>2. CASE PlaceByHand(o)
    BY <2>2, HoldFrame DEF PlaceByHand
  <2> QED BY <2>1, <2>2
<1>5. CheckoutTypeOK' /\ ConfirmationTypeOK'
  BY <1>1, <1>4, CheckoutFrame, WorkerFrame DEF others, checkoutVars
<1> QED BY <1>1, <1>3, <1>4, <1>5

\* The money goes back, or the session is called off first.
LEMMA AfterSaleType ==
    ASSUME TypeOK, NEW o \in Orders, CancelBooking(o) \/ RefundInFull(o) \/ RefundInPart(o)
    PROVE  TypeOK'
<1> USE DEF TypeOK, TablesOK
<1>1. UNCHANGED <<calendar, phase, others>> /\ Kept(o)
  BY DEF CancelBooking, RefundInFull, RefundInPart, Kept
<1>2. PICK st \in {"paid", "partially_refunded", "refunded"} :
         order' = [order EXCEPT ![o] = st]
  <2>1. CASE CancelBooking(o)
    <3>1. order' = [order EXCEPT ![o] = order[o]]
      BY <2>1 DEF CancelBooking, OrderRowsOK
    <3> QED BY <1>1, <3>1 DEF Kept
  <2>2. CASE RefundInFull(o) \/ RefundInPart(o)
    BY <2>2 DEF RefundInFull, RefundInPart
  <2> QED BY <2>1, <2>2
<1>3. OrderRowsOK' /\ HoldRowsOK' /\ HoldsKept
  <2>1. CASE CancelOpenBooking(o)
    BY <1>2, <2>1, CancelOpenType
  <2>2. CASE ~CancelOpenBooking(o)
    <3>1. UNCHANGED <<booking, hold>>
      BY <2>2 DEF CancelBooking, RefundInFull, RefundInPart
    <3> QED BY <1>1, <1>2, <3>1, HoldFrame DEF OrderRowsOK, OrderStatus, Kept, Timed
  <2> QED BY <2>1, <2>2
<1>4. \A p \in Orders : order[p] = "none" => order'[p] = "none"
  BY <1>1, <1>2 DEF Kept, OrderRowsOK
<1>5. CheckoutTypeOK' /\ ConfirmationTypeOK'
  BY <1>1, <1>3, <1>4, CheckoutFrame, WorkerFrame DEF others, checkoutVars
<1> QED BY <1>1, <1>3, <1>5

\* The countdown and the sweep's own writes.
LEMMA HoldStepType ==
    ASSUME TypeOK, NEW h \in Holds, HoldStep(h)
    PROVE  TypeOK'
<1> USE DEF TypeOK, TablesOK
<1>1. UNCHANGED <<order, booking, phase, others>>
  BY DEF HoldStep, LapseHold, ClaimExpiredHold, DeleteReleasedEvent, MarkCalendarReleased, tables
<1>2. HoldRowsOK' /\ HoldsKept
  <2>1. ASSUME NEW r, hold' = [hold EXCEPT ![h] = r],
               \/ r = [hold[h] EXCEPT !.lapsed = TRUE] /\ hold[h].status # "none"
               \/ r = [hold[h] EXCEPT !.cleared = TRUE] /\ hold[h].status # "none"
               \/ r = [hold[h] EXCEPT !.status = "expired"] /\ hold[h].status # "none"
        PROVE  HoldRowsOK' /\ HoldsKept
    <3>1. r \in HoldRow /\ r.status # "none" /\ r.slot \in Slots
      BY <2>1 DEF HoldRowsOK, HoldRow, HoldStatus
    <3> QED BY <2>1, <3>1, HoldWriteType
  <2>2. CASE LapseHold(h)
    BY <2>1, <2>2 DEF LapseHold
  <2>3. CASE ClaimExpiredHold(h)
    BY <2>1, <2>3 DEF ClaimExpiredHold
  <2>4. CASE MarkCalendarReleased(h)
    BY <2>1, <2>4 DEF MarkCalendarReleased, AwaitsCalendarRelease
  <2>5. CASE DeleteReleasedEvent(h)
    BY <2>5, HoldFrame DEF DeleteReleasedEvent, tables
  <2> QED BY <2>2, <2>3, <2>4, <2>5 DEF HoldStep
<1>3. calendar' \in [Events -> EventRow]
  <2>1. CASE DeleteReleasedEvent(h)
    <3>1. hold[h].event \in Events
      BY <2>1 DEF DeleteReleasedEvent, AwaitsCalendarRelease, HoldRowsOK, HoldRow
    <3> QED BY <2>1, <3>1, DropEventType DEF DeleteReleasedEvent
  <2>2. CASE ~DeleteReleasedEvent(h)
    BY <2>2 DEF HoldStep, LapseHold, ClaimExpiredHold, MarkCalendarReleased
  <2> QED BY <2>1, <2>2
<1>4. CheckoutTypeOK' /\ ConfirmationTypeOK'
  BY <1>1, <1>2, CheckoutFrame, WorkerFrame DEF others, checkoutVars
<1> QED BY <1>1, <1>2, <1>3, <1>4, OrderFrame

\* Time, and the coach's own hand.
LEMMA WorldType ==
    ASSUME TypeOK, WorldStep
    PROVE  TypeOK'
<1> USE DEF TypeOK, TablesOK
<1>1. UNCHANGED <<tables, others>>
  BY DEF WorldStep, TimePasses, CoachAdds, CoachDeletes
<1>2. calendar' \in [Events -> EventRow]
  BY AddEventType, DropEventType DEF WorldStep, TimePasses, CoachAdds, CoachDeletes
<1>3. phase' \in [Slots -> {"open", "notice", "started"}]
  BY DEF WorldStep, TimePasses, CoachAdds, CoachDeletes
<1>4. CheckoutTypeOK' /\ ConfirmationTypeOK'
  BY <1>1, HoldFrame, CheckoutFrame, WorkerFrame DEF tables, others, checkoutVars
<1> QED BY <1>1, <1>2, <1>3, <1>4, OrderFrame, HoldFrame DEF tables

(***************************************************************************)
(* The theorem.                                                            *)
(***************************************************************************)

\* Before anything has happened, nothing has been written.
LEMMA InitType == Init => TypeOK
BY DEF Init, TablesInit, CheckoutInit, ConfirmationInit, TypeOK, TablesOK, OrderRowsOK,
       HoldRowsOK, CheckoutTypeOK, ConfirmationTypeOK, NoBooking, NoHold, NoEvent, IdleWorker,
       OrderStatus, BookingStatus, HoldStatus, EventStatus, BookingRow, HoldRow, EventRow,
       CheckoutPC, SessionStatus, WorkerPC, Timed

\* One step of anybody.
LEMMA StepType ==
    ASSUME TypeOK, [Next]_vars
    PROVE  TypeOK'
<1>1. CASE UNCHANGED vars
  BY <1>1, OrderFrame, HoldFrame, CheckoutFrame, WorkerFrame
  DEF vars, tableVars, checkoutVars, TypeOK, TablesOK
<1>2. ASSUME NEW o \in Orders, OrderStep(o)
      PROVE  TypeOK'
  <2>1. CASE CheckoutStep(o) /\ UNCHANGED worker
    BY <2>1, HoldSlotType, AskCalendarType, KeepEventType, PersistType, RequestType,
       ReleaseQuietlyType DEF CheckoutStep
  <2>2. CASE StripeMoves(o) /\ UNCHANGED worker
    BY <2>2, RequestType
  <2>3. CASE SettlementStep(o) /\ UNCHANGED worker
    BY <2>3, SettlementType
  <2>4. CASE ~UNCHANGED worker \/ ~(CheckoutStep(o) \/ StripeMoves(o) \/ SettlementStep(o))
    BY <1>2, <2>4, NewTimeType, AfterSaleType DEF OrderStep
  <2> QED BY <2>1, <2>2, <2>3, <2>4
<1> QED BY <1>1, <1>2, HoldStepType, ConfirmationType, WorldType DEF Next

\* In every reachable state every row and every request has the shape the
\* code reads it as having: a booking exists exactly when its order does, a
\* waiting one carries no stale time, a begun request keeps a hold in hand,
\* and a confirmer knows which time and which event it is confirming.
THEOREM TypeCorrect == Spec => []TypeOK
BY InitType, StepType, PTL DEF Spec
=============================================================================
