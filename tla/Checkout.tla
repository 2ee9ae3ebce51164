------------------------------ MODULE Checkout ------------------------------
(***************************************************************************)
(* A checkout attempt, from the chosen time to the Stripe session, and the *)
(* Stripe session itself.                                                  *)
(*                                                                         *)
(* startCheckoutAction holds the time in the database, asks the calendar   *)
(* second, writes the order third and asks Stripe last, each in a step of  *)
(* its own.  Between any two of them another attempt, the sweep, the coach *)
(* or a crash may act.  Every failure ends in "releasing", the catch block *)
(* that gives the hold back.                                               *)
(***************************************************************************)
EXTENDS BookingTables

VARIABLES
    checkout,   \* each attempt: where its request is, its hold, an event in hand
    session     \* each attempt's Stripe Checkout session

checkoutVars == <<checkout, session>>

\* held -> posted -> blocked -> ordered -> started -> over, or releasing -> over
CheckoutPC == {"idle", "held", "posted", "blocked", "ordered", "started",
               "releasing", "over"}

\* unlinked: Stripe made it, the order does not carry its id yet, and the
\* customer has not been given its address.
SessionStatus == {"none", "unlinked", "open", "processing", "complete", "expired", "bounced"}

\* A request that has begun has a hold, and keeps it in hand; its order is
\* written once the calendar has been asked; its session comes after that.
CheckoutTypeOK ==
    /\ checkout \in [Orders -> [pc : CheckoutPC, hold : Holds \cup {None},
                                event : Events \cup {None}]]
    /\ session \in [Orders -> SessionStatus]
    /\ \A o \in Orders :
         /\ checkout[o].pc # "idle" => /\ checkout[o].hold \in Holds
                                       /\ hold[checkout[o].hold].status # "none"
         /\ checkout[o].pc \in {"idle", "held", "posted", "blocked"} => order[o] = "none"
         /\ checkout[o].pc = "posted" => checkout[o].event \in Events
         /\ session[o] # "none" => checkout[o].pc \in {"started", "releasing", "over"}

CheckoutInit ==
    /\ checkout = [o \in Orders |-> [pc |-> "idle", hold |-> None, event |-> None]]
    /\ session = [o \in Orders |-> "none"]

GoTo(o, pc) == checkout' = [checkout EXCEPT ![o].pc = pc]

(***************************************************************************)
(* The request.                                                            *)
(***************************************************************************)

\* The holds this browser still has unpaid: given back before a new one is taken.
EarlierHolds(o) == {h \in Holds : hold[h].status = "held" /\ hold[h].owner = Owner[o]}

\* The time is offered, and the insert passes the exclusion constraint once
\* the browser's earlier holds are released in the same transaction.
HoldSlot(o) ==
    /\ checkout[o].pc = "idle"
    /\ \E s \in Slots, h \in Holds :
         /\ Offered(s)
         /\ ~\E k \in Holds \ EarlierHolds(o) : Blocking(k) /\ Clash(hold[k].slot, s)
         /\ FreshHold(h)
         /\ hold' = [Released(EarlierHolds(o)) EXCEPT ![h] =
               [NoHold EXCEPT !.status = "held", !.slot = s, !.owner = Owner[o]]]
         /\ checkout' = [checkout EXCEPT ![o] = [pc |-> "held", hold |-> h, event |-> None]]
    /\ UNCHANGED <<order, booking, calendar, phase, session>>

HeldSlot(o) == hold[checkout[o].hold].slot

\* blocked: the calendar was free a moment ago and now has a tentative event.
PostTentative(o) ==
    /\ checkout[o].pc = "held"
    /\ Bookable(HeldSlot(o))
    /\ \E e \in Events :
         /\ AddEvent(e, HeldSlot(o), "checkout", o)
         /\ checkout' = [checkout EXCEPT ![o].pc = "posted", ![o].event = e]
    /\ UNCHANGED <<order, booking, hold, phase, session>>

\* unavailable: the coach has taken the time since it was offered.
CalendarRefuses(o) ==
    /\ checkout[o].pc = "held"
    /\ ~Bookable(HeldSlot(o))
    /\ GoTo(o, "releasing")
    /\ UNCHANGED <<tableVars, session>>

\* unblocked: no answer, so checkout goes on under the database hold alone.
CalendarUnreachable(o) ==
    /\ "calendar_down" \in Env
    /\ checkout[o].pc = "held"
    /\ GoTo(o, "blocked")
    /\ UNCHANGED <<tableVars, session>>

\* unblocked too, but the event had been created when the answer was lost.
CalendarAnswerLost(o) ==
    /\ "lost_answer" \in Env
    /\ checkout[o].pc = "held"
    /\ Bookable(HeldSlot(o))
    /\ \E e \in Events : AddEvent(e, HeldSlot(o), "checkout", o)
    /\ GoTo(o, "blocked")
    /\ UNCHANGED <<order, booking, hold, phase, session>>

\* attachCalendarEvent: only a held hold takes the event.
AttachEvent(o) ==
    /\ checkout[o].pc = "posted"
    /\ hold[checkout[o].hold].status = "held"
    /\ hold' = [hold EXCEPT ![checkout[o].hold].event = checkout[o].event]
    /\ GoTo(o, "blocked")
    /\ UNCHANGED <<order, booking, calendar, phase, session>>

\* The hold died meanwhile: the orphaned event is deleted, at best effort.
DropOrphan(o) ==
    /\ checkout[o].pc = "posted"
    /\ hold[checkout[o].hold].status # "held"
    /\ \/ DropEvent(checkout[o].event)
       \/ "calendar_down" \in Env /\ UNCHANGED calendar
    /\ GoTo(o, "blocked")
    /\ UNCHANGED <<order, booking, hold, phase, session>>

\* The order, its waiting booking and the hold's link to them, if the hold still counts.
PersistOrder(o) ==
    LET h == checkout[o].hold IN
    /\ checkout[o].pc = "blocked"
    /\ hold[h].status = "held" /\ ~hold[h].lapsed
    /\ order' = [order EXCEPT ![o] = "pending"]
    /\ booking' = [booking EXCEPT ![o].status = "awaiting_schedule"]
    /\ hold' = [hold EXCEPT ![h].order = o]
    /\ GoTo(o, "ordered")
    /\ UNCHANGED <<calendar, phase, session>>

\* SlotHoldNoLongerLiveError: nothing of the order is written.
HoldNoLongerLive(o) ==
    LET h == checkout[o].hold IN
    /\ checkout[o].pc = "blocked"
    /\ hold[h].status # "held" \/ hold[h].lapsed
    /\ GoTo(o, "releasing")
    /\ UNCHANGED <<tableVars, session>>

StartSession(o) ==
    /\ checkout[o].pc = "ordered"
    /\ session' = [session EXCEPT ![o] = "unlinked"]
    /\ GoTo(o, "started")
    /\ UNCHANGED tableVars

\* attachCheckoutSession, and the customer is sent to Stripe.
LinkSession(o) ==
    /\ checkout[o].pc = "started"
    /\ session' = [session EXCEPT ![o] = "open"]
    /\ GoTo(o, "over")
    /\ UNCHANGED tableVars

\* Any error after the hold: the catch block.  attachCalendarEvent's own may throw too, and
\* then nobody knows of the event just made.
CheckoutFails(o) ==
    /\ "checkout_error" \in Env
    /\ checkout[o].pc \in {"held", "posted", "blocked", "ordered", "started"}
    /\ GoTo(o, "releasing")
    /\ UNCHANGED <<tableVars, session>>

\* releaseHeldSlotQuietly: only a held hold; a failure is swallowed.
ReleaseQuietly(o) ==
    /\ checkout[o].pc = "releasing"
    /\ \/ hold' = Released({checkout[o].hold} \cap {h \in Holds : hold[h].status = "held"})
       \/ "checkout_error" \in Env /\ UNCHANGED hold
    /\ GoTo(o, "over")
    /\ UNCHANGED <<order, booking, calendar, phase, session>>

\* The process dies; nothing catches it.
CheckoutCrashes(o) ==
    /\ "crash" \in Env
    /\ checkout[o].pc \notin {"idle", "over"}
    /\ GoTo(o, "over")
    /\ UNCHANGED <<tableVars, session>>

(***************************************************************************)
(* The Stripe session.                                                     *)
(***************************************************************************)

\* Ended by us: the order is unpaid, its hold was given up and nothing else
\* holds a time for it.  Stripe refuses to expire a session that completed.
EndCheckout(o) ==
    /\ order[o] = "pending"
    /\ session[o] = "open"
    /\ \E h \in Holds : hold[h].order = o /\ hold[h].status = "released"
    /\ ~\E h \in Holds : hold[h].order = o /\ Blocking(h)
    /\ session' = [session EXCEPT ![o] = "expired"]
    /\ UNCHANGED <<tableVars, checkout>>

\* What the customer, the bank and Stripe's own clock do to it.
StripeMoves(o) ==
    /\ \/ session[o] = "open" /\ session' = [session EXCEPT ![o] = "complete"]
       \/ session[o] = "open" /\ session' = [session EXCEPT ![o] = "expired"]
       \/ /\ "delayed_payment" \in Env
          /\ \/ session[o] = "open" /\ session' = [session EXCEPT ![o] = "processing"]
             \/ session[o] = "processing" /\ session' = [session EXCEPT ![o] = "complete"]
             \/ session[o] = "processing" /\ session' = [session EXCEPT ![o] = "bounced"]
    /\ UNCHANGED <<tableVars, checkout>>

CheckoutStep(o) ==
    \/ HoldSlot(o)
    \/ PostTentative(o) \/ CalendarRefuses(o) \/ CalendarUnreachable(o) \/ CalendarAnswerLost(o)
    \/ AttachEvent(o) \/ DropOrphan(o)
    \/ PersistOrder(o) \/ HoldNoLongerLive(o)
    \/ StartSession(o) \/ LinkSession(o)
    \/ CheckoutFails(o) \/ ReleaseQuietly(o) \/ CheckoutCrashes(o)
    \/ EndCheckout(o)
=============================================================================
