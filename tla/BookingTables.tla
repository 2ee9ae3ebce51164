--------------------------- MODULE BookingTables ---------------------------
(***************************************************************************)
(* The shared state of the booking system: the rows of the orders,         *)
(* bookings and slot_holds tables, and the coach's real calendar.          *)
(*                                                                         *)
(* Every other module of the core acts on these variables.  A database     *)
(* transaction is one step; a call to the calendar or to Stripe is a step  *)
(* of its own, because the code holds no transaction open across one.      *)
(*                                                                         *)
(* A time is an element of Slots.  Two relations say what the code's       *)
(* interval arithmetic says about two times: Overlaps is the strict        *)
(* overlap the database constraints test, Near is the same widened by the  *)
(* buffer the calendar check adds on either side.                          *)
(***************************************************************************)
EXTENDS Integers, FiniteSets

CONSTANTS
    Orders,     \* one checkout attempt and the order and booking it becomes
    Holds,      \* ids of slot_holds rows, used in increasing order
    Events,     \* ids of calendar events, used in increasing order
    Slots,      \* the bookable times
    Overlaps,   \* pairs of times that overlap
    Near,       \* pairs of times closer than the calendar buffer
    Browsers,   \* owner keys: one customer in one browser
    Owner,      \* which browser makes each attempt
    None,       \* the database's null
    Env         \* what the world around the code may do in this instance

ASSUME PoolAssumption ==
    /\ Holds \subseteq Nat
    /\ Events \subseteq Nat
    /\ Owner \in [Orders -> Browsers]

ASSUME NullAssumption ==
    None \notin Orders \cup Holds \cup Events \cup Slots \cup Browsers

ASSUME OverlapAssumption ==
    /\ Overlaps \subseteq Near
    /\ Near \subseteq Slots \X Slots
    /\ \A s \in Slots : <<s, s>> \in Overlaps
    /\ \A s, t \in Slots : <<s, t>> \in Overlaps => <<t, s>> \in Overlaps

VARIABLES
    order,      \* orders.payment_status, "none" before the row is written
    booking,    \* the order's row of bookings
    hold,       \* rows of slot_holds
    calendar,   \* events on the coach's calendar
    phase       \* how near each time is: open, inside the notice, or started

tables == <<order, booking, hold>>
tableVars == <<order, booking, hold, calendar, phase>>

OrderStatus == {"none", "pending", "paid", "failed", "partially_refunded", "refunded"}
BookingStatus == {"none", "awaiting_schedule", "scheduled", "confirmed", "cancelled"}
HoldStatus == {"none", "held", "converted", "expired", "released"}
EventStatus == {"none", "tentative", "confirmed", "gone"}

BookingRow == [status : BookingStatus,
               slot   : Slots \cup {None},
               event  : Events \cup {None}]

HoldRow == [status  : HoldStatus,
            slot    : Slots \cup {None},
            owner   : Browsers \cup {None},
            order   : Orders \cup {None},
            event   : Events \cup {None},
            lapsed  : BOOLEAN,     \* expires_at has passed
            cleared : BOOLEAN]     \* calendar_released_at is set

EventRow == [status : EventStatus,
             slot   : Slots \cup {None},
             maker  : {"none", "checkout", "confirmation", "coach"},
             order  : Orders \cup {None}]

NoBooking == [status |-> "none", slot |-> None, event |-> None]
NoHold == [status |-> "none", slot |-> None, owner |-> None, order |-> None,
           event |-> None, lapsed |-> FALSE, cleared |-> FALSE]
NoEvent == [status |-> "none", slot |-> None, maker |-> "none", order |-> None]

TablesInit ==
    /\ order = [o \in Orders |-> "none"]
    /\ booking = [o \in Orders |-> NoBooking]
    /\ hold = [h \in Holds |-> NoHold]
    /\ calendar = [e \in Events |-> NoEvent]
    /\ phase = [s \in Slots |-> "open"]

(***************************************************************************)
(* Reading the tables.                                                     *)
(***************************************************************************)

Clash(s, t) == <<s, t>> \in Overlaps

\* The statuses the slot_holds exclusion constraint covers, lapsed or not.
Blocking(h) == hold[h].status \in {"held", "converted"}

\* The holds availability counts: a held hold only while its countdown runs.
BlocksSlot(h) ==
    \/ hold[h].status = "converted"
    \/ hold[h].status = "held" /\ ~hold[h].lapsed

\* A booking with a time: what the bookings exclusion constraint covers.
Timed(o) == booking[o].status \in {"scheduled", "confirmed"}

HoldClash(s) == \E h \in Holds : Blocking(h) /\ Clash(hold[h].slot, s)

BookingClash(o, s) ==
    \E p \in Orders \ {o} : Timed(p) /\ Clash(booking[p].slot, s)

\* An order's converted holds for one time.
ConvertedHolds(o, s) ==
    {h \in Holds : hold[h].status = "converted" /\ hold[h].order = o /\ hold[h].slot = s}

Live(e) == calendar[e].status \in {"tentative", "confirmed"}

\* Anything on the calendar within the buffer of s; tentative events block too.
Busy(s) == \E e \in Events : Live(e) /\ <<calendar[e].slot, s>> \in Near

\* isBookableSlot: outside the minimum notice and nothing near it on the calendar.
Bookable(s) == phase[s] = "open" /\ ~Busy(s)

\* offeredSlots: what the calendar and the live holds leave, read together.
Offered(s) == Bookable(s) /\ ~\E h \in Holds : BlocksSlot(h) /\ Clash(hold[h].slot, s)

\* A row or an event id nobody has used; always the lowest, so ids are interchangeable.
FreshHold(h) ==
    /\ hold[h].status = "none"
    /\ \A k \in Holds : hold[k].status = "none" => h <= k

FreshEvent(e) ==
    /\ calendar[e].status = "none"
    /\ \A k \in Events : calendar[k].status = "none" => e <= k

(***************************************************************************)
(* Writing them.                                                           *)
(***************************************************************************)

\* The holds of a set, given back.
Released(hs) == [h \in Holds |-> IF h \in hs THEN [hold[h] EXCEPT !.status = "released"]
                                             ELSE hold[h]]

AddEvent(e, s, maker, o) ==
    /\ FreshEvent(e)
    /\ calendar' = [calendar EXCEPT ![e] =
          [status |-> "tentative", slot |-> s, maker |-> maker, order |-> o]]

\* A deleted event goes to Deleted Items: its id never resolves again.
DropEvent(e) == calendar' = [calendar EXCEPT ![e].status = "gone"]

(***************************************************************************)
(* cancelOpenBooking: the booking ends and its time goes back on sale.     *)
(* The released hold carries the booking's event, so the sweep deletes it; *)
(* a booking placed by hand has no hold, so a released one is written.     *)
(***************************************************************************)
CancelOpenBooking(o) ==
    LET b == booking[o]
        backing == ConvertedHolds(o, b.slot)
    IN  /\ b.status \in {"awaiting_schedule", "scheduled", "confirmed"}
        /\ booking' = [booking EXCEPT ![o].status = "cancelled"]
        /\ IF backing = {} /\ b.event # None
           THEN \E h \in Holds :
                  /\ FreshHold(h)
                  /\ hold' = [hold EXCEPT ![h] = [NoHold EXCEPT
                        !.status = "released", !.slot = b.slot, !.order = o,
                        !.event = b.event, !.lapsed = TRUE]]
           ELSE hold' = [h \in Holds |->
                  IF h \in backing
                  THEN [hold[h] EXCEPT !.status = "released",
                                       !.event = IF @ = None THEN b.event ELSE @]
                  ELSE hold[h]]

(***************************************************************************)
(* What every reachable state of the tables looks like: the types, and the *)
(* shape of a row: a waiting booking carries no time and no event, a       *)
(* booking with a time has one, a used hold has a time.                    *)
(***************************************************************************)
OrderRowsOK ==
    /\ order \in [Orders -> OrderStatus]
    /\ booking \in [Orders -> BookingRow]
    /\ \A o \in Orders :
         /\ booking[o].status \in {"none", "awaiting_schedule"} =>
              booking[o].slot = None /\ booking[o].event = None
         /\ Timed(o) => booking[o].slot \in Slots
         /\ booking[o].status = "confirmed" => booking[o].event \in Events
         /\ booking[o].status = "none" <=> order[o] = "none"

HoldRowsOK ==
    /\ hold \in [Holds -> HoldRow]
    /\ \A h \in Holds : hold[h].status # "none" => hold[h].slot \in Slots

TablesOK ==
    /\ OrderRowsOK /\ HoldRowsOK
    /\ calendar \in [Events -> EventRow]
    /\ phase \in [Slots -> {"open", "notice", "started"}]
=============================================================================
