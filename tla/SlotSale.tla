------------------------------ MODULE SlotSale ------------------------------
(***************************************************************************)
(* What the booking system promises, with no holds, no calendar, no Stripe *)
(* and no workers: a seat is a time sold to one order.                     *)
(*                                                                         *)
(* A seat is given only for money, only while no other order has a seat    *)
(* overlapping it, and one at a time.  Money that has come in is never     *)
(* forgotten: it stays, or it is returned, and an order whose money is     *)
(* returned keeps no seat that is still to come.                           *)
(***************************************************************************)

CONSTANTS Orders, Slots, Overlaps

VARIABLES
    money,  \* unpaid, paid, returned
    seat,   \* a time, waiting for one, or over: no time will be given
    past    \* the times that have begun

saleVars == <<money, seat, past>>

Init ==
    /\ money = [o \in Orders |-> "unpaid"]
    /\ seat = [o \in Orders |-> "waiting"]
    /\ past = {}

Free(o, s) ==
    /\ s \in Slots
    /\ \A p \in Orders \ {o} : seat[p] \in Slots => <<seat[p], s>> \notin Overlaps

\* The money comes in, with or without a seat.
Sell(o) ==
    /\ money[o] = "unpaid" /\ seat[o] = "waiting"
    /\ money' = [money EXCEPT ![o] = "paid"]
    /\ \/ UNCHANGED seat
       \/ \E s \in Slots : Free(o, s) /\ seat' = [seat EXCEPT ![o] = s]
    /\ UNCHANGED past

\* A paid order that waits is given a seat.
GiveSeat(o) ==
    /\ money[o] = "paid" /\ seat[o] = "waiting"
    /\ \E s \in Slots : Free(o, s) /\ seat' = [seat EXCEPT ![o] = s]
    /\ UNCHANGED <<money, past>>

\* The seat is lost: the order waits again, and is not charged again.
LoseSeat(o) ==
    /\ seat[o] \in Slots
    /\ seat' = [seat EXCEPT ![o] = "waiting"]
    /\ UNCHANGED <<money, past>>

\* The booking is called off before its time.
CallOff(o) ==
    /\ money[o] = "paid"
    /\ seat[o] \in (Slots \ past) \cup {"waiting"}
    /\ seat' = [seat EXCEPT ![o] = "over"]
    /\ UNCHANGED <<money, past>>

\* All the money goes back, and with it every seat still to come.
Return(o) ==
    /\ money[o] = "paid"
    /\ money' = [money EXCEPT ![o] = "returned"]
    /\ seat' = IF seat[o] \in past THEN seat ELSE [seat EXCEPT ![o] = "over"]
    /\ UNCHANGED past

TimeBegins ==
    /\ \E s \in Slots \ past : past' = past \cup {s}
    /\ UNCHANGED <<money, seat>>

Next == (\E o \in Orders : Sell(o) \/ GiveSeat(o) \/ LoseSeat(o) \/ CallOff(o) \/ Return(o))
        \/ TimeBegins

Spec == Init /\ [][Next]_saleVars
=============================================================================
