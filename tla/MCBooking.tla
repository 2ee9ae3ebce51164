----------------------------- MODULE MCBooking -----------------------------
(***************************************************************************)
(* Small instances of BookingSystem for TLC.  Each .cfg picks how many     *)
(* orders, rows, events and workers there are and what the world may do.   *)
(***************************************************************************)
EXTENDS BookingSystem, TLC

CONSTANTS o1, o2, s1, s2, b1, b2, w1, w2

\* Two strangers, or one person in one browser.
SamePerson == (o1 :> b1) @@ (o2 :> b1)
OnePerson == (o1 :> b1)

\* Times apart, times closer than the buffer, times that overlap.
OnlyItself == {<<s, s>> : s \in Slots}
EveryPair == Slots \X Slots
=============================================================================
