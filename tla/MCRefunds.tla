----------------------------- MODULE MCRefunds -----------------------------
(***************************************************************************)
(* Small instances of Refunds for TLC.  Each .cfg picks the pools and what *)
(* the world may do.                                                       *)
(***************************************************************************)
EXTENDS Refunds, TLC

CONSTANTS w1, w2

\* The runs of the sweep do the same things.
AnyRun == Permutations(Runs)
=============================================================================
