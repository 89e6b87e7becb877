---------------------------- MODULE MCProcessEnd -----------------------------
(***************************************************************************)
(* Instances of ProcessEnd for TLC.                                        *)
(***************************************************************************)
EXTENDS ProcessEnd, TLC

CONSTANTS t1, t2, t3

Symmetry == Permutations(Waiter)
=============================================================================
