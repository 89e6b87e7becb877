----------------------------- MODULE MCFileLock ------------------------------
(***************************************************************************)
(* Instances of FileLock for TLC: the ranges of bytes and the processes.   *)
(***************************************************************************)
EXTENDS FileLock, TLC

CONSTANTS p1, p2, p3, t1, t2, t3, u1, d1, d2

\* u1 shares a process with t1
Sharing == [t \in Thread |-> CASE t \in {t1, u1} -> p1 [] t = t2 -> p2 [] t = t3 -> p3]

\* p1 can have any descriptor, the others one each
TwoAndOne == [p \in Proc |-> IF p = p1 THEN Desc ELSE {d1}]

\* all have the same one, so that a thread can close what another uses
OneEach == [p \in Proc |-> {d1}]

\* two ranges with one byte in common, the second to the end of the file
Crossing == {[start |-> 0, len |-> 2], [start |-> 1, len |-> 0]}

Symmetry == {(p2 :> p3) @@ (p3 :> p2) @@ (t2 :> t3) @@ (t3 :> t2)}

(* Instances for the behaviours the README describes without a run. *)

\* a range within another
Nested == {[start |-> 0, len |-> 3], [start |-> 1, len |-> 1]}
\* two ranges far from each other, and one that meets both
Apart == {[start |-> 0, len |-> 1], [start |-> 3, len |-> 1], [start |-> 0, len |-> 4]}
=============================================================================
