------------------------------ MODULE MCFutex64 ------------------------------
(***************************************************************************)
(* Instances of Futex64 for TLC: the processes of the threads and the      *)
(* calls that guests make in each run.                                     *)
(***************************************************************************)
EXTENDS Futex64, TLC

CONSTANTS p, q, a, t1, t2, t3

OneProcess   == [t \in Thread |-> p]
TwoProcesses == [t \in Thread |-> IF t = t3 THEN q ELSE p]

NoClearTid == [t \in Thread |-> NoAddr]
JoinedClears == [t \in Thread |-> IF t = t2 THEN a ELSE NoAddr]

Wait1(cmd, w, m, timed) ==
  [cmd |-> cmd, addr |-> a, val |-> w, mask |-> m, timed |-> timed,
   exits |-> FALSE]
Wake1(cmd, n, m) ==
  [cmd |-> cmd, addr |-> a, val |-> n, mask |-> m, timed |-> FALSE,
   exits |-> FALSE]

\* alerts: the word stays, the WAKE wakes one
AlertWaits ==
  [t \in Thread |->
     {Wait1("WAIT", 0, {}, TRUE), Wait1("WAIT_BITSET", 0, {1}, FALSE)}]
AlertWakes == {Wake1("WAKE", 1, {}), Wake1("WAKE_BITSET", 1, {1})}
PlainWaits == [t \in Thread |-> {Wait1("WAIT", 0, {}, FALSE)}]
PlainWakes == {Wake1("WAKE", 1, {})}

\* pthread_join by t1 (glibc waits with WAIT_BITSET): the word holds the
\* joined thread's id until it exits, or until the guest changes it and wakes
JoinWaits == [t \in Thread |->
  IF t = t1 THEN {Wait1("WAIT_BITSET", 1, {1}, FALSE)} ELSE {}]
JoinWakes == {Wake1("WAKE_BITSET", 1, {1})}

PairSymmetry == Permutations({t1, t2})
=============================================================================
