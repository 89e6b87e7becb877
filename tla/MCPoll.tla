------------------------------- MODULE MCPoll --------------------------------
(***************************************************************************)
(* Instances of Poll for TLC: the objects and the calls of each run.       *)
(***************************************************************************)
EXTENDS Poll, TLC

CONSTANTS t1, t2, t3, e, f, a, b

In(o)  == [obj |-> o, want |-> "in"]
Out(o) == [obj |-> o, want |-> "out"]
Do(op, o) == [op |-> op, obj |-> o, table |-> FALSE, blocks |-> FALSE]
Wait(op, o) == [op |-> op, obj |-> o, table |-> FALSE, blocks |-> TRUE]
Under(op, o) == [op |-> op, obj |-> o, table |-> TRUE, blocks |-> FALSE]

Pair == [s \in {a, b} |-> IF s = a THEN b ELSE a]

\* t1 and t2 poll a socket, t1 also for room in an eventfd and for a signal, t2
\* also to write to the socket; the other end writes and is closed
MixedPolls == [t \in Thread |->
  IF t = t1 THEN {{In(a)}, {Out(e), In(f)}}
  ELSE IF t = t2 THEN {{In(a)}, {Out(a)}} ELSE {}]
MixedCalls == [t \in Thread |->
  IF t = t3 THEN {Do("write", b), Do("close", b), Do("write", e), Do("read", e),
                  Under("post", f), Do("read", f)}
  ELSE {}]

\* one thread polls a socket, one reads it, the other end writes and is closed;
\* one thread blocks in reads of an eventfd, one in writes to it
LivePolls == [t \in Thread |-> IF t = t1 THEN {{In(a)}} ELSE {}]
LiveCalls == [t \in Thread |->
  IF t = t3 THEN {Do("write", b), Do("close", b), Wait("write", e)}
  ELSE IF t = t2 THEN {Wait("read", a), Wait("read", e)} ELSE {Do("read", e)}]

(* Instances for the behaviours the README describes without a run. *)

\* two threads block in reads of an eventfd, one in writes to it
TwoReaders == [t \in Thread |-> IF t = t3 THEN {Wait("write", e)} ELSE {Wait("read", e)}]

\* two threads poll one eventfd
EventPolls == [t \in Thread |-> IF t = t3 THEN {} ELSE {{In(e)}}]
EventCalls == [t \in Thread |-> IF t = t3 THEN {Do("write", e)} ELSE {}]

OnePoll == [t \in Thread |-> IF t = t1 THEN {{In(e)}} ELSE {}]

\* polls for writing at one end, for reading at the other
WritePolls == [t \in Thread |-> IF t = t3 THEN {{In(b)}} ELSE {{Out(a)}}]
NoCalls == [t \in Thread |-> {}]

\* a poll over a pending signal
SignalPolls == [t \in Thread |-> IF t = t1 THEN {{In(f), In(e)}} ELSE {}]
SignalCalls == [t \in Thread |->
  IF t = t2 THEN {Under("post", f)} ELSE IF t = t3 THEN {Do("write", e)} ELSE {}]
=============================================================================
