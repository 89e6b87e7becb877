---------------------------- MODULE MCUnixSocket -----------------------------
(***************************************************************************)
(* Instances of UnixSocket for TLC: the calls of each thread.              *)
(***************************************************************************)
EXTENDS UnixSocket, TLC

CONSTANTS t1, t2, t3, c1, c2, x1, x2, srv1, srv2

Nobody == [t \in Thread |-> {}]

\* t1 connects a client that blocks, t2 one that does not; t2 and t3 accept.
\* t2 uses the sockets they create, t3 the blocking client and the listener.
PairConnects == [Nobody EXCEPT ![t1] = {c1}, ![t2] = {c2}]
PairAccepts  == [Nobody EXCEPT ![t2] = {srv1}, ![t3] = {srv1}]
PairUses     == [Nobody EXCEPT ![t2] = Accepted, ![t3] = {c1, srv1}]

(* Instances for the behaviours the README describes without a run. *)

\* two threads connect one client
BothConnect == [Nobody EXCEPT ![t1] = {c1}, ![t2] = {c1}]

OneConnects == [Nobody EXCEPT ![t1] = {c1}]
OneAccepts  == [Nobody EXCEPT ![t3] = {srv1}]
CloseUses   == [Nobody EXCEPT ![t3] = {srv1}]

\* a second listener, to which the client turns when the first is closed
TurnAccepts == [Nobody EXCEPT ![t3] = Listener]
TurnUses    == [Nobody EXCEPT ![t3] = {c1, x1, srv1}]

Symmetry == Permutations(Accepted)
=============================================================================
