----------------------------- MODULE SocketPairs -----------------------------
(***************************************************************************)
(* What connected sockets promise to programs: a client and a socket that  *)
(* accept creates become a pair once in their lives, a direction is closed *)
(* at both ends, and the end of one closes the other.  There are no        *)
(* queues, calls under way, locks or destructors.                          *)
(***************************************************************************)
CONSTANTS Client, Accepted, NoSocket

VARIABLES
  peer,            \* the other end, of a pair both of whose ends exist
  over,            \* sockets that ended, or whose other end did
  noRecv, noSend   \* what each can no longer do

vars == <<peer, over, noRecv, noSend>>

Socket == Client \cup Accepted

Init ==
  /\ peer = [s \in Socket |-> NoSocket]
  /\ over = {}
  /\ noRecv = [s \in Socket |-> FALSE]
  /\ noSend = [s \in Socket |-> FALSE]

Pair(c, a) ==
  /\ {c, a} \cap over = {}
  /\ peer[c] = NoSocket /\ peer[a] = NoSocket
  /\ peer' = [peer EXCEPT ![c] = a, ![a] = c]
  /\ UNCHANGED <<over, noRecv, noSend>>

\* s shuts down what it receives, what it sends, or both
Shutdown(s, in, out) ==
  /\ peer[s] # NoSocket
  /\ noRecv' = [noRecv EXCEPT ![s] = @ \/ in, ![peer[s]] = @ \/ out]
  /\ noSend' = [noSend EXCEPT ![s] = @ \/ out, ![peer[s]] = @ \/ in]
  /\ UNCHANGED <<peer, over>>

\* s ends, and with it its pair
End(s) ==
  LET ends == {s, peer[s]} \cap Socket
  IN  /\ peer' = [r \in Socket |-> IF r \in ends THEN NoSocket ELSE peer[r]]
      /\ over' = over \cup ends
      /\ noRecv' = [r \in Socket |-> r \in ends \/ noRecv[r]]
      /\ noSend' = [r \in Socket |-> r \in ends \/ noSend[r]]

Next ==
  \/ \E c \in Client, a \in Accepted : Pair(c, a)
  \/ \E s \in Socket : End(s) \/ \E in, out \in BOOLEAN : Shutdown(s, in, out)

Spec == Init /\ [][Next]_vars
=============================================================================
