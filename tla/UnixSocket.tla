----------------------------- MODULE UnixSocket ------------------------------
(***************************************************************************)
(* How connected unix sockets come together and apart in the               *)
(* multi-threaded build: connect, accept, shutdown, close and the          *)
(* destructor of KUnixSocketObject (source/kernel/kunixsocket.cpp).        *)
(*                                                                         *)
(* Sockets point at each other with weak pointers: a client at the         *)
(* listener it waits for (connecting), a listener at the clients that wait *)
(* (pendingConnections), and each end of a pair at the other (connection). *)
(* A socket is destroyed when the last strong pointer to it goes: those of *)
(* descriptors, and those a system call holds while it runs.  The          *)
(* destructor then takes the locks of the other sockets one after another. *)
(* What the sockets carry is in module Poll.                               *)
(***************************************************************************)
EXTENDS Integers, Sequences

CONSTANTS
  Client,       \* sockets that programs connect
  Accepted,     \* sockets accept may create; bounds the calls that succeed
  Listener,     \* sockets that are bound and listening
  Thread,
  Connects,     \* clients each thread connects
  Accepts,      \* listeners each thread accepts from
  Uses,         \* sockets each thread writes to, shuts down and closes
  NonBlocking,  \* sockets set to O_NONBLOCK
  Interrupted,  \* threads that may get a signal or be terminated
  NoSocket

Socket == Client \cup Accepted \cup Listener

ASSUME KindsDiffer ==
  /\ Client \cap Accepted = {} /\ Client \cap Listener = {} /\ Accepted \cap Listener = {}
  /\ NoSocket \notin Socket

ASSUME CallsAssumption ==
  /\ Connects \in [Thread -> SUBSET Client]
  /\ Accepts \in [Thread -> SUBSET Listener]
  /\ Uses \in [Thread -> SUBSET Socket]
  /\ NonBlocking \subseteq Socket
  /\ Interrupted \subseteq Thread

\* no two threads connect one socket: connect tests and sets without a lock
OneConnector == \A t, u \in Thread : t = u \/ Connects[t] \cap Connects[u] = {}

VARIABLES
  life,        \* not created, alive, or where the destructor is
  open,        \* sockets a descriptor refers to
  connection,  \* the other end
  connecting,  \* the listener a client waits, or waited, for
  pending,     \* pendingConnections
  connected, inClosed, outClosed,
  pc,          \* where each thread is
  on,          \* the socket it made the call on
  with,        \* the other socket the call holds
  aborted      \* the emulator ended in std::terminate

links == <<connection, connecting, pending>>
flags == <<connected, inClosed, outClosed>>
calls == <<pc, on, with>>
vars == <<life, open, links, flags, calls, aborted>>

How == {"SHUT_RD", "SHUT_WR", "SHUT_RDWR"}
Asleep == {"connecting", "reconnecting", "accepting"}
Place == {"user", "claim", "queue", "check", "woken", "again", "accept", "pair", "link", "stuck"} \cup Asleep \cup How

Init ==
  /\ life = [s \in Socket |-> IF s \in Accepted THEN "unborn" ELSE "alive"]
  /\ open = Client \cup Listener
  /\ connection = [s \in Socket |-> NoSocket]
  /\ connecting = [s \in Socket |-> NoSocket]
  /\ pending = [s \in Socket |-> <<>>]
  /\ connected = [s \in Socket |-> FALSE]
  /\ inClosed = [s \in Socket |-> FALSE]
  /\ outClosed = [s \in Socket |-> FALSE]
  /\ pc = [t \in Thread |-> "user"]
  /\ on = [t \in Thread |-> NoSocket]
  /\ with = [t \in Thread |-> NoSocket]
  /\ aborted = FALSE

-----------------------------------------------------------------------------
(* Strong and weak pointers, locks and conditions *)

\* mutant of Holds: accept leaves the socket it creates to its descriptor
HoldsArguments(t, s) == s = on[t] \/ s = with[t]

\* accept holds the socket it creates, too
Holds(t, s) ==
  \/ s = on[t] \/ s = with[t]
  \/ pc[t] = "link" /\ s = connection[with[t]]

Strong(s) == s \in open \/ \E t \in Thread : Holds(t, s)

\* std::weak_ptr::lock
Lock(w) == IF w # NoSocket /\ Strong(w) THEN w ELSE NoSocket

\* accept is the one call that keeps a socket's lock from step to step, or for ever
Free(s) == \A t \in Thread : ~(pc[t] \in {"link", "stuck"} /\ with[t] = s)

Resumes(l) ==
  CASE l = "connecting" -> "woken" [] l = "reconnecting" -> "again" [] l = "accepting" -> "accept"

\* BOXEDWINE_CONDITION_SIGNAL_ALL of the conditions of the sockets in S
Signalled(S) ==
  [t \in Thread |-> IF pc[t] \in Asleep /\ on[t] \in S THEN Resumes(pc[t]) ELSE pc[t]]

Enter(t, l, s, p) ==
  /\ pc' = [pc EXCEPT ![t] = l]
  /\ on' = [on EXCEPT ![t] = s]
  /\ with' = [with EXCEPT ![t] = p]

\* the call ends, after it signalled the sockets in S
ReturnAfter(t, S) ==
  /\ pc' = [Signalled(S) EXCEPT ![t] = "user"]
  /\ on' = [on EXCEPT ![t] = NoSocket]
  /\ with' = [with EXCEPT ![t] = NoSocket]

Return(t) == ReturnAfter(t, {})

-----------------------------------------------------------------------------
(* connect *)

\* mutant of Connect: a client that still waits may be queued again
ConnectAgain(t, c, l) ==
  /\ pc[t] = "user" /\ c \in open \cap Connects[t] /\ ~connected[c] /\ Strong(l)
  /\ Lock(connection[c]) = NoSocket
  /\ Enter(t, "claim", c, l)
  /\ UNCHANGED <<life, open, links, flags, aborted>>

\* kconnect, and what connect tests without a lock; the name still leads to l
Connect(t, c, l) ==
  /\ pc[t] = "user"
  /\ c \in open \cap Connects[t]
  /\ ~connected[c]
  /\ Strong(l)
  /\ \/ /\ Lock(connection[c]) # NoSocket
        /\ connected' = [connected EXCEPT ![c] = TRUE]
        /\ UNCHANGED calls
     \/ /\ Lock(connection[c]) = NoSocket
        /\ Lock(connecting[c]) # NoSocket
        /\ c \notin NonBlocking
        /\ Enter(t, "again", c, l)
        /\ UNCHANGED connected
     \/ /\ Lock(connection[c]) = NoSocket
        /\ Lock(connecting[c]) = NoSocket
        /\ Enter(t, "claim", c, l)
        /\ UNCHANGED connected
  /\ UNCHANGED <<life, open, links, inClosed, outClosed, aborted>>

\* what it tested may be so no longer
Claim(t) ==
  /\ pc[t] = "claim"
  /\ connecting' = [connecting EXCEPT ![on[t]] = with[t]]
  /\ pc' = [pc EXCEPT ![t] = "queue"]
  /\ UNCHANGED <<life, open, connection, pending, flags, on, with, aborted>>

\* mutant of Queue: the listener is put in the client's queue
QueueSwapped(t) ==
  /\ pc[t] = "queue"
  /\ pending' = [pending EXCEPT ![on[t]] = Append(@, with[t])]
  /\ ReturnAfter(t, {with[t]})
  /\ UNCHANGED <<life, open, connection, connecting, flags, aborted>>

\* mutant of Queue: the listener is not signalled
QueueQuietly(t) ==
  /\ pc[t] = "queue"
  /\ pending' = [pending EXCEPT ![with[t]] = Append(@, on[t])]
  /\ IF on[t] \in NonBlocking THEN Return(t) ELSE Enter(t, "check", on[t], with[t])
  /\ UNCHANGED <<life, open, connection, connecting, flags, aborted>>

Queue(t) ==
  /\ pc[t] = "queue"
  /\ pending' = [pending EXCEPT ![with[t]] = Append(@, on[t])]
  /\ IF on[t] \in NonBlocking
       THEN ReturnAfter(t, {with[t]})
       ELSE pc' = [Signalled({with[t]}) EXCEPT ![t] = "check"] /\ UNCHANGED <<on, with>>
  /\ UNCHANGED <<life, open, connection, connecting, flags, aborted>>

\* the end of connect: ECONNREFUSED, or connected
Connected(t) ==
  /\ connected' = [connected EXCEPT ![on[t]] = @ \/ Lock(connection[on[t]]) # NoSocket]
  /\ Return(t)

\* under the client's lock: the test and the wait, of either branch
ConnectWait(t) ==
  /\ pc[t] \in {"check", "again"}
  /\ Free(on[t])
  /\ IF Lock(connecting[on[t]]) # NoSocket
       THEN /\ pc' = [pc EXCEPT ![t] = IF @ = "check" THEN "connecting" ELSE "reconnecting"]
            /\ UNCHANGED <<connected, on, with>>
       ELSE Connected(t)
  /\ UNCHANGED <<life, open, links, inClosed, outClosed, aborted>>

\* the first connect does not look at connecting again
ConnectWoken(t) ==
  /\ pc[t] = "woken"
  /\ Free(on[t])
  /\ Connected(t)
  /\ UNCHANGED <<life, open, links, inClosed, outClosed, aborted>>

\* a spurious return of the condition; only the first connect has no loop
Stir(t) ==
  /\ pc[t] \in Asleep
  /\ pc' = [pc EXCEPT ![t] = Resumes(@)]
  /\ UNCHANGED <<life, open, links, flags, on, with, aborted>>

\* EINTR for a terminated thread, K_CONTINUE for one with a signal
Interrupt(t) ==
  /\ t \in Interrupted
  /\ pc[t] \in Asleep
  /\ Return(t)
  /\ UNCHANGED <<life, open, links, flags, aborted>>

-----------------------------------------------------------------------------
(* accept *)

Accept(t, l) ==
  /\ pc[t] = "user"
  /\ l \in open \cap Accepts[t]
  /\ Enter(t, "accept", l, NoSocket)
  /\ UNCHANGED <<life, open, links, flags, aborted>>

\* under the listener's lock: wait, or take the first of the queue
Look(t) ==
  /\ pc[t] = "accept"
  /\ LET l == on[t] IN
       \/ /\ pending[l] = <<>>
          /\ IF l \in NonBlocking THEN Return(t)
             ELSE pc' = [pc EXCEPT ![t] = "accepting"] /\ UNCHANGED <<on, with>>
          /\ UNCHANGED pending
       \/ /\ pending[l] # <<>>
          /\ pending' = [pending EXCEPT ![l] = Tail(@)]
          /\ IF Lock(Head(pending[l])) = NoSocket THEN Return(t)  \* ECONNABORTED
             ELSE Enter(t, "pair", l, Head(pending[l]))
  /\ UNCHANGED <<life, open, connection, connecting, flags, aborted>>

\* under the client's lock, which it keeps: the new socket and its descriptor
Pair(t, a) ==
  /\ pc[t] = "pair"
  /\ Free(with[t])
  /\ life[a] = "unborn"
  /\ life' = [life EXCEPT ![a] = "alive"]
  /\ open' = open \cup {a}
  /\ connection' = [connection EXCEPT ![with[t]] = a]
  /\ pc' = [pc EXCEPT ![t] = "link"]
  /\ UNCHANGED <<connecting, pending, flags, on, with, aborted>>

\* mutant of Link: the new socket does not learn its peer
LinkOneWay(t) ==
  /\ pc[t] = "link"
  /\ connected' = [connected EXCEPT ![connection[with[t]]] = TRUE]
  /\ connection' = [connection EXCEPT ![connection[with[t]]] = @]
  /\ ReturnAfter(t, {with[t]})
  /\ UNCHANGED <<life, open, connecting, pending, inClosed, outClosed, aborted>>

\* The new socket goes before the client's lock: if its descriptor was closed
\* and nobody else holds it, its destructor wants the lock that its own thread has.
Link(t) ==
  /\ pc[t] = "link"
  /\ LET a == connection[with[t]] IN
       /\ connection' = [connection EXCEPT ![a] = with[t]]
       /\ connected' = [connected EXCEPT ![a] = TRUE]
       /\ IF a \in open \/ \E u \in Thread \ {t} : Holds(u, a)
            THEN ReturnAfter(t, {with[t]})
            ELSE pc' = [Signalled({with[t]}) EXCEPT ![t] = "stuck"] /\ UNCHANGED <<on, with>>
  /\ UNCHANGED <<life, open, connecting, pending, inClosed, outClosed, aborted>>

-----------------------------------------------------------------------------
(* write, shutdown and close *)

\* what a write does to the threads that sleep at the other end
Write(t, s) ==
  /\ pc[t] = "user"
  /\ s \in open \cap Uses[t]
  /\ Lock(connection[s]) # NoSocket
  /\ Free(connection[s])
  /\ pc' = Signalled({connection[s]})
  /\ UNCHANGED <<life, open, links, flags, on, with, aborted>>

\* in: the flag of the direction the socket reads
CloseDirections(s, in, out) ==
  /\ inClosed' = [inClosed EXCEPT ![s] = @ \/ in]
  /\ outClosed' = [outClosed EXCEPT ![s] = @ \/ out]

Shutdown(t, s, how) ==
  /\ pc[t] = "user"
  /\ s \in open \cap Uses[t]
  /\ Lock(connection[s]) # NoSocket
  /\ Free(s)
  /\ CloseDirections(s, how # "SHUT_WR", how # "SHUT_RD")
  /\ pc' = [Signalled({s}) EXCEPT ![t] = how]
  /\ on' = [on EXCEPT ![t] = s]
  /\ with' = [with EXCEPT ![t] = connection[s]]
  /\ UNCHANGED <<life, open, links, connected, aborted>>

\* mutant of ShutdownPeer: the peer gets the caller's directions
ShutdownSame(t) ==
  /\ pc[t] \in How
  /\ Free(with[t])
  /\ CloseDirections(with[t], pc[t] # "SHUT_WR", pc[t] # "SHUT_RD")
  /\ ReturnAfter(t, {with[t]})
  /\ UNCHANGED <<life, open, links, connected, aborted>>

ShutdownPeer(t) ==
  /\ pc[t] \in How
  /\ Free(with[t])
  /\ CloseDirections(with[t], pc[t] # "SHUT_RD", pc[t] # "SHUT_WR")
  /\ ReturnAfter(t, {with[t]})
  /\ UNCHANGED <<life, open, links, connected, aborted>>

\* the last descriptor
Close(t, s) ==
  /\ pc[t] = "user"
  /\ s \in open \cap Uses[t]
  /\ open' = open \ {s}
  /\ UNCHANGED <<life, links, flags, calls, aborted>>

-----------------------------------------------------------------------------
(* The destructor *)

\* mutant of HangUp: the other end is not told what is closed
HangUpUnlinks(s) ==
  /\ life[s] = "alive" /\ ~Strong(s)
  /\ life' = [life EXCEPT ![s] = "hung up"]
  /\ LET p == Lock(connection[s]) IN
       IF p = NoSocket THEN UNCHANGED <<connection, pc>>
       ELSE /\ Free(p)
            /\ connection' = [connection EXCEPT ![p] = NoSocket]
            /\ pc' = Signalled({p})
  /\ UNCHANGED <<open, connecting, pending, flags, on, with, aborted>>

HangUp(s) ==
  /\ life[s] = "alive"
  /\ ~Strong(s)
  /\ life' = [life EXCEPT ![s] = "hung up"]
  /\ LET p == Lock(connection[s]) IN
       IF p = NoSocket THEN UNCHANGED <<connection, inClosed, outClosed, pc>>
       ELSE /\ Free(p)
            /\ connection' = [connection EXCEPT ![p] = NoSocket]
            /\ CloseDirections(p, TRUE, TRUE)
            /\ pc' = Signalled({p})
  /\ UNCHANGED <<open, connecting, pending, connected, on, with, aborted>>

\* shared_from_this throws in a destructor: it is called once per queued socket
LeaveQueue(s) ==
  /\ life[s] = "hung up"
  /\ LET l == Lock(connecting[s]) IN
       IF l # NoSocket /\ pending[l] # <<>>
         THEN aborted' = TRUE /\ UNCHANGED <<life, connecting>>
         ELSE /\ life' = [life EXCEPT ![s] = "left"]
              /\ connecting' = IF l = NoSocket THEN connecting
                               ELSE [connecting EXCEPT ![s] = NoSocket]
              /\ UNCHANGED aborted
  /\ UNCHANGED <<open, connection, pending, flags, calls>>

\* the sockets that wait in its queue
Waiting(s) == {c \in Client : Strong(c) /\ \E i \in 1 .. Len(pending[s]) : pending[s][i] = c}

Drain(s) ==
  /\ life[s] = "left"
  /\ \A c \in Waiting(s) : Free(c)
  /\ life' = [life EXCEPT ![s] = "dead"]
  /\ connecting' = [c \in Socket |-> IF c \in Waiting(s) THEN NoSocket ELSE connecting[c]]
  /\ pc' = Signalled(Waiting(s))
  /\ UNCHANGED <<open, connection, pending, flags, on, with, aborted>>

-----------------------------------------------------------------------------

Continues(t) ==
  \/ Claim(t) \/ Queue(t) \/ ConnectWait(t) \/ ConnectWoken(t)
  \/ Look(t) \/ (\E a \in Accepted : Pair(t, a)) \/ Link(t)
  \/ ShutdownPeer(t)

Starts(t) ==
  \/ \E c \in Client, l \in Listener : Connect(t, c, l)
  \/ \E l \in Listener : Accept(t, l)
  \/ \E s \in Socket : Write(t, s) \/ Close(t, s) \/ \E how \in How : Shutdown(t, s, how)

Destroys(s) == HangUp(s) \/ LeaveQueue(s) \/ Drain(s)

Next ==
  /\ ~aborted
  /\ \/ \E t \in Thread : Starts(t) \/ Continues(t) \/ Stir(t) \/ Interrupt(t)
     \/ \E s \in Socket : Destroys(s)

Spec == Init /\ [][Next]_vars

\* the host schedules every thread; nothing makes a program call again
FairSpec ==
  /\ Spec
  /\ \A t \in Thread : WF_vars(~aborted /\ Continues(t))
  /\ \A s \in Socket : WF_vars(~aborted /\ Destroys(s))

-----------------------------------------------------------------------------
(* Properties *)

TypeOK ==
  /\ life \in [Socket -> {"unborn", "alive", "hung up", "left", "dead"}]
  /\ open \subseteq Socket
  /\ connection \in [Socket -> Socket \cup {NoSocket}]
  /\ connecting \in [Socket -> Listener \cup {NoSocket}]
  /\ pending \in [Socket -> Seq(Client)]
  /\ connected \in [Socket -> BOOLEAN]
  /\ inClosed \in [Socket -> BOOLEAN]
  /\ outClosed \in [Socket -> BOOLEAN]
  /\ pc \in [Thread -> Place]
  /\ on \in [Thread -> Socket \cup {NoSocket}]
  /\ with \in [Thread -> Socket \cup {NoSocket}]
  /\ aborted \in BOOLEAN

Linking(c) == \E t \in Thread : pc[t] = "link" /\ with[t] = c

(* The two ends of a pair agree on each other.  accept writes one end      *)
(* after the other, the destructor clears one of them, connect may be      *)
(* called again: whoever follows connection to a socket that still exists  *)
(* finds its way back, but for the end an accept has yet to link.          *)
PeersMutual ==
  \A s \in Socket :
    LET p == connection[s] IN
      Strong(s) /\ p # NoSocket /\ Strong(p) => connection[p] = s \/ Linking(s)

(* A destructor that hangs up reaches the other end: no socket in use      *)
(* keeps a pointer to one whose destructor has passed that point, whenever *)
(* its last descriptor was closed, inside a shutdown of either end too.    *)
(* Otherwise its readers would wait for ever.  (They do wait for ever if   *)
(* the destructor does not get there, see AcceptReturns.)                  *)
HangUpReaches ==
  \A s \in Socket : Strong(s) /\ connection[s] # NoSocket => life[connection[s]] = "alive"

(* One end has shut down a direction exactly if the other end sees it      *)
(* closed, when neither end is in the middle of a shutdown.  The two flags *)
(* are written under two locks, one after the other, by calls of both      *)
(* ends; accept, which waits for the client's lock, comes before or after. *)
HalfClosesAgree ==
  \A s \in Socket :
    LET p == connection[s] IN
      /\ Strong(s) /\ p # NoSocket /\ Strong(p) /\ ~Linking(s) /\ ~Linking(p)
      /\ \A t \in Thread : pc[t] \in How => on[t] \notin {s, p}
      => outClosed[s] = inClosed[p]

(* A client waits in one queue once, and only as long as nobody accepted   *)
(* it, or the listener would hand out the same client twice: however often *)
(* its thread connects it, whether the last call was interrupted, refused  *)
(* after a spurious wake or accepted.  What keeps it so is connecting,     *)
(* which accept never clears.  (It is tested and set without a lock: with  *)
(* two threads that connect one socket this fails, see the README.)        *)
QueuedOnce ==
  \A l \in Listener : Strong(l) =>
    \A i \in 1 .. Len(pending[l]) :
      /\ connection[pending[l][i]] = NoSocket
      /\ \A j \in 1 .. Len(pending[l]) : i = j \/ pending[l][i] # pending[l][j]
      /\ \A t \in Thread : pc[t] = "queue" => on[t] # pending[l][i]

(* A thread in accept does not sleep over a queue: the push and the signal *)
(* of connect are under the listener's lock, and every accept that wakes   *)
(* looks at the queue again, whoever emptied it in between.                *)
NoSleepOverQueue ==
  \A t \in Thread : pc[t] = "accepting" => pending[on[t]] = <<>>

-----------------------------------------------------------------------------
(* What programs see of a socket that can be the end of a pair *)

Stream == Client \cup Accepted

\* both ends exist and are linked
Paired(s) ==
  /\ connection[s] # NoSocket /\ connection[connection[s]] = s
  /\ life[s] = "alive" /\ life[connection[s]] = "alive"

\* it is, or was, the end of a pair
Met(s) == IF s \in Accepted THEN connected[s] ELSE \E a \in Accepted : connection[a] = s

Over(s) ==
  \/ life[s] \in {"hung up", "left", "dead"}
  \/ life[s] = "alive" /\ Met(s) /\ ~Paired(s)

\* whether a direction is closed: at either end, or for who is left, if anybody is
Closed(s, here, there) ==
  IF Paired(s) THEN here[s] \/ there[connection[s]]
  ELSE IF Strong(s) THEN here[s] ELSE Over(s)

Promise == INSTANCE SocketPairs WITH
  peer <- [s \in Stream |-> IF Paired(s) THEN connection[s] ELSE NoSocket],
  over <- {s \in Stream : Over(s)},
  noRecv <- [s \in Stream |-> Closed(s, inClosed, outClosed)],
  noSend <- [s \in Stream |-> Closed(s, outClosed, inClosed)]

(* The promise of SocketPairs, although a pair is linked one end after the  *)
(* other, a direction is closed under two locks, and a destructor finds the *)
(* other end, or does not, beside all of that: a socket meets one other in  *)
(* its life, neither end sees a direction open again, and who is left after *)
(* the end of the other finds both directions closed.                       *)
ImplementsPairs == Promise!Spec

-----------------------------------------------------------------------------
(* Statements that fail; the README says how *)

(* The list of waiting clients, says its declaration, is weak: "if object  *)
(* is destroyed it should remove itself from this list".  The destructor   *)
(* does so without ending the emulator.                                    *)
LeavesQueue == ~aborted

(* connect waits for its accept: ECONNREFUSED means that the other end has *)
(* come and gone.  (The first connect waits without a loop.)               *)
WokenMeansAccepted ==
  \A t \in Thread : pc[t] = "woken" =>
    \E a \in Accepted : connection[a] = on[t]

(* accept returns, and gives the client's lock back.                       *)
AcceptReturns == \A t \in Thread : pc[t] # "stuck"

(* Once a client is linked, the thread that connects it returns.           *)
AcceptedConnects ==
  \A t \in Thread, c \in Client :
    (pc[t] = "connecting" /\ on[t] = c /\ connected[c] = FALSE /\ connection[c] # NoSocket /\ ~Linking(c))
      ~> (aborted \/ pc[t] # "connecting")

(* A client whose listener is closed is told.                              *)
ClosedRefuses ==
  \A t \in Thread, l \in Listener :
    (pc[t] = "connecting" /\ with[t] = l /\ l \notin open) ~> (aborted \/ pc[t] # "connecting")
=============================================================================
