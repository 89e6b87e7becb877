-------------------------- MODULE UnixSocketProofs ---------------------------
(***************************************************************************)
(* Theorems about UnixSocket, for any number of threads, clients and       *)
(* accepted sockets, and one listener: that no accept sleeps over a queue; *)
(* and if no two threads connect one socket, that ends of a pair agree on  *)
(* each other and on what is closed, that an end is told when the other    *)
(* goes, that nobody is queued twice, and that all of it does what         *)
(* SocketPairs promises.                                                   *)
(***************************************************************************)
EXTENDS UnixSocket, TLAPS

\* with a second listener a client may be queued again: see the README
OneListener == \A l, m \in Listener : l = m

Connecting == {"claim", "queue", "check", "connecting", "woken", "again", "reconnecting"}

-----------------------------------------------------------------------------
(* The conjuncts of the inductive invariant *)

Alive(s) == life[s] = "alive"

\* what the arguments of a call are
Arguments(t) ==
  /\ pc[t] = "user" => on[t] = NoSocket /\ with[t] = NoSocket
  /\ pc[t] \in Connecting => on[t] \in Connects[t] /\ with[t] \in Listener
  /\ pc[t] \in {"accept", "accepting"} => on[t] \in Listener /\ with[t] = NoSocket
  /\ pc[t] \in {"pair", "link", "stuck"} => on[t] \in Listener /\ with[t] \in Client
  /\ pc[t] \in How => on[t] \in Socket /\ with[t] \in Socket
ArgInv == \A t \in Thread : Arguments(t)

(* A thread in shutdown holds both ends, so that they stay ends of each    *)
(* other, and has closed its own.                                          *)
Ends(t) ==
  pc[t] \in How =>
    /\ connection[on[t]] = with[t] /\ connection[with[t]] = on[t]
    /\ pc[t] # "SHUT_WR" => inClosed[on[t]]
    /\ pc[t] # "SHUT_RD" => outClosed[on[t]]
HoldsEnds == \A t \in Thread : Ends(t)

\* clients are paired with accepted sockets, and only listeners have a queue
Kinds ==
  /\ \A c \in Client : connection[c] \in Accepted \cup {NoSocket}
  /\ \A a \in Accepted : connection[a] \in Client \cup {NoSocket}
  /\ \A l \in Listener : connection[l] = NoSocket
  /\ \A s \in Socket \ Listener : pending[s] = <<>>

\* a strong pointer keeps a socket alive, and nothing leads to one not created
Living ==
  \A s \in Socket :
    /\ Strong(s) => life[s] = "alive"
    /\ life[s] = "unborn" => connection[s] = NoSocket /\ \A r \in Socket : connection[r] # s

\* where a client can be on its way from connect to the end of accept
InQueue(c, l) == \E i \in 1 .. Len(pending[l]) : pending[l][i] = c
Coming(t, c) == pc[t] \in {"claim", "queue"} /\ on[t] = c
Queues(t, c) == pc[t] = "queue" /\ on[t] = c
Taken(t, c) == pc[t] \in {"pair", "link"} /\ with[t] = c
Linked(c) == \E a \in Accepted : connection[a] = c

\* it is there once
Once ==
  /\ \A l \in Listener : \A i, j \in 1 .. Len(pending[l]) :
       pending[l][i] = pending[l][j] => i = j
  /\ \A c \in Client, l \in Listener : InQueue(c, l) =>
       /\ connection[c] = NoSocket /\ ~Linked(c)
       /\ \A t \in Thread : ~Coming(t, c) /\ ~Taken(t, c)
  /\ \A t \in Thread, c \in Client : Coming(t, c) =>
       /\ connection[c] = NoSocket /\ ~Linked(c)
       /\ \A u \in Thread : ~Taken(u, c)
  /\ \A t \in Thread, c \in Client : Taken(t, c) =>
       /\ ~Linked(c)
       /\ pc[t] = "pair" => connection[c] = NoSocket
       /\ \A u \in Thread : Taken(u, c) => u = t

\* what keeps it from being queued again
Remembered ==
  \A c \in Client, l \in Listener :
    life[c] = "alive" /\ Strong(l)
      /\ (InQueue(c, l) \/ Linked(c) \/ \E t \in Thread : Queues(t, c) \/ Taken(t, c))
      => connecting[c] = l

\* the ends of a pair, and what accept holds before it links them
Mutual ==
  /\ \A c, d \in Client : connection[c] = connection[d] /\ connection[c] # NoSocket => c = d
  /\ \A a, b \in Accepted : connection[a] = connection[b] /\ connection[a] # NoSocket => a = b
  /\ \A t \in Thread : pc[t] = "link" =>
       /\ connection[with[t]] \in Accepted
       /\ connection[connection[with[t]]] = NoSocket
  /\ \A s \in Socket :
       life[s] = "alive" /\ connection[s] # NoSocket /\ life[connection[s]] = "alive"
         => connection[connection[s]] = s \/ Linking(s)

\* a direction is closed at both ends, or a shutdown is on its way
Agrees(s, p) ==
  /\ outClosed[s] /\ ~inClosed[p] =>
       \E t \in Thread : pc[t] \in {"SHUT_WR", "SHUT_RDWR"} /\ on[t] = s
  /\ inClosed[p] /\ ~outClosed[s] =>
       \E t \in Thread : pc[t] \in {"SHUT_RD", "SHUT_RDWR"} /\ on[t] = p
Agreed ==
  \A s, p \in Socket :
    Alive(s) /\ Alive(p) /\ connection[s] = p /\ connection[p] = s => Agrees(s, p)

\* nothing is closed before a socket is linked
Clean ==
  /\ \A c \in Client : Alive(c) /\ ~Linked(c) => ~inClosed[c] /\ ~outClosed[c]
  /\ \A a \in Accepted : life[a] = "unborn" => ~inClosed[a] /\ ~outClosed[a]
  /\ \A t \in Thread : pc[t] = "link" =>
       ~inClosed[connection[with[t]]] /\ ~outClosed[connection[with[t]]]

Shape == Kinds /\ Living /\ Once /\ Remembered /\ Mutual /\ HangUpReaches
Inv == /\ TypeOK /\ ArgInv /\ HoldsEnds /\ Shape /\ Agreed /\ Clean
       /\ NoSleepOverQueue

-----------------------------------------------------------------------------
(* Helpers *)

(* What a queue becomes when a client joins it, and when one leaves it. *)
LEMMA AppendElements ==
  ASSUME NEW q \in Seq(Client), NEW c \in Client
  PROVE  /\ Append(q, c) \in Seq(Client)
         /\ Len(Append(q, c)) = Len(q) + 1
         /\ Append(q, c)[Len(q) + 1] = c
         /\ \A i \in 1 .. Len(q) : Append(q, c)[i] = q[i]
  OBVIOUS

LEMMA TailElements ==
  ASSUME NEW q \in Seq(Client), q # <<>>
  PROVE  /\ Tail(q) \in Seq(Client)
         /\ Len(Tail(q)) = Len(q) - 1
         /\ Len(q) \in Nat \ {0}
         /\ Head(q) = q[1] /\ Head(q) \in Client
         /\ \A i \in 1 .. Len(Tail(q)) : Tail(q)[i] = q[i + 1]
  OBVIOUS

(* A signal moves only threads that sleep on one of its sockets. *)
LEMMA SignalledMoves ==
  ASSUME NEW S, NEW t \in Thread, TypeOK
  PROVE  /\ Signalled(S) \in [Thread -> Place]
         /\ Signalled(S)[t] = pc[t] \/ on[t] \in S
         /\ pc[t] \notin Asleep => Signalled(S)[t] = pc[t]
         /\ pc[t] = "connecting" => Signalled(S)[t] \in {pc[t], "woken"}
         /\ pc[t] = "reconnecting" => Signalled(S)[t] \in {pc[t], "again"}
         /\ pc[t] = "accepting" => Signalled(S)[t] \in {pc[t], "accept"}
         /\ pc[t] = "accepting" /\ on[t] \in S => Signalled(S)[t] = "accept"
<1>1. \A u \in Thread : pc[u] \in Asleep => Resumes(pc[u]) \in Place
  BY DEF Asleep, Resumes, Place
<1>2. \A u \in Thread : Signalled(S)[u] = IF pc[u] \in Asleep /\ on[u] \in S THEN Resumes(pc[u]) ELSE pc[u]
  BY DEF Signalled
<1>3. \A u \in Thread : pc[u] \in Place
  BY DEF TypeOK
<1>4. Signalled(S) \in [Thread -> Place]
  BY <1>1, <1>3 DEF Signalled
<1>5. QED
  BY <1>2, <1>4 DEF Asleep, Resumes

CallTypes ==
  /\ pc \in [Thread -> Place]
  /\ on \in [Thread -> Socket \cup {NoSocket}]
  /\ with \in [Thread -> Socket \cup {NoSocket}]

(* A call that goes on, or returns, leaves typed calls behind. *)
LEMMA EnterTypes ==
  ASSUME TypeOK, NEW t \in Thread, NEW l \in Place,
         NEW s \in Socket \cup {NoSocket}, NEW p \in Socket \cup {NoSocket}, Enter(t, l, s, p)
  PROVE  CallTypes'
  BY DEF TypeOK, Enter, CallTypes

LEMMA ReturnTypes ==
  ASSUME TypeOK, NEW t \in Thread, NEW S, ReturnAfter(t, S)
  PROVE  CallTypes'
<1>1. Signalled(S) \in [Thread -> Place]
  BY SignalledMoves
<1>2. "user" \in Place
  BY DEF Place
<1>3. QED
  BY <1>1, <1>2 DEF TypeOK, ReturnAfter, CallTypes

LEMMA SignalTypes ==
  ASSUME TypeOK, NEW S, NEW t \in Thread, NEW l \in Place, UNCHANGED <<on, with>>,
         pc' = Signalled(S) \/ pc' = [Signalled(S) EXCEPT ![t] = l]
  PROVE  CallTypes'
<1>1. Signalled(S) \in [Thread -> Place]
  BY SignalledMoves
<1>2. QED
  BY <1>1 DEF TypeOK, CallTypes

ObjectTypes ==
  /\ life \in [Socket -> {"unborn", "alive", "hung up", "left", "dead"}]
  /\ open \subseteq Socket
  /\ connection \in [Socket -> Socket \cup {NoSocket}]
  /\ connecting \in [Socket -> Listener \cup {NoSocket}]
  /\ pending \in [Socket -> Seq(Client)]
  /\ connected \in [Socket -> BOOLEAN]
  /\ inClosed \in [Socket -> BOOLEAN]
  /\ outClosed \in [Socket -> BOOLEAN]
  /\ aborted \in BOOLEAN

LEMMA TypesJoin == TypeOK <=> ObjectTypes /\ CallTypes
  BY DEF TypeOK, ObjectTypes, CallTypes

(* Types are kept by every step. *)
LEMMA TypeStep ==
  ASSUME TypeOK, ArgInv, [Next]_vars
  PROVE  TypeOK'
<1> USE KindsDiffer, CallsAssumption
<1> SUFFICES ObjectTypes' /\ CallTypes'
  BY TypesJoin DEF TypeOK, ObjectTypes, CallTypes
<1>0. ObjectTypes /\ CallTypes
  BY TypesJoin
<1>a. \A s \in Client \cup Accepted \cup Listener : s \in Socket
  BY DEF Socket
<1>b. {"user", "claim", "queue", "check", "woken", "again", "accept", "pair", "link", "stuck", "connecting",
       "reconnecting", "accepting"} \cup How \subseteq Place
  BY DEF Place, Asleep
<1>1. ASSUME NEW t \in Thread, NEW c \in Client, NEW l \in Listener, Connect(t, c, l)
      PROVE  ObjectTypes' /\ CallTypes'
  <2>1. ObjectTypes'
    BY <1>1, <1>0 DEF Connect, ObjectTypes, links
  <2>2. CASE UNCHANGED calls
    BY <2>1, <2>2, <1>0 DEF calls, CallTypes
  <2>3. CASE Enter(t, "again", c, l)
    BY <2>1, <2>3, <1>a, <1>b, EnterTypes
  <2>4. CASE Enter(t, "claim", c, l)
    BY <2>1, <2>4, <1>a, <1>b, EnterTypes
  <2>5. QED
    BY <1>1, <2>2, <2>3, <2>4 DEF Connect
<1>2. ASSUME NEW t \in Thread, Queue(t)
      PROVE  ObjectTypes' /\ CallTypes'
  <2>1. on[t] \in Client /\ with[t] \in Listener
    BY <1>2 DEF Queue, ArgInv, Arguments, Connecting
  <2>2. Append(pending[with[t]], on[t]) \in Seq(Client)
    BY <2>1, <1>0, <1>a, AppendElements DEF ObjectTypes
  <2>3. ObjectTypes'
    BY <1>2, <1>0, <2>2 DEF Queue, ObjectTypes, flags
  <2>4. CASE ReturnAfter(t, {with[t]})
    BY <2>3, <2>4, ReturnTypes
  <2>5. CASE pc' = [Signalled({with[t]}) EXCEPT ![t] = "check"] /\ UNCHANGED <<on, with>>
    BY <2>3, <2>5, SignalTypes, <1>b
  <2>6. QED
    BY <1>2, <2>4, <2>5 DEF Queue
<1>3. ASSUME NEW t \in Thread, Connected(t), UNCHANGED <<life, open, links, inClosed, outClosed, aborted>>
      PROVE  ObjectTypes' /\ CallTypes'
  <2>1. CallTypes'
    BY <1>3, ReturnTypes DEF Connected, Return
  <2>2. connected' \in [Socket -> BOOLEAN]
    <3> DEFINE v == (connected[on[t]] \/ Lock(connection[on[t]]) # NoSocket)
    <3>1. v \in BOOLEAN
      OBVIOUS
    <3>2. connected' = [connected EXCEPT ![on[t]] = v]
      BY <1>3 DEF Connected
    <3> HIDE DEF v
    <3>3. QED
      BY <3>1, <3>2, <1>0 DEF ObjectTypes
  <2>3. QED
    BY <1>3, <1>0, <2>1, <2>2 DEF ObjectTypes, links
<1>4. ASSUME NEW t \in Thread, ConnectWait(t)
      PROVE  ObjectTypes' /\ CallTypes'
  <2>1. CASE Connected(t)
    BY <2>1, <1>4, <1>3 DEF ConnectWait
  <2>2. CASE ~Connected(t)
    BY <2>2, <1>4, <1>0, <1>b DEF ConnectWait, ObjectTypes, CallTypes, links
  <2>3. QED
    BY <2>1, <2>2
<1>5. ASSUME NEW t \in Thread, ConnectWoken(t)
      PROVE  ObjectTypes' /\ CallTypes'
  BY <1>5, <1>3 DEF ConnectWoken
<1>6. ASSUME NEW t \in Thread, Interrupt(t)
      PROVE  ObjectTypes' /\ CallTypes'
  BY <1>6, <1>0, ReturnTypes DEF Interrupt, Return, ObjectTypes, links, flags
<1>7. ASSUME NEW t \in Thread, NEW l \in Listener, Accept(t, l)
      PROVE  ObjectTypes' /\ CallTypes'
  BY <1>7, <1>0, <1>a, <1>b, EnterTypes DEF Accept, ObjectTypes, links, flags
<1>8. ASSUME NEW t \in Thread, Look(t)
      PROVE  ObjectTypes' /\ CallTypes'
  <2>1. on[t] \in Listener
    BY <1>8 DEF Look, ArgInv, Arguments
  <2>2. CASE pending[on[t]] = <<>>
    <3>1. ObjectTypes'
      BY <1>8, <1>0, <2>2 DEF Look, ObjectTypes, flags
    <3>2. CallTypes'
      BY <1>8, <1>0, <1>b, <2>2, ReturnTypes DEF Look, Return, CallTypes
    <3>3. QED
      BY <3>1, <3>2
  <2>3. CASE pending[on[t]] # <<>>
    <3>0. pending[on[t]] \in Seq(Client)
      BY <2>1, <1>0, <1>a DEF ObjectTypes
    <3>1. Tail(pending[on[t]]) \in Seq(Client) /\ Head(pending[on[t]]) \in Client
      BY <3>0, <2>3, TailElements
    <3>2. ObjectTypes'
      <4>1. pending' = [pending EXCEPT ![on[t]] = Tail(pending[on[t]])]
        BY <1>8, <2>3 DEF Look
      <4>2. pending' \in [Socket -> Seq(Client)]
        BY <4>1, <3>1, <1>0 DEF ObjectTypes
      <4>3. QED
        BY <1>8, <1>0, <4>2 DEF Look, ObjectTypes, flags
    <3>3. CallTypes'
      BY <1>8, <1>0, <1>a, <1>b, <2>1, <2>3, <3>1, ReturnTypes, EnterTypes DEF Look, Return
    <3>4. QED
      BY <3>2, <3>3
  <2>4. QED
    BY <2>2, <2>3
<1>9. ASSUME NEW t \in Thread, NEW a \in Accepted, Pair(t, a)
      PROVE  ObjectTypes' /\ CallTypes'
  BY <1>9, <1>0, <1>a, <1>b DEF Pair, ObjectTypes, CallTypes, flags
<1>10. ASSUME NEW t \in Thread, Link(t)
       PROVE  ObjectTypes' /\ CallTypes'
  <2>1. with[t] \in Socket
    BY <1>10, <1>a DEF Link, ArgInv, Arguments
  <2>2. ObjectTypes'
    BY <1>10, <1>0, <2>1 DEF Link, ObjectTypes
  <2>3. CASE ReturnAfter(t, {with[t]})
    BY <2>2, <2>3, ReturnTypes
  <2>4. CASE pc' = [Signalled({with[t]}) EXCEPT ![t] = "stuck"] /\ UNCHANGED <<on, with>>
    BY <2>2, <2>4, SignalTypes, <1>b
  <2>5. QED
    BY <1>10, <2>3, <2>4 DEF Link
<1>11. ASSUME NEW t \in Thread, NEW s \in Socket, Write(t, s)
       PROVE  ObjectTypes' /\ CallTypes'
  BY <1>11, <1>0, <1>b, SignalTypes DEF Write, ObjectTypes, links, flags
<1>12. ASSUME NEW s \in Socket \cup {NoSocket}, NEW i \in BOOLEAN, NEW o \in BOOLEAN, CloseDirections(s, i, o)
       PROVE  inClosed' \in [Socket -> BOOLEAN] /\ outClosed' \in [Socket -> BOOLEAN]
  <2> DEFINE v == inClosed[s] \/ i
             w == outClosed[s] \/ o
  <2>1. v \in BOOLEAN /\ w \in BOOLEAN
    OBVIOUS
  <2>2. inClosed' = [inClosed EXCEPT ![s] = v] /\ outClosed' = [outClosed EXCEPT ![s] = w]
    BY <1>12 DEF CloseDirections
  <2> HIDE DEF v, w
  <2>3. QED
    BY <2>1, <2>2, <1>0 DEF ObjectTypes
<1>13. ASSUME NEW t \in Thread, NEW s \in Socket, NEW how \in How, Shutdown(t, s, how)
       PROVE  ObjectTypes' /\ CallTypes'
  <2>1. inClosed' \in [Socket -> BOOLEAN] /\ outClosed' \in [Socket -> BOOLEAN]
    BY <1>13, <1>12 DEF Shutdown
  <2>2. Signalled({s}) \in [Thread -> Place]
    BY SignalledMoves
  <2>3. pc' \in [Thread -> Place]
    BY <1>13, <1>b, <2>2 DEF Shutdown
  <2>4. on' \in [Thread -> Socket \cup {NoSocket}] /\ with' \in [Thread -> Socket \cup {NoSocket}]
    BY <1>13, <1>0 DEF Shutdown, CallTypes, ObjectTypes
  <2>5. QED
    BY <1>13, <1>0, <2>1, <2>3, <2>4 DEF Shutdown, ObjectTypes, CallTypes, links
<1>14. ASSUME NEW t \in Thread, ShutdownPeer(t)
       PROVE  ObjectTypes' /\ CallTypes'
  <2>1. inClosed' \in [Socket -> BOOLEAN] /\ outClosed' \in [Socket -> BOOLEAN]
    BY <1>14, <1>12, <1>0 DEF ShutdownPeer, CallTypes
  <2>2. QED
    BY <1>14, <1>0, <2>1, ReturnTypes DEF ShutdownPeer, ObjectTypes, links
<1>15. ASSUME NEW t \in Thread, NEW s \in Socket, Close(t, s)
       PROVE  ObjectTypes' /\ CallTypes'
  BY <1>15, <1>0 DEF Close, ObjectTypes, CallTypes, links, flags, calls
<1>16. ASSUME NEW s \in Socket, HangUp(s)
       PROVE  ObjectTypes' /\ CallTypes'
  <2>1. CASE Lock(connection[s]) = NoSocket
    BY <1>16, <1>0, <2>1 DEF HangUp, ObjectTypes, CallTypes
  <2>2. CASE Lock(connection[s]) # NoSocket
    <3> DEFINE p == Lock(connection[s])
    <3>1. p \in Socket
      BY <2>2, <1>0 DEF Lock, ObjectTypes
    <3>2. CloseDirections(p, TRUE, TRUE) /\ pc' = Signalled({p})
          /\ connection' = [connection EXCEPT ![p] = NoSocket]
      BY <1>16, <2>2 DEF HangUp
    <3> HIDE DEF p
    <3>3. inClosed' \in [Socket -> BOOLEAN] /\ outClosed' \in [Socket -> BOOLEAN]
      BY <3>1, <3>2, <1>12
    <3>4. \A t \in Thread : Signalled({p}) \in [Thread -> Place]
      BY SignalledMoves
    <3>5. Thread = {} => pc' \in [Thread -> Place]
      BY <3>2 DEF Signalled
    <3>6. QED
      BY <1>16, <1>0, <3>2, <3>3, <3>4, <3>5 DEF HangUp, ObjectTypes, CallTypes
  <2>3. QED
    BY <2>1, <2>2
<1>17. ASSUME NEW s \in Socket, LeaveQueue(s)
       PROVE  ObjectTypes' /\ CallTypes'
  BY <1>17, <1>0 DEF LeaveQueue, ObjectTypes, CallTypes, flags, calls
<1>18. ASSUME NEW s \in Socket, Drain(s)
       PROVE  ObjectTypes' /\ CallTypes'
  <2>1. \A t \in Thread : Signalled(Waiting(s)) \in [Thread -> Place]
    BY SignalledMoves
  <2>2. Thread = {} => pc' \in [Thread -> Place]
    BY <1>18 DEF Signalled, Drain
  <2>3. QED
    BY <1>18, <1>0, <2>1, <2>2 DEF Drain, ObjectTypes, CallTypes, flags
<1>19. ASSUME NEW t \in Thread, Claim(t)
       PROVE  ObjectTypes' /\ CallTypes'
  <2>1. with[t] \in Listener
    BY <1>19 DEF Claim, ArgInv, Arguments, Connecting
  <2>2. ObjectTypes'
    BY <1>19, <1>0, <2>1 DEF Claim, ObjectTypes, flags
  <2>3. CallTypes'
    BY <1>19, <1>0, <1>b DEF Claim, CallTypes
  <2>4. QED
    BY <2>2, <2>3
<1>20. ASSUME NEW t \in Thread, Stir(t)
       PROVE  ObjectTypes' /\ CallTypes'
  <2>1. Resumes(pc[t]) \in Place
    BY <1>20 DEF Stir, Asleep, Resumes, Place
  <2>2. QED
    BY <1>20, <1>0, <2>1 DEF Stir, ObjectTypes, CallTypes, links, flags
<1>21. CASE UNCHANGED vars
  BY <1>21, <1>0 DEF vars, links, flags, calls, ObjectTypes, CallTypes
<1>22. QED
  BY <1>1, <1>2, <1>4, <1>5, <1>6, <1>7, <1>8, <1>9, <1>10, <1>11, <1>13, <1>14, <1>15, <1>16, <1>17, <1>18,
     <1>19, <1>20, <1>21
     DEF Next, Starts, Continues, Destroys

-----------------------------------------------------------------------------
(* What a step leaves of the other threads *)

\* u is where it was, or was woken by a signal of a socket in S
Moves(u, S) ==
  /\ on'[u] = on[u] /\ with'[u] = with[u]
  /\ \/ pc'[u] = pc[u] /\ (pc[u] = "accepting" => on[u] \notin S)
     \/ on[u] \in S /\ pc[u] = "connecting" /\ pc'[u] = "woken"
     \/ on[u] \in S /\ pc[u] = "reconnecting" /\ pc'[u] = "again"
     \/ on[u] \in S /\ pc[u] = "accepting" /\ pc'[u] = "accept"

LEMMA EnterMoves ==
  ASSUME TypeOK, NEW t \in Thread, NEW l, NEW s, NEW p, Enter(t, l, s, p)
  PROVE  /\ pc'[t] = l /\ on'[t] = s /\ with'[t] = p
         /\ \A u \in Thread \ {t} : Moves(u, {})
  BY DEF TypeOK, Enter, Moves

LEMMA SignalMoves ==
  ASSUME TypeOK, NEW t, NEW S, NEW l, TypeOK',
         pc' = Signalled(S) \/ pc' = [Signalled(S) EXCEPT ![t] = l],
         \A u \in Thread \ {t} : on'[u] = on[u] /\ with'[u] = with[u]
  PROVE  /\ \A u \in Thread \ {t} : Moves(u, S)
         /\ pc' # Signalled(S) /\ t \in Thread => pc'[t] = l
<1>1. \A u \in Thread : Signalled(S)[u] = IF pc[u] \in Asleep /\ on[u] \in S THEN Resumes(pc[u]) ELSE pc[u]
  BY DEF Signalled
<1>2. \A u \in Thread \ {t} : pc'[u] = Signalled(S)[u]
  BY DEF Signalled
<1>3. \A u \in Thread \ {t} : Moves(u, S)
  BY <1>1, <1>2 DEF Moves, Asleep, Resumes
<1>4. QED
  BY <1>3 DEF Signalled

LEMMA SignalAllMoves ==
  ASSUME TypeOK, NEW S, pc' = Signalled(S), UNCHANGED <<on, with>>
  PROVE  \A u \in Thread : Moves(u, S)
<1>1. \A u \in Thread : pc'[u] = IF pc[u] \in Asleep /\ on[u] \in S THEN Resumes(pc[u]) ELSE pc[u]
  BY DEF Signalled
<1>2. QED
  BY <1>1 DEF Moves, Asleep, Resumes

LEMMA ReturnMoves ==
  ASSUME TypeOK, TypeOK', NEW t \in Thread, NEW S, ReturnAfter(t, S)
  PROVE  /\ pc'[t] = "user" /\ on'[t] = NoSocket /\ with'[t] = NoSocket
         /\ \A u \in Thread \ {t} : Moves(u, S)
<1>1. on'[t] = NoSocket /\ with'[t] = NoSocket
  BY DEF ReturnAfter, TypeOK
<1>2. pc'[t] = "user"
  BY DEF ReturnAfter, Signalled
<1>3. \A u \in Thread \ {t} : on'[u] = on[u] /\ with'[u] = with[u]
  BY DEF ReturnAfter, TypeOK
<1>4. QED
  BY <1>1, <1>2, <1>3, SignalMoves DEF ReturnAfter

LEMMA KeepMoves ==
  ASSUME UNCHANGED calls, NEW u \in Thread
  PROVE  Moves(u, {})
  BY DEF calls, Moves

Others(t, S) == \A u \in Thread \ {t} : Moves(u, S)
Ended(t) == pc[t] = "user" /\ on[t] = NoSocket /\ with[t] = NoSocket
Keeps(t) == on'[t] = on[t] /\ with'[t] = with[t]

(* Where each call leaves its thread, and whom it wakes. *)
LEMMA CallMoves ==
  ASSUME TypeOK, TypeOK', NEW t \in Thread
  PROVE
    /\ \A c \in Client, l \in Listener : Connect(t, c, l) =>
         /\ Others(t, {}) /\ UNCHANGED <<life, open, connection, pending, inClosed, outClosed>>
         /\ \/ pc'[t] = "user" /\ Keeps(t)
            \/ pc'[t] \in {"again", "claim"} /\ on'[t] = c /\ with'[t] = l
    /\ Claim(t) => Others(t, {}) /\ pc'[t] = "queue" /\ Keeps(t)
    /\ Stir(t) => Others(t, {}) /\ Moves(t, {on[t]})
    /\ Queue(t) =>
         /\ Others(t, {with[t]})
         /\ Ended(t)' \/ (pc'[t] = "check" /\ Keeps(t))
    /\ ConnectWait(t) =>
         /\ Others(t, {})
         /\ Ended(t)' \/ (pc'[t] \in {"connecting", "reconnecting"} /\ Keeps(t))
    /\ ConnectWoken(t) \/ Interrupt(t) => Others(t, {}) /\ Ended(t)'
    /\ \A l \in Listener : Accept(t, l) =>
         Others(t, {}) /\ pc'[t] = "accept" /\ on'[t] = l /\ with'[t] = NoSocket
    /\ Look(t) =>
         /\ Others(t, {})
         /\ \/ Ended(t)'
            \/ pending[on[t]] = <<>> /\ pc'[t] = "accepting" /\ Keeps(t)
            \/ /\ pending[on[t]] # <<>> /\ Strong(Head(pending[on[t]]))
               /\ pc'[t] = "pair" /\ on'[t] = on[t] /\ with'[t] = Head(pending[on[t]])
    /\ \A a \in Accepted : Pair(t, a) => Others(t, {}) /\ pc'[t] = "link" /\ Keeps(t)
    /\ Link(t) =>
         /\ Others(t, {with[t]})
         /\ Ended(t)' \/ (pc'[t] = "stuck" /\ Keeps(t))
    /\ \A s \in Socket : Write(t, s) => Others(t, {connection[s]}) /\ pc'[t] = "user" /\ Keeps(t)
    /\ \A s \in Socket, how \in How : Shutdown(t, s, how) =>
         Others(t, {s}) /\ pc'[t] = how /\ on'[t] = s /\ with'[t] = connection[s]
    /\ ShutdownPeer(t) => Others(t, {with[t]}) /\ Ended(t)'
    /\ \A s \in Socket : Close(t, s) => Others(t, {}) /\ pc'[t] = "user" /\ Keeps(t)
<1>r. ASSUME NEW S, ReturnAfter(t, S)
      PROVE  Others(t, S) /\ Ended(t)'
  BY <1>r, ReturnMoves DEF Others, Ended
<1>e. ASSUME NEW l, NEW s, NEW p, Enter(t, l, s, p)
      PROVE  Others(t, {}) /\ pc'[t] = l /\ on'[t] = s /\ with'[t] = p
  BY <1>e, EnterMoves DEF Others
<1>s. ASSUME NEW l, pc' = [pc EXCEPT ![t] = l], UNCHANGED <<on, with>>
      PROVE  Others(t, {}) /\ pc'[t] = l /\ Keeps(t)
  BY <1>s DEF TypeOK, Moves, Others, Keeps
<1>k. ASSUME UNCHANGED calls
      PROVE  Others(t, {}) /\ pc'[t] = pc[t] /\ Keeps(t)
  BY <1>k, KeepMoves DEF Others, Keeps, calls
<1>1. ASSUME NEW c \in Client, NEW l \in Listener, Connect(t, c, l)
      PROVE  /\ Others(t, {}) /\ UNCHANGED <<life, open, connection, pending, inClosed, outClosed>>
             /\ \/ pc'[t] = "user" /\ Keeps(t)
                \/ pc'[t] \in {"again", "claim"} /\ on'[t] = c /\ with'[t] = l
  <2>1. UNCHANGED <<life, open, connection, pending, inClosed, outClosed>>
    BY <1>1 DEF Connect, links
  <2>2. CASE UNCHANGED calls
    BY <1>1, <2>1, <2>2, <1>k DEF Connect
  <2>3. CASE \E x \in {"again", "claim"} : Enter(t, x, c, l)
    BY <2>1, <2>3, <1>e
  <2>4. QED
    BY <1>1, <2>2, <2>3 DEF Connect
<1>2. ASSUME Queue(t)
      PROVE  Others(t, {with[t]}) /\ (Ended(t)' \/ (pc'[t] = "check" /\ Keeps(t)))
  <2>1. CASE pc' = [Signalled({with[t]}) EXCEPT ![t] = "check"] /\ UNCHANGED <<on, with>>
    <3>1. Others(t, {with[t]})
      BY <2>1, SignalMoves DEF Others
    <3>2. pc'[t] = "check"
      BY <2>1 DEF Signalled
    <3>3. QED
      BY <2>1, <3>1, <3>2 DEF Keeps
  <2>2. CASE ReturnAfter(t, {with[t]})
    <3>1. Others(t, {with[t]}) /\ Ended(t)'
      BY <2>2, <1>r
    <3>2. QED
      BY <3>1
  <2>3. QED
    BY <1>2, <2>1, <2>2 DEF Queue
<1>3. ASSUME ConnectWait(t)
      PROVE  /\ Others(t, {})
             /\ Ended(t)' \/ (pc'[t] \in {"connecting", "reconnecting"} /\ Keeps(t))
  <2>1. CASE Connected(t)
    <3>1. ReturnAfter(t, {})
      BY <2>1 DEF Connected, Return
    <3>2. Others(t, {}) /\ Ended(t)'
      BY <3>1, <1>r
    <3>3. QED
      BY <3>2
  <2>2. CASE ~Connected(t)
    BY <2>2, <1>3, <1>s DEF ConnectWait
  <2>3. QED
    BY <2>1, <2>2
<1>4. ASSUME ConnectWoken(t) \/ Interrupt(t)
      PROVE  Others(t, {}) /\ Ended(t)'
  BY <1>4, <1>r DEF ConnectWoken, Connected, Interrupt, Return
<1>5. ASSUME NEW l \in Listener, Accept(t, l)
      PROVE  Others(t, {}) /\ pc'[t] = "accept" /\ on'[t] = l /\ with'[t] = NoSocket
  BY <1>5, <1>e DEF Accept
<1>6. ASSUME Look(t)
      PROVE  /\ Others(t, {})
             /\ \/ Ended(t)'
                \/ pending[on[t]] = <<>> /\ pc'[t] = "accepting" /\ Keeps(t)
                \/ /\ pending[on[t]] # <<>> /\ Strong(Head(pending[on[t]]))
                   /\ pc'[t] = "pair" /\ on'[t] = on[t] /\ with'[t] = Head(pending[on[t]])
  <2>1. CASE Return(t)
    BY <2>1, <1>r DEF Return
  <2>2. CASE ~Return(t)
    BY <2>2, <1>6, <1>s, <1>e DEF Look, Lock
  <2>3. QED
    BY <2>1, <2>2
<1>7. ASSUME NEW a \in Accepted, Pair(t, a)
      PROVE  Others(t, {}) /\ pc'[t] = "link" /\ Keeps(t)
  BY <1>7, <1>s DEF Pair
<1>8. ASSUME ShutdownPeer(t)
      PROVE  Others(t, {with[t]}) /\ Ended(t)'
  BY <1>8, <1>r DEF ShutdownPeer
<1>13. ASSUME Link(t)
       PROVE  Others(t, {with[t]}) /\ (Ended(t)' \/ (pc'[t] = "stuck" /\ Keeps(t)))
  <2>1. CASE pc' = [Signalled({with[t]}) EXCEPT ![t] = "stuck"] /\ UNCHANGED <<on, with>>
    <3>1. Others(t, {with[t]})
      BY <2>1, SignalMoves DEF Others
    <3>2. pc'[t] = "stuck"
      BY <2>1 DEF Signalled
    <3>3. QED
      BY <2>1, <3>1, <3>2 DEF Keeps
  <2>2. CASE ReturnAfter(t, {with[t]})
    <3>1. Others(t, {with[t]}) /\ Ended(t)'
      BY <2>2, <1>r
    <3>2. QED
      BY <3>1
  <2>3. QED
    BY <1>13, <2>1, <2>2 DEF Link
<1>14. ASSUME Claim(t)
       PROVE  Others(t, {}) /\ pc'[t] = "queue" /\ Keeps(t)
  BY <1>14, <1>s DEF Claim
<1>15. ASSUME Stir(t)
       PROVE  Others(t, {}) /\ Moves(t, {on[t]})
  <2>1. Others(t, {}) /\ pc'[t] = Resumes(pc[t]) /\ Keeps(t)
    BY <1>15, <1>s DEF Stir
  <2>2. QED
    BY <1>15, <2>1 DEF Stir, Keeps, Moves, Asleep, Resumes
<1>9. ASSUME NEW s \in Socket, Write(t, s)
      PROVE  Others(t, {connection[s]}) /\ pc'[t] = "user" /\ Keeps(t)
  <2>1. Others(t, {connection[s]})
    BY <1>9, SignalAllMoves DEF Write, Others
  <2>2. pc'[t] = "user"
    BY <1>9, SignalledMoves DEF Write, Asleep
  <2>3. QED
    BY <1>9, <2>1, <2>2 DEF Write, Keeps
<1>10. ASSUME NEW s \in Socket, NEW how \in How, Shutdown(t, s, how)
       PROVE  Others(t, {s}) /\ pc'[t] = how /\ on'[t] = s /\ with'[t] = connection[s]
  <2>1. on'[t] = s /\ with'[t] = connection[s] /\ \A u \in Thread \ {t} : on'[u] = on[u] /\ with'[u] = with[u]
    BY <1>10 DEF Shutdown, TypeOK
  <2>2. Others(t, {s})
    BY <1>10, <2>1, SignalMoves DEF Shutdown, Others
  <2>3. pc'[t] = how
    BY <1>10 DEF Shutdown, Signalled
  <2>4. QED
    BY <2>1, <2>2, <2>3
<1>11. ASSUME NEW s \in Socket, Close(t, s)
       PROVE  Others(t, {}) /\ pc'[t] = "user" /\ Keeps(t)
  BY <1>11, <1>k DEF Close
<1>12. QED
  BY <1>1, <1>2, <1>3, <1>4, <1>5, <1>6, <1>7, <1>8, <1>9, <1>10, <1>11, <1>13, <1>14, <1>15

(* Whom a destructor wakes. *)
LEMMA DestroyMoves ==
  ASSUME TypeOK, NEW s \in Socket
  PROVE  /\ HangUp(s) /\ Lock(connection[s]) # NoSocket => \A u \in Thread : Moves(u, {connection[s]})
         /\ HangUp(s) /\ Lock(connection[s]) = NoSocket => \A u \in Thread : Moves(u, {})
         /\ LeaveQueue(s) => \A u \in Thread : Moves(u, {})
         /\ Drain(s) => \A u \in Thread : Moves(u, Waiting(s))
<1>1. ASSUME HangUp(s), Lock(connection[s]) # NoSocket
      PROVE  \A u \in Thread : Moves(u, {connection[s]})
  BY <1>1, SignalAllMoves DEF HangUp, Lock
<1>2. ASSUME HangUp(s), Lock(connection[s]) = NoSocket
      PROVE  \A u \in Thread : Moves(u, {})
  BY <1>2 DEF HangUp, Moves
<1>3. LeaveQueue(s) => \A u \in Thread : Moves(u, {})
  BY KeepMoves DEF LeaveQueue
<1>4. Drain(s) => \A u \in Thread : Moves(u, Waiting(s))
  BY SignalAllMoves DEF Drain
<1>5. QED
  BY <1>1, <1>2, <1>3, <1>4

(* The arguments of a call are those of its kind. *)
LEMMA ArgStep ==
  ASSUME TypeOK, TypeOK', ArgInv, [Next]_vars
  PROVE  ArgInv'
<1> USE KindsDiffer, CallsAssumption
<1>0. \A c \in Client \cup Accepted \cup Listener : c \in Socket
  BY DEF Socket
<1>m. ASSUME NEW u \in Thread, NEW S, Moves(u, S)
      PROVE  Arguments(u)'
  BY <1>m DEF Moves, Arguments, ArgInv, Connecting, How
<1>a. ASSUME NEW t \in Thread, NEW S, Others(t, S), Arguments(t)'
      PROVE  ArgInv'
  BY <1>a, <1>m DEF Others, ArgInv
<1>e. ASSUME NEW t \in Thread, Ended(t)'
      PROVE  Arguments(t)'
  BY <1>e DEF Ended, Arguments, Connecting, How
<1>1. ASSUME NEW t \in Thread, NEW c \in Client, NEW l \in Listener, Connect(t, c, l)
      PROVE  ArgInv'
  <2>1. pc[t] = "user" /\ c \in Connects[t]
    BY <1>1 DEF Connect
  <2>2. CASE pc'[t] = "user" /\ Keeps(t)
    <3>1. Arguments(t)'
      BY <2>1, <2>2 DEF Keeps, Arguments, ArgInv, Connecting, How
    <3>2. QED
      BY <1>1, <3>1, <1>a, CallMoves
  <2>3. CASE pc'[t] \in {"again", "claim"} /\ on'[t] = c /\ with'[t] = l
    <3>1. Arguments(t)'
      BY <2>1, <2>3, <1>0 DEF Arguments, Connecting, How
    <3>2. QED
      BY <1>1, <3>1, <1>a, CallMoves
  <2>4. QED
    BY <1>1, <2>2, <2>3, CallMoves
<1>2. ASSUME NEW t \in Thread, Queue(t)
      PROVE  ArgInv'
  <2>1. CASE pc'[t] = "check" /\ Keeps(t)
    BY <1>2, <2>1, <1>a, CallMoves DEF Queue, Keeps, Arguments, ArgInv, Connecting, How
  <2>2. QED
    BY <1>2, <2>1, <1>a, <1>e, CallMoves
<1>3. ASSUME NEW t \in Thread, ConnectWait(t)
      PROVE  ArgInv'
  <2>1. CASE pc'[t] \in {"connecting", "reconnecting"} /\ Keeps(t)
    BY <1>3, <2>1, <1>a, CallMoves DEF ConnectWait, Keeps, Arguments, ArgInv, Connecting, How
  <2>2. QED
    BY <1>3, <2>1, <1>a, <1>e, CallMoves
<1>4. ASSUME NEW t \in Thread, ConnectWoken(t) \/ Interrupt(t) \/ ShutdownPeer(t)
      PROVE  ArgInv'
  BY <1>4, <1>a, <1>e, CallMoves
<1>13. ASSUME NEW t \in Thread, Link(t)
       PROVE  ArgInv'
  <2>1. CASE pc'[t] = "stuck" /\ Keeps(t)
    BY <1>13, <2>1, <1>a, CallMoves DEF Link, Keeps, Arguments, ArgInv, Connecting, How
  <2>2. QED
    BY <1>13, <2>1, <1>a, <1>e, CallMoves
<1>14. ASSUME NEW t \in Thread, Claim(t)
       PROVE  ArgInv'
  BY <1>14, <1>a, CallMoves DEF Claim, Keeps, Arguments, ArgInv, Connecting, How
<1>15. ASSUME NEW t \in Thread, Stir(t)
       PROVE  ArgInv'
  BY <1>15, <1>a, <1>m, CallMoves
<1>5. ASSUME NEW t \in Thread, NEW l \in Listener, Accept(t, l)
      PROVE  ArgInv'
  <2>1. Arguments(t)'
    BY <1>5, <1>0, CallMoves DEF Arguments, Connecting, How
  <2>2. QED
    BY <1>5, <2>1, <1>a, CallMoves
<1>6. ASSUME NEW t \in Thread, Look(t)
      PROVE  ArgInv'
  <2>0. on[t] \in Listener /\ with[t] = NoSocket
    BY <1>6 DEF Look, ArgInv, Arguments
  <2>1. CASE pc'[t] = "accepting" /\ Keeps(t)
    BY <1>6, <2>0, <2>1, <1>a, CallMoves DEF Keeps, Arguments, Connecting, How
  <2>2. CASE /\ pending[on[t]] # <<>>
             /\ pc'[t] = "pair" /\ on'[t] = on[t] /\ with'[t] = Head(pending[on[t]])
    <3>1. pending[on[t]] \in Seq(Client)
      BY <2>0, <1>0 DEF TypeOK
    <3>2. Head(pending[on[t]]) \in Client
      BY <2>2, <3>1, TailElements
    <3>3. Arguments(t)'
      BY <2>0, <2>2, <3>2 DEF Arguments, Connecting, How
    <3>4. QED
      BY <1>6, <3>3, <1>a, CallMoves
  <2>3. QED
    BY <1>6, <2>1, <2>2, <1>a, <1>e, CallMoves
<1>7. ASSUME NEW t \in Thread, NEW a \in Accepted, Pair(t, a)
      PROVE  ArgInv'
  <2>1. Arguments(t)'
    BY <1>7, CallMoves DEF Pair, Keeps, ArgInv, Arguments, Connecting, How
  <2>2. QED
    BY <1>7, <2>1, <1>a, CallMoves
<1>8. ASSUME NEW t \in Thread, NEW s \in Socket, Write(t, s) \/ Close(t, s)
      PROVE  ArgInv'
  <2>1. Arguments(t)'
    BY <1>8, CallMoves DEF Write, Close, Keeps, ArgInv, Arguments, Connecting, How
  <2>2. QED
    BY <1>8, <2>1, <1>a, CallMoves
<1>9. ASSUME NEW t \in Thread, NEW s \in Socket, NEW how \in How, Shutdown(t, s, how)
      PROVE  ArgInv'
  <2>1. connection[s] \in Socket
    BY <1>9 DEF Shutdown, Lock, TypeOK
  <2>2. Arguments(t)'
    BY <1>9, <2>1, CallMoves DEF Arguments, Connecting, How
  <2>3. QED
    BY <1>9, <2>2, <1>a, CallMoves
<1>10. ASSUME NEW s \in Socket, Destroys(s)
       PROVE  ArgInv'
  <2>1. \A u \in Thread : \E S : Moves(u, S)
    <3>1. CASE HangUp(s)
      BY <3>1, DestroyMoves
    <3>2. CASE LeaveQueue(s)
      BY <3>2, DestroyMoves
    <3>3. CASE Drain(s)
      BY <3>3, DestroyMoves
    <3>4. QED
      BY <1>10, <3>1, <3>2, <3>3 DEF Destroys
  <2>2. QED
    BY <2>1, <1>m DEF ArgInv
<1>11. CASE UNCHANGED vars
  BY <1>11, <1>m, KeepMoves DEF vars, ArgInv
<1>12. QED
  BY <1>1, <1>2, <1>3, <1>4, <1>5, <1>6, <1>7, <1>8, <1>9, <1>10, <1>11, <1>13, <1>14, <1>15
     DEF Next, Starts, Continues

(* Nobody is put to sleep over a queue, or joins it behind a sleeper. *)
LEMMA SleepStep ==
  ASSUME TypeOK, TypeOK', ArgInv, NoSleepOverQueue, [Next]_vars
  PROVE  NoSleepOverQueue'
<1>m. ASSUME NEW S, UNCHANGED pending, NEW u \in Thread, Moves(u, S), pc'[u] = "accepting"
      PROVE  pending'[on'[u]] = <<>>
  BY <1>m DEF Moves, NoSleepOverQueue
<1>a. ASSUME NEW S, UNCHANGED pending, NEW t \in Thread, Others(t, S), pc'[t] # "accepting"
      PROVE  NoSleepOverQueue'
  BY <1>a, <1>m DEF Others, NoSleepOverQueue
<1>1. ASSUME NEW t \in Thread, Starts(t)
      PROVE  NoSleepOverQueue'
  <2>1. CASE \E c \in Client, l \in Listener : Connect(t, c, l)
    BY <2>1, <1>a, CallMoves DEF Connect, links
  <2>2. CASE \E l \in Listener : Accept(t, l)
    <3>1. Others(t, {}) /\ pc'[t] = "accept"
      BY <2>2, CallMoves
    <3>2. UNCHANGED pending
      BY <2>2 DEF Accept, links
    <3>3. QED
      BY <3>1, <3>2, <1>a
  <2>3. CASE \E s \in Socket : Write(t, s) \/ Close(t, s)
    <3>1. pc'[t] = "user" /\ \E S : Others(t, S)
      BY <2>3, CallMoves
    <3>2. UNCHANGED pending
      BY <2>3 DEF Write, Close, links
    <3>3. QED
      BY <3>1, <3>2, <1>a
  <2>4. CASE \E s \in Socket, how \in How : Shutdown(t, s, how)
    BY <2>4, <1>a, CallMoves DEF Shutdown, links, How
  <2>5. QED
    BY <1>1, <2>1, <2>2, <2>3, <2>4 DEF Starts
<1>2. ASSUME NEW t \in Thread, Queue(t)
      PROVE  NoSleepOverQueue'
  <2>1. \A u \in Thread \ {t} : pc'[u] = "accepting" => pc[u] = "accepting" /\ on[u] # with[t] /\ on'[u] = on[u]
    BY <1>2, CallMoves DEF Others, Moves
  <2>2. \A l : l # with[t] => pending'[l] = pending[l]
    BY <1>2 DEF Queue
  <2>3. pc'[t] # "accepting"
    BY <1>2, CallMoves DEF Ended
  <2>4. QED
    BY <2>1, <2>2, <2>3 DEF NoSleepOverQueue
<1>3. ASSUME NEW t \in Thread,
             ConnectWait(t) \/ ConnectWoken(t) \/ Interrupt(t) \/ Link(t) \/ ShutdownPeer(t) \/ Claim(t)
      PROVE  NoSleepOverQueue'
  BY <1>3, <1>a, CallMoves DEF Ended, ConnectWait, ConnectWoken, Interrupt, Link, ShutdownPeer, Claim, links
<1>9. ASSUME NEW t \in Thread, Stir(t)
      PROVE  NoSleepOverQueue'
  <2>1. pc'[t] # "accepting" /\ UNCHANGED pending
    BY <1>9, CallMoves DEF Moves, Stir, links
  <2>2. QED
    BY <1>9, <2>1, <1>a, CallMoves
<1>4. ASSUME NEW t \in Thread, Look(t)
      PROVE  NoSleepOverQueue'
  <2>1. \A l \in Socket : l # on[t] => pending'[l] = pending[l]
    BY <1>4 DEF Look, TypeOK
  <2>2. pending[on[t]] = <<>> => pending' = pending
    BY <1>4 DEF Look
  <2>3. \A u \in Thread \ {t} : pc'[u] = "accepting" => pc[u] = "accepting" /\ on'[u] = on[u]
    BY <1>4, CallMoves DEF Others, Moves
  <2>4. pc'[t] = "accepting" => pending[on[t]] = <<>> /\ on'[t] = on[t]
    BY <1>4, CallMoves DEF Ended, Keeps
  <2>5. \A u \in Thread : pc[u] = "accepting" => on[u] \in Socket
    BY DEF ArgInv, Arguments, Socket
  <2>6. QED
    BY <2>1, <2>2, <2>3, <2>4, <2>5 DEF NoSleepOverQueue
<1>5. ASSUME NEW t \in Thread, NEW a \in Accepted, Pair(t, a)
      PROVE  NoSleepOverQueue'
  BY <1>5, <1>a, CallMoves DEF Pair
<1>6. ASSUME NEW s \in Socket, Destroys(s)
      PROVE  NoSleepOverQueue'
  <2>1. UNCHANGED pending
    BY <1>6 DEF Destroys, HangUp, LeaveQueue, Drain, links, flags, calls
  <2>2. \A u \in Thread : \E S : Moves(u, S)
    <3>1. CASE HangUp(s)
      BY <3>1, DestroyMoves
    <3>2. CASE LeaveQueue(s)
      BY <3>2, DestroyMoves
    <3>3. CASE Drain(s)
      BY <3>3, DestroyMoves
    <3>4. QED
      BY <1>6, <3>1, <3>2, <3>3 DEF Destroys
  <2>3. QED
    BY <2>1, <2>2, <1>m DEF NoSleepOverQueue
<1>7. CASE UNCHANGED vars
  BY <1>7 DEF vars, links, calls, NoSleepOverQueue
<1>8. QED
  BY <1>1, <1>2, <1>3, <1>4, <1>5, <1>6, <1>7, <1>9 DEF Next, Continues

-----------------------------------------------------------------------------
(* Steps that leave the links alone *)

Hot == {"claim", "queue", "pair", "link"}

Still ==
  /\ UNCHANGED <<connection, pending>>
  /\ \A s \in Socket : /\ life'[s] = "alive" <=> life[s] = "alive"
                       /\ life'[s] = "unborn" <=> life[s] = "unborn"
                       /\ Strong(s)' => Strong(s)
                       /\ \/ connecting'[s] = connecting[s]
                          \/ life[s] # "alive"
                          \/ \A l \in Listener : ~Strong(l)
  /\ \A u \in Thread : pc[u] \in Hot \/ pc'[u] \in Hot =>
       pc'[u] = pc[u] /\ on'[u] = on[u] /\ with'[u] = with[u]

(* They leave the shape of the links alone, too. *)
LEMMA StillShape ==
  ASSUME TypeOK, Shape, Still
  PROVE  Shape'
<1> USE KindsDiffer
<1>0. \A c \in Client \cup Accepted \cup Listener : c \in Socket
  BY DEF Socket
<1>1. Kinds'
  BY DEF Kinds, Shape, Still
<1>2. Living'
  BY DEF Living, Shape, Still
<1>3. \A t \in Thread, c \in Client :
        /\ Coming(t, c)' <=> Coming(t, c)
        /\ Queues(t, c)' <=> Queues(t, c)
        /\ Taken(t, c)' <=> Taken(t, c)
  BY DEF Coming, Queues, Taken, Still, Hot
<1>4. \A c \in Client : /\ Linked(c)' <=> Linked(c)
                        /\ \A l \in Listener : InQueue(c, l)' <=> InQueue(c, l)
  BY DEF InQueue, Linked, Still
<1>5. \A t \in Thread : pc'[t] = "link" <=> pc[t] = "link"
  BY DEF Still, Hot
<1>6. \A t \in Thread : pc[t] = "link" => with'[t] = with[t]
  BY DEF Still, Hot
<1>7. \A t \in Thread : pc'[t] = "pair" <=> pc[t] = "pair"
  BY DEF Still, Hot
<1>8. Once'
  <2>0. Once /\ pending' = pending /\ connection' = connection
    BY DEF Shape, Still
  <2>1. \A l \in Listener : \A i, j \in 1 .. Len(pending'[l]) :
          pending'[l][i] = pending'[l][j] => i = j
    BY <2>0 DEF Once
  <2>2. \A c \in Client, l \in Listener : InQueue(c, l)' =>
          /\ connection'[c] = NoSocket /\ ~Linked(c)'
          /\ \A t \in Thread : ~Coming(t, c)' /\ ~Taken(t, c)'
    BY <2>0, <1>3, <1>4 DEF Once
  <2>3. \A t \in Thread, c \in Client : Coming(t, c)' =>
          /\ connection'[c] = NoSocket /\ ~Linked(c)'
          /\ \A u \in Thread : ~Taken(u, c)'
    BY <2>0, <1>3, <1>4 DEF Once
  <2>4. \A t \in Thread, c \in Client : Taken(t, c)' =>
          /\ ~Linked(c)'
          /\ pc'[t] = "pair" => connection'[c] = NoSocket
          /\ \A u \in Thread : Taken(u, c)' => u = t
    BY <2>0, <1>3, <1>4, <1>7 DEF Once
  <2>5. QED
    BY <2>1, <2>2, <2>3, <2>4 DEF Once
<1>9. Remembered'
  BY <1>0, <1>3, <1>4 DEF Remembered, Shape, Still
<1>10. \A c \in Socket : Linking(c)' <=> Linking(c)
  BY <1>5, <1>6 DEF Linking
<1>11. Mutual'
  <2>1. \A s \in Socket : connection[s] # NoSocket => connection[s] \in Socket
    BY DEF TypeOK
  <2>2. QED
    BY <1>5, <1>6, <1>10, <2>1 DEF Mutual, Shape, Still
<1>12. HangUpReaches'
  <2>1. \A s \in Socket : connection[s] # NoSocket => connection[s] \in Socket
    BY DEF TypeOK
  <2>2. QED
    BY <2>1 DEF HangUpReaches, Shape, Still
<1>13. QED
  BY <1>1, <1>2, <1>8, <1>9, <1>11, <1>12 DEF Shape

LEMMA StrongKept ==
  ASSUME UNCHANGED connection, open' \subseteq open, NEW t, NEW S,
         \A u \in Thread \ {t} : Moves(u, S),
         NEW s \in Socket, t \in Thread /\ Holds(t, s)' => Strong(s)
  PROVE  Strong(s)' => Strong(s)
<1>1. \A u \in Thread \ {t} : Holds(u, s)' => Holds(u, s)
  BY DEF Moves, Holds
<1>2. QED
  BY <1>1 DEF Strong

(* What one thread does that is not about to queue, pair or link, while    *)
(* nothing is linked, queued, destroyed or made.                           *)
LEMMA ThreadStill ==
  ASSUME TypeOK, UNCHANGED <<life, links>>, open' \subseteq open,
         NEW t \in Thread, NEW S, \A u \in Thread \ {t} : Moves(u, S),
         pc[t] \notin Hot, pc'[t] \notin Hot,
         on'[t] # NoSocket => Strong(on'[t]), with'[t] # NoSocket => Strong(with'[t])
  PROVE  Still
<1> USE KindsDiffer
<1>1. \A s \in Socket : Strong(s)' => Strong(s)
  <2> SUFFICES ASSUME NEW s \in Socket PROVE Strong(s)' => Strong(s)
    OBVIOUS
  <2>1. Holds(t, s)' => Strong(s)
    BY DEF Holds, Hot
  <2>2. QED
    BY <2>1, StrongKept DEF links
<1>2. QED
  BY <1>1 DEF Still, links, Moves, Hot

(* The steps that leave the links alone. *)
Quiet ==
  \/ \E t \in Thread :
       \/ \E c \in Client, l \in Listener : Connect(t, c, l) /\ pc'[t] # "claim"
       \/ ConnectWait(t) \/ ConnectWoken(t) \/ Stir(t) \/ Interrupt(t)
       \/ \E l \in Listener : Accept(t, l)
       \/ Look(t) /\ pending' = pending
       \/ \E s \in Socket : Write(t, s) \/ Close(t, s) \/ \E how \in How : Shutdown(t, s, how)
       \/ ShutdownPeer(t)
  \/ \E s \in Socket : LeaveQueue(s) \/ Drain(s)
  \/ UNCHANGED vars

LEMMA QuietStill ==
  ASSUME TypeOK, TypeOK', ArgInv, Kinds, Living, OneListener, Quiet
  PROVE  Still
<1> USE KindsDiffer, CallsAssumption
<1>0. \A c \in Client \cup Accepted \cup Listener : c \in Socket
  BY DEF Socket
<1>r. ASSUME NEW t \in Thread, NEW S, ReturnAfter(t, S), pc[t] \notin Hot, UNCHANGED <<life, links, open>>
      PROVE  Still
  BY <1>r, ReturnMoves, ThreadStill DEF Hot
<1>h. \A t \in Thread, s \in Socket : on[t] = s \/ with[t] = s => Strong(s)
  BY DEF Strong, Holds
<1>w. \A t \in Thread : on[t] \in Socket \cup {NoSocket} /\ with[t] \in Socket \cup {NoSocket}
  BY DEF TypeOK
<1>s. ASSUME NEW t \in Thread, NEW l, pc[t] \notin Hot, l \notin Hot, pc' = [pc EXCEPT ![t] = l],
             UNCHANGED <<life, links, open, on, with>>
      PROVE  Still
  <2>1. pc'[t] = l /\ \A u \in Thread \ {t} : Moves(u, {})
    BY <1>s DEF TypeOK, Moves
  <2>2. QED
    BY <1>s, <2>1, <1>h, <1>w, ThreadStill
<1>1. ASSUME NEW t \in Thread, NEW c \in Client, NEW l \in Listener, Connect(t, c, l), pc'[t] # "claim"
      PROVE  Still
  <2>1. CASE UNCHANGED calls
    <3>1. \A u \in Thread \ {t} : Moves(u, {})
      BY <2>1, KeepMoves
    <3>2. UNCHANGED <<life, links, open>> /\ pc'[t] \notin Hot /\ pc[t] \notin Hot
      BY <1>1, <2>1 DEF Connect, links, calls, Hot
    <3>3. QED
      BY <2>1, <3>1, <3>2, <1>h, <1>w, ThreadStill DEF calls
  <2>2. CASE Enter(t, "again", c, l)
    <3>1. pc'[t] = "again" /\ on'[t] = c /\ with'[t] = l /\ \A u \in Thread \ {t} : Moves(u, {})
      BY <2>2, EnterMoves
    <3>2. Strong(c) /\ Strong(l)
      BY <1>1 DEF Connect, Strong
    <3>3. UNCHANGED <<life, links, open>> /\ pc[t] \notin Hot
      BY <1>1, <2>2 DEF Connect, links, Hot
    <3>4. QED
      BY <3>1, <3>2, <3>3, ThreadStill DEF Hot
  <2>3. CASE Enter(t, "claim", c, l)
    BY <1>1, <2>3, EnterMoves
  <2>4. QED
    BY <1>1, <2>1, <2>2, <2>3 DEF Connect
<1>2. ASSUME NEW t \in Thread, ConnectWait(t)
      PROVE  Still
  <2>1. CASE Connected(t)
    BY <2>1, <1>2, <1>r DEF ConnectWait, Connected, Return, Hot
  <2>2. CASE ~Connected(t)
    BY <2>2, <1>2, <1>s DEF ConnectWait, Hot
  <2>3. QED
    BY <2>1, <2>2
<1>3. ASSUME NEW t \in Thread, ConnectWoken(t)
      PROVE  Still
  BY <1>3, <1>r DEF ConnectWoken, Connected, Return, Hot
<1>4. ASSUME NEW t \in Thread, Interrupt(t)
      PROVE  Still
  BY <1>4, <1>r DEF Interrupt, Return, Hot, Asleep
<1>5. ASSUME NEW t \in Thread, NEW l \in Listener, Accept(t, l)
      PROVE  Still
  <2>1. pc'[t] = "accept" /\ on'[t] = l /\ with'[t] = NoSocket /\ \A u \in Thread \ {t} : Moves(u, {})
    BY <1>5, EnterMoves DEF Accept
  <2>2. Strong(l) /\ pc[t] \notin Hot
    BY <1>5 DEF Accept, Strong, Hot
  <2>3. QED
    BY <1>5, <2>1, <2>2, ThreadStill DEF Accept, Hot
<1>6. ASSUME NEW t \in Thread, Look(t), UNCHANGED pending
      PROVE  Still
  <2>1. pending[on[t]] = <<>>
    <3> SUFFICES ASSUME pending[on[t]] # <<>> PROVE FALSE
      OBVIOUS
    <3>1. on[t] \in Socket
      BY <1>6, <1>0 DEF Look, ArgInv, Arguments
    <3>2. pending[on[t]] \in Seq(Client)
      BY <3>1 DEF TypeOK
    <3>3. Len(Tail(pending[on[t]])) # Len(pending[on[t]])
      BY <3>2, TailElements
    <3>4. pending'[on[t]] = Tail(pending[on[t]])
      BY <1>6, <3>1 DEF Look, TypeOK
    <3>5. QED
      BY <1>6, <3>3, <3>4
  <2>2. CASE Return(t)
    BY <2>2, <1>6, <1>r DEF Return, Hot, Look, links
  <2>3. CASE ~Return(t)
    BY <2>1, <2>3, <1>6, <1>s DEF Look, Hot, links
  <2>4. QED
    BY <2>2, <2>3
<1>7. ASSUME NEW t \in Thread, NEW s \in Socket, Write(t, s)
      PROVE  Still
  <2>1. \A u \in Thread : on'[u] = on[u] /\ with'[u] = with[u]
    BY <1>7 DEF Write
  <2>2. \A u \in Thread \ {t} : Moves(u, {connection[s]})
    BY <1>7, <2>1, SignalMoves DEF Write
  <2>3. pc'[t] = pc[t]
    BY <1>7, SignalledMoves DEF Write, Asleep
  <2>4. QED
    BY <1>7, <2>1, <2>2, <2>3, <1>h, <1>w, ThreadStill DEF Write, Hot
<1>8. ASSUME NEW t \in Thread, NEW s \in Socket, Close(t, s)
      PROVE  Still
  <2>1. \A u \in Thread \ {t} : Moves(u, {})
    BY <1>8, KeepMoves DEF Close
  <2>2. QED
    BY <1>8, <2>1, <1>h, <1>w, ThreadStill DEF Close, Hot, calls
<1>9. ASSUME NEW t \in Thread, NEW s \in Socket, NEW how \in How, Shutdown(t, s, how)
      PROVE  Still
  <2>1. on'[t] = s /\ with'[t] = connection[s] /\ \A u \in Thread \ {t} : on'[u] = on[u] /\ with'[u] = with[u]
    BY <1>9 DEF Shutdown, TypeOK
  <2>2. pc'[t] = how /\ \A u \in Thread \ {t} : Moves(u, {s})
    <3>1. \A u \in Thread \ {t} : Moves(u, {s})
      BY <1>9, <2>1, SignalMoves DEF Shutdown
    <3>2. t \in DOMAIN Signalled({s})
      BY DEF Signalled
    <3>3. QED
      BY <1>9, <3>1, <3>2 DEF Shutdown
  <2>3. Strong(s) /\ Strong(connection[s])
    BY <1>9 DEF Shutdown, Strong, Lock
  <2>4. pc[t] \notin Hot /\ how \notin Hot
    BY <1>9 DEF Shutdown, Hot, How
  <2>5. QED
    BY <1>9, <2>1, <2>2, <2>3, <2>4, ThreadStill DEF Shutdown
<1>10. ASSUME NEW t \in Thread, ShutdownPeer(t)
       PROVE  Still
  BY <1>10, <1>r DEF ShutdownPeer, Hot, How
<1>11. ASSUME NEW s \in Socket, LeaveQueue(s)
       PROVE  Still
  <2>1. \A r \in Socket : Strong(r)' => Strong(r)
    BY <1>11 DEF LeaveQueue, calls, Strong, Holds
  <2>2. UNCHANGED <<connection, pending, pc, on, with>>
    BY <1>11 DEF LeaveQueue, calls
  <2>3. \A r \in Socket : /\ life'[r] = "alive" <=> life[r] = "alive"
                          /\ life'[r] = "unborn" <=> life[r] = "unborn"
    BY <1>11 DEF LeaveQueue, TypeOK
  <2>4. \A r \in Socket : connecting'[r] = connecting[r] \/ life[r] # "alive"
    BY <1>11 DEF LeaveQueue, TypeOK
  <2>5. QED
    BY <2>1, <2>2, <2>3, <2>4 DEF Still
<1>12. ASSUME NEW s \in Socket, Drain(s)
       PROVE  Still
  <2>1. \A u \in Thread : Moves(u, Waiting(s))
    BY <1>12, SignalAllMoves DEF Drain
  <2>2. UNCHANGED <<open, connection, pending>>
    BY <1>12 DEF Drain
  <2>3. \A r \in Socket : Strong(r)' => Strong(r)
    BY <2>1, <2>2 DEF Strong, Holds, Moves
  <2>4. \A r \in Socket : /\ life'[r] = "alive" <=> life[r] = "alive"
                          /\ life'[r] = "unborn" <=> life[r] = "unborn"
    BY <1>12 DEF Drain, TypeOK
  <2>5. \A r \in Socket : connecting'[r] = connecting[r] \/ \A l \in Listener : ~Strong(l)
    <3> SUFFICES ASSUME NEW r \in Socket, r \in Waiting(s) PROVE \A l \in Listener : ~Strong(l)
      BY <1>12 DEF Drain
    <3>1. pending[s] # <<>>
      BY DEF Waiting
    <3>2. s \in Listener
      BY <3>1 DEF Kinds
    <3>3. ~Strong(s)
      BY <1>12 DEF Drain, Living
    <3>4. QED
      BY <3>2, <3>3 DEF OneListener
  <2>6. \A u \in Thread : pc[u] \in Hot \/ pc'[u] \in Hot =>
          pc'[u] = pc[u] /\ on'[u] = on[u] /\ with'[u] = with[u]
    BY <2>1 DEF Moves, Hot
  <2>7. QED
    BY <2>2, <2>3, <2>4, <2>5, <2>6 DEF Still
<1>13. CASE UNCHANGED vars
  <2>1. UNCHANGED <<life, open, connection, connecting, pending, pc, on, with>>
    BY <1>13 DEF vars, links, calls
  <2>2. \A r \in Socket : Strong(r)' => Strong(r)
    BY <2>1 DEF Strong, Holds
  <2>3. QED
    BY <2>1, <2>2 DEF Still
<1>14. ASSUME NEW t \in Thread, Stir(t)
       PROVE  Still
  <2>1. Resumes(pc[t]) \notin Hot /\ pc[t] \notin Hot
    BY <1>14 DEF Stir, Asleep, Resumes, Hot
  <2>2. QED
    BY <1>14, <2>1, <1>s DEF Stir
<1>15. QED
  BY <1>1, <1>2, <1>3, <1>4, <1>5, <1>6, <1>7, <1>8, <1>9, <1>10, <1>11, <1>12, <1>13, <1>14 DEF Quiet

-----------------------------------------------------------------------------
(* Steps that change the links *)

(* Where a client is that an accept has taken, and what it points to. *)
LEMMA TakenFacts ==
  ASSUME TypeOK, ArgInv, Shape, NEW t \in Thread, pc[t] \in {"pair", "link"}
  PROVE  /\ with[t] \in Client /\ with[t] \in Socket
         /\ Alive(with[t]) /\ ~Linked(with[t])
         /\ \A u \in Thread : ~Coming(u, with[t]) /\ (Taken(u, with[t]) => u = t)
         /\ \A l \in Listener : ~InQueue(with[t], l)
         /\ pc[t] = "pair" => connection[with[t]] = NoSocket
         /\ pc[t] = "link" => /\ connection[with[t]] \in Accepted /\ connection[with[t]] \in Socket
                              /\ connection[connection[with[t]]] = NoSocket
                              /\ Alive(connection[with[t]])
<1>0. with[t] \in Client /\ with[t] \in Socket
  BY DEF ArgInv, Arguments, Socket
<1>1. Taken(t, with[t])
  BY DEF Taken
<1>2. Strong(with[t])
  BY DEF Strong, Holds
<1>3. /\ ~Linked(with[t])
      /\ \A u \in Thread : ~Coming(u, with[t]) /\ (Taken(u, with[t]) => u = t)
      /\ pc[t] = "pair" => connection[with[t]] = NoSocket
  BY <1>0, <1>1 DEF Shape, Once
<1>4. \A l \in Listener : ~InQueue(with[t], l)
  BY <1>0, <1>1 DEF Shape, Once
<1>5. ASSUME pc[t] = "link"
      PROVE  /\ connection[with[t]] \in Accepted /\ connection[with[t]] \in Socket
             /\ connection[connection[with[t]]] = NoSocket
             /\ Alive(connection[with[t]])
  <2>1. /\ connection[with[t]] \in Accepted /\ connection[with[t]] \in Socket
        /\ connection[connection[with[t]]] = NoSocket
    BY <1>5 DEF Shape, Mutual, Socket
  <2>2. Strong(connection[with[t]])
    BY <1>5 DEF Strong, Holds
  <2>3. QED
    BY <2>1, <2>2 DEF Shape, Living, Alive
<1>6. QED
  BY <1>0, <1>2, <1>3, <1>4, <1>5 DEF Shape, Living, Alive

(* Whom the destructor of a socket hangs up on. *)
LEMMA HangUpFacts ==
  ASSUME TypeOK, ArgInv, Shape, NEW s \in Socket, HangUp(s), Lock(connection[s]) # NoSocket
  PROVE  LET y == connection[s] IN
         /\ y \in Socket /\ y # s /\ Strong(y) /\ Alive(y) /\ connection[y] = s /\ Free(y)
         /\ connection' = [connection EXCEPT ![y] = NoSocket]
         /\ CloseDirections(y, TRUE, TRUE)
         /\ \A u \in Thread : Moves(u, {y})
<1> DEFINE y == connection[s]
<1>1. Lock(y) = y /\ y # NoSocket /\ Strong(y)
  BY DEF Lock
<1>2. y \in Socket
  BY <1>1 DEF TypeOK
<1>3. ~Strong(s) /\ life[s] = "alive"
  BY DEF HangUp
<1>4. ~Linking(s)
  BY <1>3 DEF Linking, Strong, Holds
<1>5. Alive(y)
  BY <1>1, <1>2 DEF Shape, Living, Alive
<1>6. connection[y] = s
  BY <1>1, <1>2, <1>3, <1>4, <1>5 DEF Shape, Mutual, Alive
<1>7. Free(y) /\ CloseDirections(y, TRUE, TRUE) /\ connection' = [connection EXCEPT ![y] = NoSocket]
  BY <1>1 DEF HangUp
<1>8. \A u \in Thread : Moves(u, {y})
  BY DestroyMoves
<1>9. QED
  BY <1>1, <1>2, <1>3, <1>5, <1>6, <1>7, <1>8

(* A thread in shutdown keeps both ends of the pair. *)
LEMMA EndsStep ==
  ASSUME TypeOK, TypeOK', ArgInv, HoldsEnds, Shape, [Next]_vars
  PROVE  HoldsEnds'
<1> USE KindsDiffer
<1>0. \A u \in Thread : pc[u] \in How => /\ on[u] \in Socket /\ with[u] \in Socket
                                        /\ connection[on[u]] = with[u] /\ connection[with[u]] = on[u]
                                        /\ on[u] # NoSocket /\ with[u] # NoSocket
  BY DEF ArgInv, Arguments, HoldsEnds, Ends
<1> DEFINE KeptAt(u) == pc[u] \in How =>
             /\ connection'[on[u]] = connection[on[u]] /\ connection'[with[u]] = connection[with[u]]
             /\ inClosed[on[u]] => inClosed'[on[u]]
             /\ outClosed[on[u]] => outClosed'[on[u]]
<1>m. ASSUME NEW u \in Thread, NEW S, Moves(u, S), KeptAt(u)
      PROVE  Ends(u)'
  BY <1>m DEF Moves, HoldsEnds, Ends, How
<1>a. ASSUME NEW t \in Thread, NEW S, Others(t, S), pc'[t] \notin How, \A u \in Thread : KeptAt(u)
      PROVE  HoldsEnds'
  <2>1. Ends(t)'
    BY <1>a DEF Ends
  <2>2. \A u \in Thread \ {t} : Ends(u)'
    BY <1>a, <1>m DEF Others
  <2>3. QED
    BY <2>1, <2>2 DEF HoldsEnds
<1>u. ASSUME NEW t \in Thread, NEW S, Others(t, S), pc'[t] \notin How, UNCHANGED <<connection, inClosed, outClosed>>
      PROVE  HoldsEnds'
  BY <1>u, <1>a
<1>c. ASSUME NEW s \in Socket, NEW i \in BOOLEAN, NEW o \in BOOLEAN, CloseDirections(s, i, o)
      PROVE  /\ \A r \in Socket : (inClosed[r] => inClosed'[r]) /\ (outClosed[r] => outClosed'[r])
             /\ i => inClosed'[s]
             /\ o => outClosed'[s]
  BY <1>c DEF CloseDirections, TypeOK
<1>1. ASSUME NEW t \in Thread, Starts(t), \A s \in Socket, how \in How : ~Shutdown(t, s, how)
      PROVE  HoldsEnds'
  <2>1. CASE \E c \in Client, l \in Listener : Connect(t, c, l)
    BY <2>1, <1>u, CallMoves DEF How
  <2>2. CASE \E l \in Listener : Accept(t, l)
    BY <2>2, <1>u, CallMoves DEF Accept, links, flags, How
  <2>3. CASE \E s \in Socket : Write(t, s) \/ Close(t, s)
    BY <2>3, <1>u, CallMoves DEF Write, Close, links, flags, How
  <2>4. QED
    BY <1>1, <2>1, <2>2, <2>3 DEF Starts
<1>2. ASSUME NEW t \in Thread, NEW s \in Socket, NEW how \in How, Shutdown(t, s, how)
      PROVE  HoldsEnds'
  <2> DEFINE p == connection[s]
  <2>1. Strong(s) /\ Strong(p) /\ p # NoSocket /\ p \in Socket
    BY <1>2 DEF Shutdown, Lock, Strong, TypeOK
  <2>2. ~Linking(s)
    BY <1>2 DEF Shutdown, Free, Linking
  <2>3. connection[p] = s
    BY <2>1, <2>2 DEF Shape, Mutual, Living
  <2>4. Others(t, {s}) /\ pc'[t] = how /\ on'[t] = s /\ with'[t] = p
    BY <1>2, CallMoves
  <2>5. CloseDirections(s, how # "SHUT_WR", how # "SHUT_RD") /\ UNCHANGED connection
    BY <1>2 DEF Shutdown, links
  <2>6. Ends(t)'
    BY <2>3, <2>4, <2>5, <1>c DEF Ends
  <2>7. \A u \in Thread : KeptAt(u)
    BY <2>5, <1>0, <1>c
  <2>8. QED
    BY <2>4, <2>6, <2>7, <1>m DEF Others, HoldsEnds
<1>3. ASSUME NEW t \in Thread, \/ Claim(t) \/ Queue(t) \/ ConnectWait(t) \/ ConnectWoken(t)
                                \/ Interrupt(t) \/ Look(t) \/ Stir(t)
      PROVE  HoldsEnds'
  <2>1. UNCHANGED <<connection, inClosed, outClosed>>
    BY <1>3 DEF Claim, Queue, ConnectWait, ConnectWoken, Interrupt, Look, Stir, links, flags
  <2>2. CASE Stir(t)
    <3>1. Others(t, {}) /\ Moves(t, {on[t]}) /\ pc[t] \notin How
      BY <2>2, CallMoves DEF Stir, Asleep, How
    <3>2. pc'[t] \notin How
      BY <3>1 DEF Moves, How
    <3>3. QED
      BY <2>1, <3>1, <3>2, <1>u
  <2>4. CASE ~Stir(t)
    <3>1. pc'[t] \notin How /\ \E S : Others(t, S)
      BY <1>3, <2>4, CallMoves DEF Ended, How
    <3>2. QED
      BY <2>1, <3>1, <1>u
  <2>5. QED
    BY <2>2, <2>4
<1>4. ASSUME NEW t \in Thread, NEW a \in Accepted, Pair(t, a)
      PROVE  HoldsEnds'
  <2>1. connection[with[t]] = NoSocket
    BY <1>4, TakenFacts DEF Pair
  <2>2. UNCHANGED <<inClosed, outClosed>> /\ \A r : r # with[t] => connection'[r] = connection[r]
    BY <1>4 DEF Pair, flags
  <2>3. \A u \in Thread : KeptAt(u)
    BY <2>1, <2>2, <1>0
  <2>4. QED
    BY <1>4, <2>3, <1>a, CallMoves DEF How
<1>5. ASSUME NEW t \in Thread, Link(t)
      PROVE  HoldsEnds'
  <2>1. connection[connection[with[t]]] = NoSocket
    BY <1>5, TakenFacts DEF Link
  <2>2. UNCHANGED <<inClosed, outClosed>> /\ \A r : r # connection[with[t]] => connection'[r] = connection[r]
    BY <1>5 DEF Link
  <2>3. \A u \in Thread : KeptAt(u)
    BY <2>1, <2>2, <1>0
  <2>4. QED
    BY <1>5, <2>3, <1>a, CallMoves DEF How, Ended
<1>6. ASSUME NEW t \in Thread, ShutdownPeer(t)
      PROVE  HoldsEnds'
  <2>1. CloseDirections(with[t], pc[t] # "SHUT_RD", pc[t] # "SHUT_WR") /\ UNCHANGED connection /\ with[t] \in Socket
    BY <1>6, <1>0 DEF ShutdownPeer, links
  <2>2. \A u \in Thread : KeptAt(u)
    BY <2>1, <1>0, <1>c
  <2>3. QED
    BY <1>6, <2>2, <1>a, CallMoves DEF How, Ended
<1>7. ASSUME NEW s \in Socket, HangUp(s)
      PROVE  HoldsEnds'
  <2>1. CASE Lock(connection[s]) = NoSocket
    <3>1. UNCHANGED <<connection, inClosed, outClosed>>
      BY <1>7, <2>1 DEF HangUp
    <3>2. \A u \in Thread : Moves(u, {})
      BY <1>7, <2>1, DestroyMoves
    <3>3. QED
      BY <3>1, <3>2, <1>m DEF HoldsEnds
  <2>2. CASE Lock(connection[s]) # NoSocket
    <3> DEFINE y == connection[s]
    <3>1. /\ y \in Socket /\ connection[y] = s
          /\ connection' = [connection EXCEPT ![y] = NoSocket]
          /\ CloseDirections(y, TRUE, TRUE) /\ \A u \in Thread : Moves(u, {y})
      BY <1>7, <2>2, HangUpFacts
    <3>2. ~Strong(s)
      BY <1>7 DEF HangUp
    <3>3. \A u \in Thread : pc[u] \in How => on[u] # y /\ with[u] # y
      BY <3>1, <3>2, <1>0 DEF Strong, Holds
    <3>4. \A r \in Socket : (inClosed[r] => inClosed'[r]) /\ (outClosed[r] => outClosed'[r])
      BY <3>1, <1>c
    <3>5. \A r \in Socket : r # y => connection'[r] = connection[r]
      BY <3>1 DEF TypeOK
    <3> HIDE DEF y
    <3>6. \A u \in Thread : KeptAt(u)
      BY <3>3, <3>4, <3>5, <1>0
    <3>7. QED
      BY <3>1, <3>6, <1>m DEF HoldsEnds
  <2>3. QED
    BY <2>1, <2>2
<1>8. ASSUME NEW s \in Socket, LeaveQueue(s) \/ Drain(s)
      PROVE  HoldsEnds'
  <2>1. UNCHANGED <<connection, inClosed, outClosed>>
    BY <1>8 DEF LeaveQueue, Drain, flags
  <2>2. \A u \in Thread : \E S : Moves(u, S)
    BY <1>8, DestroyMoves
  <2>3. QED
    BY <2>1, <2>2, <1>m DEF HoldsEnds
<1>9. CASE UNCHANGED vars
  BY <1>9 DEF vars, links, flags, calls, HoldsEnds, Ends
<1>10. QED
  BY <1>1, <1>2, <1>3, <1>4, <1>5, <1>6, <1>7, <1>8, <1>9 DEF Next, Continues, Destroys

(* connect, up to its claim: the client is nowhere, since connecting does  *)
(* not name the one listener that it may be coming from.                   *)
LEMMA ConnectShape ==
  ASSUME TypeOK, TypeOK', ArgInv, Shape, OneListener,
         NEW t \in Thread, NEW c \in Client, NEW l \in Listener, Connect(t, c, l), pc'[t] = "claim"
  PROVE  Shape'
<1> USE KindsDiffer, CallsAssumption
<1>0. \A r \in Client \cup Accepted \cup Listener : r \in Socket
  BY DEF Socket
<1>1. /\ pc[t] = "user" /\ Strong(c) /\ Strong(l)
      /\ Lock(connection[c]) = NoSocket /\ Lock(connecting[c]) = NoSocket
  <2>1. ~UNCHANGED calls /\ ~Enter(t, "again", c, l)
    BY EnterMoves DEF Connect, calls
  <2>2. QED
    BY <2>1 DEF Connect, Strong
<1>2. UNCHANGED <<life, connection, connecting, pending, open>>
  BY DEF Connect, links
<1>3. Others(t, {}) /\ on'[t] = c /\ with'[t] = l
  BY CallMoves
<1>4. Alive(c) /\ l \in Socket /\ c \in Socket
  BY <1>0, <1>1 DEF Shape, Living, Alive
<1>5. connecting[c] # l
  BY <1>0, <1>1 DEF Lock
<1>6. ~InQueue(c, l) /\ ~Linked(c) /\ \A u \in Thread : ~Taken(u, c)
  BY <1>1, <1>4, <1>5 DEF Shape, Remembered, Alive
<1>7. connection[c] = NoSocket
  <2> SUFFICES ASSUME connection[c] # NoSocket PROVE FALSE
    OBVIOUS
  <2>1. connection[c] \in Accepted /\ Alive(connection[c])
    BY <1>1, <1>4 DEF Shape, Kinds, HangUpReaches, Alive
  <2>2. connection[connection[c]] = c \/ Linking(c)
    BY <2>1, <1>4 DEF Shape, Mutual, Alive
  <2>3. ~Linking(c)
    BY <1>6 DEF Linking, Taken
  <2>4. QED
    BY <2>1, <2>2, <2>3, <1>6 DEF Linked
<1>8. \A r \in Socket : Strong(r)' => Strong(r)
  <2> SUFFICES ASSUME NEW r \in Socket PROVE Strong(r)' => Strong(r)
    OBVIOUS
  <2>1. Holds(t, r)' => Strong(r)
    BY <1>1, <1>3 DEF Holds
  <2>2. QED
    BY <2>1, <1>2, <1>3, StrongKept DEF Others
<1>9. \A u \in Thread, d \in Client : /\ Coming(u, d)' => Coming(u, d) \/ (u = t /\ d = c)
                                      /\ Queues(u, d)' <=> Queues(u, d)
                                      /\ Taken(u, d)' <=> Taken(u, d)
  BY <1>1, <1>3 DEF Others, Moves, Coming, Queues, Taken
<1>10. \A d \in Client : Linked(d)' <=> Linked(d)
  BY <1>2 DEF Linked
<1>11. \A d \in Client, m \in Listener : InQueue(d, m)' <=> InQueue(d, m)
  BY <1>2 DEF InQueue
<1>12. \A u \in Thread : (pc'[u] = "link" <=> pc[u] = "link") /\ (pc'[u] = "pair" <=> pc[u] = "pair")
                          /\ (pc[u] = "link" => with'[u] = with[u])
  BY <1>1, <1>3 DEF Others, Moves
<1>13. Kinds'
  BY <1>2 DEF Kinds, Shape
<1>14. Living'
  BY <1>2, <1>8 DEF Living, Shape
<1>15. Once'
  <2>0. Once /\ pending' = pending /\ connection' = connection
    BY <1>2 DEF Shape
  <2>1. \A m \in Listener : \A i, j \in 1 .. Len(pending'[m]) :
          pending'[m][i] = pending'[m][j] => i = j
    BY <2>0 DEF Once
  <2>2. \A d \in Client, m \in Listener : InQueue(d, m)' =>
          /\ connection'[d] = NoSocket /\ ~Linked(d)'
          /\ \A u \in Thread : ~Coming(u, d)' /\ ~Taken(u, d)'
    BY <2>0, <1>6, <1>9, <1>10, <1>11 DEF Once, OneListener
  <2>3. \A u \in Thread, d \in Client : Coming(u, d)' =>
          /\ connection'[d] = NoSocket /\ ~Linked(d)'
          /\ \A v \in Thread : ~Taken(v, d)'
    BY <2>0, <1>6, <1>7, <1>9, <1>10 DEF Once
  <2>4. \A u \in Thread, d \in Client : Taken(u, d)' =>
          /\ ~Linked(d)'
          /\ pc'[u] = "pair" => connection'[d] = NoSocket
          /\ \A v \in Thread : Taken(v, d)' => v = u
    BY <2>0, <1>9, <1>10, <1>12 DEF Once
  <2>5. QED
    BY <2>1, <2>2, <2>3, <2>4 DEF Once
<1>16. Remembered'
  <2> SUFFICES ASSUME NEW d \in Client, NEW m \in Listener,
                      life'[d] = "alive", Strong(m)',
                      (InQueue(d, m) \/ Linked(d) \/ \E u \in Thread : Queues(u, d) \/ Taken(u, d))'
               PROVE  connecting'[d] = m
    BY DEF Remembered
  <2>1. InQueue(d, m) \/ Linked(d) \/ \E u \in Thread : Queues(u, d) \/ Taken(u, d)
    BY <1>9, <1>10, <1>11
  <2>2. QED
    BY <2>1, <1>0, <1>2, <1>8 DEF Shape, Remembered
<1>17. Mutual'
  <2>1. \A r \in Socket : Linking(r)' <=> Linking(r)
    BY <1>12 DEF Linking
  <2>2. QED
    BY <2>1, <1>2, <1>12 DEF Mutual, Shape
<1>18. HangUpReaches'
  BY <1>2, <1>8 DEF HangUpReaches, Shape
<1>19. QED
  BY <1>13, <1>14, <1>15, <1>16, <1>17, <1>18 DEF Shape

(* connecting is set: it names the one listener there is. *)
LEMMA ClaimShape ==
  ASSUME TypeOK, TypeOK', ArgInv, Shape, OneListener, NEW t \in Thread, Claim(t)
  PROVE  Shape'
<1> USE KindsDiffer
<1> DEFINE c == on[t]
           l == with[t]
<1>0. \A r \in Client \cup Accepted \cup Listener : r \in Socket
  BY DEF Socket
<1>1. pc[t] = "claim" /\ c \in Client /\ l \in Listener /\ connecting' = [connecting EXCEPT ![c] = l]
  BY CallsAssumption DEF Claim, ArgInv, Arguments, Connecting
<1>2. UNCHANGED <<life, connection, pending, open>>
  BY DEF Claim
<1>3. Others(t, {}) /\ pc'[t] = "queue" /\ on'[t] = c /\ with'[t] = l
  BY CallMoves DEF Keeps
<1>8. \A r \in Socket : Strong(r)' => Strong(r)
  <2> SUFFICES ASSUME NEW r \in Socket PROVE Strong(r)' => Strong(r)
    OBVIOUS
  <2>1. Holds(t, r)' => Strong(r)
    BY <1>3 DEF Holds, Strong
  <2>2. QED
    BY <2>1, <1>2, <1>3, StrongKept DEF Others
<1>9. \A u \in Thread, d \in Client : /\ Coming(u, d)' <=> Coming(u, d)
                                      /\ Queues(u, d)' => Queues(u, d) \/ (u = t /\ d = c)
                                      /\ Taken(u, d)' <=> Taken(u, d)
  BY <1>1, <1>3 DEF Others, Moves, Coming, Queues, Taken
<1>10. \A d \in Client : Linked(d)' <=> Linked(d)
  BY <1>2 DEF Linked
<1>11. \A d \in Client, m \in Listener : InQueue(d, m)' <=> InQueue(d, m)
  BY <1>2 DEF InQueue
<1>12. \A u \in Thread : (pc'[u] = "link" <=> pc[u] = "link") /\ (pc'[u] = "pair" <=> pc[u] = "pair")
                          /\ (pc[u] = "link" => with'[u] = with[u])
  BY <1>1, <1>3 DEF Others, Moves
<1>13. Kinds'
  BY <1>2 DEF Kinds, Shape
<1>14. Living'
  BY <1>2, <1>8 DEF Living, Shape
<1>15. Once'
  <2>0. Once /\ pending' = pending /\ connection' = connection
    BY <1>2 DEF Shape
  <2>1. \A m \in Listener : \A i, j \in 1 .. Len(pending'[m]) :
          pending'[m][i] = pending'[m][j] => i = j
    BY <2>0 DEF Once
  <2>2. \A d \in Client, m \in Listener : InQueue(d, m)' =>
          /\ connection'[d] = NoSocket /\ ~Linked(d)'
          /\ \A u \in Thread : ~Coming(u, d)' /\ ~Taken(u, d)'
    BY <2>0, <1>9, <1>10, <1>11 DEF Once
  <2>3. \A u \in Thread, d \in Client : Coming(u, d)' =>
          /\ connection'[d] = NoSocket /\ ~Linked(d)'
          /\ \A v \in Thread : ~Taken(v, d)'
    BY <2>0, <1>9, <1>10 DEF Once
  <2>4. \A u \in Thread, d \in Client : Taken(u, d)' =>
          /\ ~Linked(d)'
          /\ pc'[u] = "pair" => connection'[d] = NoSocket
          /\ \A v \in Thread : Taken(v, d)' => v = u
    BY <2>0, <1>9, <1>10, <1>12 DEF Once
  <2>5. QED
    BY <2>1, <2>2, <2>3, <2>4 DEF Once
<1>16. Remembered'
  <2> SUFFICES ASSUME NEW d \in Client, NEW m \in Listener,
                      life'[d] = "alive", Strong(m)',
                      (InQueue(d, m) \/ Linked(d) \/ \E u \in Thread : Queues(u, d) \/ Taken(u, d))'
               PROVE  connecting'[d] = m
    BY DEF Remembered
  <2>1. CASE d = c
    BY <2>1, <1>0, <1>1 DEF OneListener, TypeOK
  <2>2. CASE d # c
    <3>1. InQueue(d, m) \/ Linked(d) \/ \E u \in Thread : Queues(u, d) \/ Taken(u, d)
      BY <2>2, <1>9, <1>10, <1>11
    <3>2. connecting[d] = m
      BY <3>1, <1>0, <1>2, <1>8 DEF Shape, Remembered
    <3>3. QED
      BY <3>2, <2>2, <1>1
  <2>3. QED
    BY <2>1, <2>2
<1>17. Mutual'
  <2>1. \A r \in Socket : Linking(r)' <=> Linking(r)
    BY <1>12 DEF Linking
  <2>2. QED
    BY <2>1, <1>2, <1>12 DEF Mutual, Shape
<1>18. HangUpReaches'
  BY <1>2, <1>8 DEF HangUpReaches, Shape
<1>19. QED
  BY <1>13, <1>14, <1>15, <1>16, <1>17, <1>18 DEF Shape

(* The end of connect's queue. *)
LEMMA QueueShape ==
  ASSUME TypeOK, TypeOK', ArgInv, Shape, OneListener, OneConnector, NEW t \in Thread, Queue(t)
  PROVE  Shape'
<1> USE KindsDiffer, CallsAssumption
<1> DEFINE c == on[t]
           l == with[t]
<1>0. \A r \in Client \cup Accepted \cup Listener : r \in Socket
  BY DEF Socket
<1>1. pc[t] = "queue" /\ c \in Client /\ c \in Connects[t] /\ l \in Listener
  BY DEF Queue, ArgInv, Arguments, Connecting
<1>2. UNCHANGED <<life, open, connection, connecting>>
  BY DEF Queue
<1>3. /\ Others(t, {l}) /\ pc'[t] \in {"user", "check"}
      /\ (on'[t] = c /\ with'[t] = l) \/ (on'[t] = NoSocket /\ with'[t] = NoSocket)
  BY CallMoves DEF Ended, Keeps
<1>4. /\ pending[l] \in Seq(Client)
      /\ pending'[l] = Append(pending[l], c)
      /\ \A m \in Socket : m # l => pending'[m] = pending[m]
  BY <1>0, <1>1 DEF Queue, TypeOK
<1>5. Coming(t, c) /\ Queues(t, c)
  BY <1>1 DEF Coming, Queues
<1>6. /\ connection[c] = NoSocket /\ ~Linked(c) /\ ~InQueue(c, l)
      /\ \A u \in Thread : ~Taken(u, c)
  BY <1>1, <1>5 DEF Shape, Once
<1>7. \A u \in Thread : Coming(u, c) => u = t
  <2> SUFFICES ASSUME NEW u \in Thread, Coming(u, c) PROVE u = t
    OBVIOUS
  <2>1. c \in Connects[u]
    BY DEF Coming, ArgInv, Arguments, Connecting
  <2>2. QED
    BY <2>1, <1>1 DEF OneConnector
<1>8. \A r \in Socket : Strong(r)' => Strong(r)
  <2> SUFFICES ASSUME NEW r \in Socket PROVE Strong(r)' => Strong(r)
    OBVIOUS
  <2>1. Holds(t, r)' => Strong(r)
    BY <1>3 DEF Holds, Strong
  <2>2. QED
    BY <2>1, <1>2, <1>3, StrongKept DEF Others
<1>9. \A u \in Thread, d \in Client : /\ Coming(u, d)' <=> Coming(u, d) /\ d # c
                                      /\ Queues(u, d)' => Queues(u, d)
                                      /\ Taken(u, d)' <=> Taken(u, d)
  <2>1. \A u \in Thread \ {t}, d \in Client : /\ Coming(u, d)' <=> Coming(u, d)
                                              /\ Queues(u, d)' <=> Queues(u, d)
                                              /\ Taken(u, d)' <=> Taken(u, d)
    BY <1>3 DEF Others, Moves, Coming, Queues, Taken
  <2>2. \A d \in Client : /\ ~Coming(t, d)' /\ ~Queues(t, d)' /\ (Coming(t, d) <=> d = c)
                          /\ ~Taken(t, d)' /\ ~Taken(t, d)
    BY <1>1, <1>3 DEF Coming, Queues, Taken
  <2>3. QED
    BY <2>1, <2>2, <1>1, <1>7
<1>10. \A d \in Client : Linked(d)' <=> Linked(d)
  BY <1>2 DEF Linked
<1>11. \A d \in Client, m \in Listener : InQueue(d, m)' => InQueue(d, m) \/ d = c
  <2> SUFFICES ASSUME NEW d \in Client, NEW m \in Listener, NEW i \in 1 .. Len(pending'[m]), pending'[m][i] = d
               PROVE  InQueue(d, m) \/ d = c
    BY DEF InQueue
  <2>1. CASE m # l
    BY <2>1, <1>0, <1>4 DEF InQueue
  <2>2. CASE m = l
    <3>1. i \in 1 .. Len(pending[l]) \/ i = Len(pending[l]) + 1
      BY <2>2, <1>1, <1>4, AppendElements
    <3>2. QED
      BY <3>1, <2>2, <1>1, <1>4, AppendElements DEF InQueue
  <2>3. QED
    BY <2>1, <2>2
<1>12. \A u \in Thread : (pc'[u] = "link" <=> pc[u] = "link") /\ (pc'[u] = "pair" <=> pc[u] = "pair")
                          /\ (pc[u] = "link" => with'[u] = with[u])
  BY <1>1, <1>3 DEF Others, Moves
<1>13. Kinds'
  BY <1>1, <1>2, <1>4 DEF Kinds, Shape
<1>14. Living'
  BY <1>2, <1>8 DEF Living, Shape
<1>15. Once'
  <2>0. Once /\ connection' = connection
    BY <1>2 DEF Shape
  <2>1. ASSUME NEW m \in Listener, NEW i \in 1 .. Len(pending'[m]), NEW j \in 1 .. Len(pending'[m]),
               pending'[m][i] = pending'[m][j]
        PROVE  i = j
    <3>1. CASE m # l
      BY <3>1, <2>0, <2>1, <1>0, <1>4 DEF Once
    <3>2. CASE m = l
      <4>1. \A k \in 1 .. Len(pending'[l]) :
              \/ k \in 1 .. Len(pending[l]) /\ pending'[l][k] = pending[l][k]
              \/ k = Len(pending[l]) + 1 /\ pending'[l][k] = c
        BY <1>1, <1>4, AppendElements
      <4>2. \A k \in 1 .. Len(pending[l]) : pending[l][k] # c
        BY <1>6 DEF InQueue
      <4>3. QED
        BY <3>2, <4>1, <4>2, <2>0, <2>1, <1>1 DEF Once
    <3>3. QED
      BY <3>1, <3>2
  <2>2. \A d \in Client, m \in Listener : InQueue(d, m)' =>
          /\ connection'[d] = NoSocket /\ ~Linked(d)'
          /\ \A u \in Thread : ~Coming(u, d)' /\ ~Taken(u, d)'
    BY <2>0, <1>6, <1>9, <1>10, <1>11 DEF Once
  <2>3. \A u \in Thread, d \in Client : Coming(u, d)' =>
          /\ connection'[d] = NoSocket /\ ~Linked(d)'
          /\ \A v \in Thread : ~Taken(v, d)'
    BY <2>0, <1>9, <1>10 DEF Once
  <2>4. \A u \in Thread, d \in Client : Taken(u, d)' =>
          /\ ~Linked(d)'
          /\ pc'[u] = "pair" => connection'[d] = NoSocket
          /\ \A v \in Thread : Taken(v, d)' => v = u
    BY <2>0, <1>9, <1>10, <1>12 DEF Once
  <2>5. QED
    BY <2>1, <2>2, <2>3, <2>4 DEF Once
<1>16. Remembered'
  <2> SUFFICES ASSUME NEW d \in Client, NEW m \in Listener,
                      life'[d] = "alive", Strong(m)',
                      (InQueue(d, m) \/ Linked(d) \/ \E u \in Thread : Queues(u, d) \/ Taken(u, d))'
               PROVE  connecting'[d] = m
    BY DEF Remembered
  <2>1. InQueue(d, m) \/ Linked(d) \/ \E u \in Thread : Queues(u, d) \/ Taken(u, d)
    BY <1>5, <1>9, <1>10, <1>11
  <2>2. connecting[d] = m
    BY <2>1, <1>0, <1>2, <1>8 DEF Shape, Remembered
  <2>3. QED
    BY <2>2, <1>2
<1>17. Mutual'
  <2>1. \A r \in Socket : Linking(r)' <=> Linking(r)
    BY <1>12 DEF Linking
  <2>2. QED
    BY <2>1, <1>2, <1>12 DEF Mutual, Shape
<1>18. HangUpReaches'
  BY <1>2, <1>8 DEF HangUpReaches, Shape
<1>19. QED
  BY <1>13, <1>14, <1>15, <1>16, <1>17, <1>18 DEF Shape

(* accept takes the first of the queue, which it meets nowhere else. *)
LEMMA LookShape ==
  ASSUME TypeOK, TypeOK', ArgInv, Shape, OneListener, NEW t \in Thread, Look(t), pending' # pending
  PROVE  Shape'
<1> USE KindsDiffer
<1> DEFINE l == on[t]
           c == Head(pending[l])
<1>0. \A r \in Client \cup Accepted \cup Listener : r \in Socket
  BY DEF Socket
<1>1. pc[t] = "accept" /\ l \in Listener /\ with[t] = NoSocket
  BY DEF Look, ArgInv, Arguments
<1>2. UNCHANGED <<life, open, connection, connecting>>
  BY DEF Look
<1>3. /\ pending[l] # <<>> /\ pending[l] \in Seq(Client)
      /\ pending'[l] = Tail(pending[l])
      /\ \A m \in Socket : m # l => pending'[m] = pending[m]
  <2>1. pending[l] # <<>>
    BY DEF Look
  <2>2. QED
    BY <2>1, <1>0, <1>1 DEF Look, TypeOK
<1>4. /\ c \in Client /\ pending[l][1] = c
      /\ Len(pending[l]) \in Nat \ {0} /\ Len(pending'[l]) = Len(pending[l]) - 1
      /\ \A i \in 1 .. Len(pending'[l]) : pending'[l][i] = pending[l][i + 1]
  BY <1>3, TailElements
<1>5. /\ Others(t, {})
      /\ \/ Ended(t)'
         \/ Strong(c) /\ pc'[t] = "pair" /\ on'[t] = l /\ with'[t] = c
  BY <1>3, CallMoves
<1>6. InQueue(c, l)
  BY <1>4 DEF InQueue
<1>7. /\ connection[c] = NoSocket /\ ~Linked(c)
      /\ \A u \in Thread : ~Coming(u, c) /\ ~Taken(u, c)
  BY <1>1, <1>4, <1>6 DEF Shape, Once
<1>8. \A r \in Socket : Strong(r)' => Strong(r)
  <2> SUFFICES ASSUME NEW r \in Socket PROVE Strong(r)' => Strong(r)
    OBVIOUS
  <2>1. Holds(t, r)' => Strong(r)
    BY <1>5 DEF Holds, Strong, Ended
  <2>2. QED
    BY <2>1, <1>2, <1>5, StrongKept DEF Others
<1>9. \A u \in Thread, d \in Client : /\ Coming(u, d)' => Coming(u, d)
                                      /\ Queues(u, d)' => Queues(u, d)
                                      /\ Taken(u, d)' => Taken(u, d) \/ (u = t /\ d = c)
  <2>1. \A u \in Thread \ {t}, d \in Client : /\ Coming(u, d)' => Coming(u, d)
                                              /\ Queues(u, d)' => Queues(u, d)
                                              /\ Taken(u, d)' => Taken(u, d)
    BY <1>5 DEF Others, Moves, Coming, Queues, Taken
  <2>2. \A d \in Client : ~Coming(t, d)' /\ ~Queues(t, d)' /\ (Taken(t, d)' => d = c)
    BY <1>5 DEF Coming, Queues, Taken, Ended
  <2>3. QED
    BY <2>1, <2>2
<1>10. \A d \in Client : Linked(d)' <=> Linked(d)
  BY <1>2 DEF Linked
<1>11. \A d \in Client, m \in Listener : InQueue(d, m)' => InQueue(d, m) /\ d # c
  <2> SUFFICES ASSUME NEW d \in Client, NEW m \in Listener, NEW i \in 1 .. Len(pending'[m]), pending'[m][i] = d
               PROVE  InQueue(d, m) /\ d # c
    BY DEF InQueue
  <2>1. m = l
    BY <1>1 DEF OneListener
  <2>2. i + 1 \in 1 .. Len(pending[l]) /\ pending[l][i + 1] = d
    BY <2>1, <1>4
  <2>3. d # c
    <3>1. \A j, k \in 1 .. Len(pending[l]) : pending[l][j] = pending[l][k] => j = k
      BY <1>1 DEF Shape, Once
    <3>2. 1 \in 1 .. Len(pending[l]) /\ i + 1 # 1
      BY <1>4
    <3>3. QED
      BY <1>4, <2>2, <3>1, <3>2
  <2>4. QED
    BY <2>1, <2>2, <2>3 DEF InQueue
<1>12. \A u \in Thread : (pc'[u] = "link" <=> pc[u] = "link") /\ (pc[u] = "link" => with'[u] = with[u])
  BY <1>1, <1>5 DEF Others, Moves, Ended
<1>13. Kinds'
  BY <1>1, <1>2, <1>3 DEF Kinds, Shape
<1>14. Living'
  BY <1>2, <1>8 DEF Living, Shape
<1>15. Once'
  <2>0. Once /\ connection' = connection
    BY <1>2 DEF Shape
  <2>1. ASSUME NEW m \in Listener, NEW i \in 1 .. Len(pending'[m]), NEW j \in 1 .. Len(pending'[m]),
               pending'[m][i] = pending'[m][j]
        PROVE  i = j
    <3>1. m = l
      BY <1>1 DEF OneListener
    <3>2. i + 1 \in 1 .. Len(pending[l]) /\ j + 1 \in 1 .. Len(pending[l])
          /\ pending[l][i + 1] = pending[l][j + 1]
      BY <2>1, <3>1, <1>4
    <3>3. i + 1 = j + 1
      BY <2>0, <3>2, <1>1 DEF Once
    <3>4. QED
      BY <3>3
  <2>2. \A d \in Client, m \in Listener : InQueue(d, m)' =>
          /\ connection'[d] = NoSocket /\ ~Linked(d)'
          /\ \A u \in Thread : ~Coming(u, d)' /\ ~Taken(u, d)'
    BY <2>0, <1>9, <1>10, <1>11 DEF Once
  <2>3. \A u \in Thread, d \in Client : Coming(u, d)' =>
          /\ connection'[d] = NoSocket /\ ~Linked(d)'
          /\ \A v \in Thread : ~Taken(v, d)'
    BY <2>0, <1>7, <1>9, <1>10 DEF Once
  <2>4. \A u \in Thread, d \in Client : Taken(u, d)' =>
          /\ ~Linked(d)'
          /\ pc'[u] = "pair" => connection'[d] = NoSocket
          /\ \A v \in Thread : Taken(v, d)' => v = u
    <3> SUFFICES ASSUME NEW u \in Thread, NEW d \in Client, Taken(u, d)'
                 PROVE  /\ ~Linked(d)'
                        /\ pc'[u] = "pair" => connection'[d] = NoSocket
                        /\ \A v \in Thread : Taken(v, d)' => v = u
      OBVIOUS
    <3>1. CASE d = c
      BY <3>1, <2>0, <1>7, <1>9, <1>10
    <3>2. CASE d # c
      <4>1. Taken(u, d) /\ \A v \in Thread : Taken(v, d)' => Taken(v, d)
        BY <3>2, <1>9
      <4>2. pc'[u] = "pair" => pc[u] = "pair"
        BY <4>1, <3>2, <1>1, <1>5 DEF Others, Moves, Taken, Ended
      <4>3. QED
        BY <4>1, <4>2, <2>0, <1>10 DEF Once
    <3>3. QED
      BY <3>1, <3>2
  <2>5. QED
    BY <2>1, <2>2, <2>3, <2>4 DEF Once
<1>16. Remembered'
  <2> SUFFICES ASSUME NEW d \in Client, NEW m \in Listener,
                      life'[d] = "alive", Strong(m)',
                      (InQueue(d, m) \/ Linked(d) \/ \E u \in Thread : Queues(u, d) \/ Taken(u, d))'
               PROVE  connecting'[d] = m
    BY DEF Remembered
  <2>1. m = l
    BY <1>1 DEF OneListener
  <2>2. InQueue(d, m) \/ Linked(d) \/ \E u \in Thread : Queues(u, d) \/ Taken(u, d)
    BY <2>1, <1>6, <1>9, <1>10, <1>11
  <2>3. connecting[d] = m
    BY <2>2, <1>0, <1>2, <1>8 DEF Shape, Remembered
  <2>4. QED
    BY <2>3, <1>2
<1>17. Mutual'
  <2>1. \A r \in Socket : Linking(r)' <=> Linking(r)
    BY <1>12 DEF Linking
  <2>2. QED
    BY <2>1, <1>2, <1>12 DEF Mutual, Shape
<1>18. HangUpReaches'
  BY <1>2, <1>8 DEF HangUpReaches, Shape
<1>19. QED
  BY <1>13, <1>14, <1>15, <1>16, <1>17, <1>18 DEF Shape

(* accept makes the other end, and the client points to it. *)
LEMMA PairShape ==
  ASSUME TypeOK, TypeOK', ArgInv, Shape, NEW t \in Thread, NEW a \in Accepted, Pair(t, a)
  PROVE  Shape'
<1> USE KindsDiffer
<1> DEFINE c == with[t]
<1>0. \A r \in Client \cup Accepted \cup Listener : r \in Socket
  BY DEF Socket
<1>1. /\ pc[t] = "pair" /\ life[a] = "unborn" /\ a \in Socket
      /\ c \in Client /\ c \in Socket /\ a # c /\ Taken(t, c)
  BY <1>0, TakenFacts DEF Pair, Taken
<1>2. /\ connection[c] = NoSocket /\ Alive(c) /\ ~Linked(c)
      /\ \A u \in Thread : ~Coming(u, c) /\ (Taken(u, c) => u = t)
      /\ \A l \in Listener : ~InQueue(c, l)
  BY <1>1, TakenFacts
<1>3. connection[a] = NoSocket /\ \A r \in Socket : connection[r] # a
  BY <1>1 DEF Shape, Living
<1>4. /\ UNCHANGED <<connecting, pending>>
      /\ open' = open \cup {a}
      /\ life'[a] = "alive" /\ \A r \in Socket : r # a => life'[r] = life[r]
      /\ connection'[c] = a /\ \A r \in Socket : r # c => connection'[r] = connection[r]
  BY <1>1 DEF Pair, TypeOK
<1>5. Others(t, {}) /\ pc'[t] = "link" /\ on'[t] = on[t] /\ with'[t] = c
  BY CallMoves DEF Keeps
<1>6. \A u \in Thread \ {t} : pc[u] = "link" => with[u] \in Client /\ with[u] # c
  <2> SUFFICES ASSUME NEW u \in Thread \ {t}, pc[u] = "link" PROVE with[u] \in Client /\ with[u] # c
    OBVIOUS
  <2>1. with[u] \in Client /\ Taken(u, with[u])
    BY DEF ArgInv, Arguments, Taken
  <2>2. QED
    BY <2>1, <1>2
<1>7. \A u \in Thread \ {t} : /\ pc'[u] = "link" <=> pc[u] = "link"
                              /\ pc'[u] = "pair" <=> pc[u] = "pair"
                              /\ pc'[u] = "queue" <=> pc[u] = "queue"
                              /\ pc'[u] = "claim" <=> pc[u] = "claim"
                              /\ on'[u] = on[u] /\ with'[u] = with[u]
  BY <1>5 DEF Others, Moves
<1>8. \A r \in Socket : Strong(r)' => Strong(r) \/ r = a
  <2> SUFFICES ASSUME NEW r \in Socket, r # a PROVE Strong(r)' => Strong(r)
    OBVIOUS
  <2>1. \A u \in Thread \ {t} : Holds(u, r)' => Holds(u, r)
    BY <1>0, <1>4, <1>6, <1>7 DEF Holds
  <2>2. Holds(t, r)' => Holds(t, r)
    BY <1>4, <1>5 DEF Holds
  <2>3. QED
    BY <2>1, <2>2, <1>4 DEF Strong
<1>9. \A u \in Thread, d \in Client : /\ Coming(u, d)' <=> Coming(u, d)
                                      /\ Queues(u, d)' <=> Queues(u, d)
                                      /\ Taken(u, d)' <=> Taken(u, d)
  BY <1>1, <1>5, <1>7 DEF Coming, Queues, Taken
<1>10. \A d \in Client : Linked(d)' <=> Linked(d)
  BY <1>0, <1>1, <1>4 DEF Linked
<1>11. \A d \in Client, m \in Listener : InQueue(d, m)' <=> InQueue(d, m)
  BY <1>4 DEF InQueue
<1>12. \A r \in Socket : Linking(r) => Linking(r)'
  BY <1>1, <1>7 DEF Linking
<1>13. Kinds'
  BY <1>0, <1>1, <1>4 DEF Kinds, Shape
<1>14. Living'
  <2> SUFFICES ASSUME NEW s \in Socket
               PROVE  /\ Strong(s)' => life'[s] = "alive"
                      /\ life'[s] = "unborn" => connection'[s] = NoSocket /\ \A r \in Socket : connection'[r] # s
    BY DEF Living
  <2>1. CASE s = a
    BY <2>1, <1>4
  <2>2. CASE s # a
    BY <2>2, <1>2, <1>4, <1>8 DEF Shape, Living, Alive
  <2>3. QED
    BY <2>1, <2>2
<1>15. Once'
  <2>0. Once
    BY DEF Shape
  <2>1. \A m \in Listener : \A i, j \in 1 .. Len(pending'[m]) :
          pending'[m][i] = pending'[m][j] => i = j
    BY <2>0, <1>4 DEF Once
  <2>2. \A d \in Client, m \in Listener : InQueue(d, m)' =>
          /\ connection'[d] = NoSocket /\ ~Linked(d)'
          /\ \A u \in Thread : ~Coming(u, d)' /\ ~Taken(u, d)'
    BY <2>0, <1>0, <1>2, <1>4, <1>9, <1>10, <1>11 DEF Once
  <2>3. \A u \in Thread, d \in Client : Coming(u, d)' =>
          /\ connection'[d] = NoSocket /\ ~Linked(d)'
          /\ \A v \in Thread : ~Taken(v, d)'
    BY <2>0, <1>0, <1>2, <1>4, <1>9, <1>10 DEF Once
  <2>4. \A u \in Thread, d \in Client : Taken(u, d)' =>
          /\ ~Linked(d)'
          /\ pc'[u] = "pair" => connection'[d] = NoSocket
          /\ \A v \in Thread : Taken(v, d)' => v = u
    <3> SUFFICES ASSUME NEW u \in Thread, NEW d \in Client, Taken(u, d)'
                 PROVE  /\ ~Linked(d)'
                        /\ pc'[u] = "pair" => connection'[d] = NoSocket
                        /\ \A v \in Thread : Taken(v, d)' => v = u
      OBVIOUS
    <3>1. Taken(u, d) /\ ~Linked(d)' /\ \A v \in Thread : Taken(v, d)' => v = u
      BY <2>0, <1>9, <1>10 DEF Once
    <3>2. pc'[u] = "pair" => u # t /\ pc[u] = "pair"
      BY <1>5, <1>7
    <3>3. u # t => d # c
      BY <3>1, <1>2
    <3>4. QED
      BY <3>1, <3>2, <3>3, <2>0, <1>0, <1>4 DEF Once
  <2>5. QED
    BY <2>1, <2>2, <2>3, <2>4 DEF Once
<1>16. Remembered'
  <2> SUFFICES ASSUME NEW d \in Client, NEW m \in Listener,
                      life'[d] = "alive", Strong(m)',
                      (InQueue(d, m) \/ Linked(d) \/ \E u \in Thread : Queues(u, d) \/ Taken(u, d))'
               PROVE  connecting'[d] = m
    BY DEF Remembered
  <2>1. InQueue(d, m) \/ Linked(d) \/ \E u \in Thread : Queues(u, d) \/ Taken(u, d)
    BY <1>9, <1>10, <1>11
  <2>2. life[d] = "alive" /\ Strong(m)
    BY <1>0, <1>4, <1>8
  <2>3. QED
    BY <2>1, <2>2, <1>4 DEF Shape, Remembered
<1>17. Mutual'
  <2>0. Mutual /\ Kinds
    BY DEF Shape
  <2>1. \A d, e \in Client : connection'[d] = connection'[e] /\ connection'[d] # NoSocket => d = e
    BY <2>0, <1>0, <1>1, <1>3, <1>4 DEF Mutual
  <2>2. \A b, e \in Accepted : connection'[b] = connection'[e] /\ connection'[b] # NoSocket => b = e
    BY <2>0, <1>0, <1>1, <1>4 DEF Mutual
  <2>3. \A u \in Thread : pc'[u] = "link" =>
          /\ connection'[with'[u]] \in Accepted
          /\ connection'[connection'[with'[u]]] = NoSocket
    <3> SUFFICES ASSUME NEW u \in Thread, pc'[u] = "link"
                 PROVE  /\ connection'[with'[u]] \in Accepted
                        /\ connection'[connection'[with'[u]]] = NoSocket
      OBVIOUS
    <3>1. CASE u = t
      BY <3>1, <1>1, <1>3, <1>4, <1>5
    <3>2. CASE u # t
      <4>1. pc[u] = "link" /\ with'[u] = with[u] /\ with[u] \in Client /\ with[u] # c
        BY <3>2, <1>6, <1>7
      <4>2. connection'[with'[u]] = connection[with[u]] /\ connection[with[u]] \in Accepted
            /\ connection[connection[with[u]]] = NoSocket
        BY <4>1, <2>0, <1>0, <1>4 DEF Mutual
      <4>3. QED
        BY <4>2, <1>0, <1>1, <1>4
    <3>3. QED
      BY <3>1, <3>2
  <2>4. ASSUME NEW s \in Socket, life'[s] = "alive", connection'[s] # NoSocket, life'[connection'[s]] = "alive"
        PROVE  connection'[connection'[s]] = s \/ Linking(s)'
    <3>1. CASE s = c
      BY <3>1, <1>1, <1>5 DEF Linking
    <3>2. CASE s # c
      <4>1. s # a /\ connection'[s] = connection[s] /\ connection[s] # a /\ life[s] = "alive"
        BY <2>4, <3>2, <1>3, <1>4
      <4>2. connection[s] \in Socket /\ life[connection[s]] = "alive"
        BY <2>4, <4>1, <1>4 DEF TypeOK
      <4>3. connection[connection[s]] = s \/ Linking(s)
        BY <4>1, <4>2, <2>0, <2>4 DEF Mutual
      <4>4. connection[s] = c => s \in Accepted
        BY <4>1, <1>1, <2>0, <2>4 DEF Kinds, Socket
      <4>5. connection[s] # c
        BY <4>4, <1>2 DEF Linked
      <4>6. QED
        BY <4>1, <4>2, <4>3, <4>5, <1>4, <1>12
    <3>3. QED
      BY <3>1, <3>2
  <2>5. QED
    BY <2>1, <2>2, <2>3, <2>4 DEF Mutual
<1>18. HangUpReaches'
  <2> SUFFICES ASSUME NEW s \in Socket, Strong(s)', connection'[s] # NoSocket
               PROVE  life'[connection'[s]] = "alive"
    BY DEF HangUpReaches
  <2>1. CASE s = c
    BY <2>1, <1>4
  <2>2. CASE s # c
    <3>1. connection'[s] = connection[s] /\ s # a /\ Strong(s)
      BY <2>2, <1>3, <1>4, <1>8
    <3>2. connection[s] \in Socket /\ connection[s] # a /\ life[connection[s]] = "alive"
      BY <3>1, <1>3 DEF Shape, HangUpReaches, TypeOK
    <3>3. QED
      BY <3>1, <3>2, <1>4
  <2>3. QED
    BY <2>1, <2>2
<1>19. QED
  BY <1>13, <1>14, <1>15, <1>16, <1>17, <1>18 DEF Shape

(* accept tells the new socket who its peer is, and lets the client go. *)
LEMMA LinkShape ==
  ASSUME TypeOK, TypeOK', ArgInv, Shape, NEW t \in Thread, Link(t)
  PROVE  Shape'
<1> USE KindsDiffer
<1> DEFINE c == with[t]
           a == connection[c]
<1>0. \A r \in Client \cup Accepted \cup Listener : r \in Socket
  BY DEF Socket
<1>1. /\ pc[t] = "link" /\ c \in Client /\ c \in Socket /\ a \in Accepted /\ a \in Socket
      /\ Alive(c) /\ Alive(a) /\ connection[a] = NoSocket /\ a # c /\ a # NoSocket /\ c # NoSocket
      /\ Taken(t, c) /\ ~Linked(c)
      /\ \A u \in Thread : ~Coming(u, c) /\ (Taken(u, c) => u = t)
      /\ \A l \in Listener : ~InQueue(c, l)
  BY <1>0, TakenFacts DEF Link, Taken
<1>2. Mutual /\ Kinds /\ Once
  BY DEF Shape
<1>3. /\ UNCHANGED <<life, open, connecting, pending>>
      /\ connection'[a] = c /\ \A r \in Socket : r # a => connection'[r] = connection[r]
  BY <1>1 DEF Link, TypeOK
<1>4. /\ Others(t, {c}) /\ pc'[t] \in {"user", "stuck"}
      /\ on'[t] \in {on[t], NoSocket} /\ with'[t] \in {c, NoSocket}
  BY CallMoves DEF Ended, Keeps
<1>5. \A u \in Thread \ {t} : /\ pc'[u] = "link" <=> pc[u] = "link"
                              /\ pc'[u] = "pair" <=> pc[u] = "pair"
                              /\ pc'[u] = "queue" <=> pc[u] = "queue"
                              /\ pc'[u] = "claim" <=> pc[u] = "claim"
                              /\ on'[u] = on[u] /\ with'[u] = with[u]
  BY <1>4 DEF Others, Moves
<1>6. \A u \in Thread \ {t} : pc[u] = "link" =>
        with[u] \in Client /\ with[u] # c /\ connection[with[u]] \in Accepted /\ connection[with[u]] # a
  <2> SUFFICES ASSUME NEW u \in Thread \ {t}, pc[u] = "link"
               PROVE  with[u] \in Client /\ with[u] # c /\ connection[with[u]] \in Accepted /\ connection[with[u]] # a
    OBVIOUS
  <2>1. with[u] \in Client /\ Taken(u, with[u])
    BY DEF ArgInv, Arguments, Taken
  <2>2. with[u] # c
    BY <2>1, <1>1
  <2>3. connection[with[u]] \in Accepted
    BY <1>2 DEF Mutual
  <2>4. connection[with[u]] # connection[c]
    BY <2>1, <2>2, <1>1, <1>2 DEF Mutual
  <2>5. QED
    BY <2>1, <2>2, <2>3, <2>4
<1>7. \A r \in Socket : Strong(r)' => Strong(r)
  <2> SUFFICES ASSUME NEW r \in Socket PROVE Strong(r)' => Strong(r)
    OBVIOUS
  <2>1. \A u \in Thread \ {t} : Holds(u, r)' => Holds(u, r)
    BY <1>0, <1>1, <1>3, <1>5, <1>6 DEF Holds
  <2>2. Holds(t, r)' => Holds(t, r)
    BY <1>4 DEF Holds
  <2>3. QED
    BY <2>1, <2>2, <1>3 DEF Strong
<1>8. \A u \in Thread, d \in Client : /\ Coming(u, d)' => Coming(u, d)
                                      /\ Queues(u, d)' => Queues(u, d)
                                      /\ Taken(u, d)' => Taken(u, d) /\ u # t /\ d # c
  <2>1. \A u \in Thread \ {t}, d \in Client : /\ Coming(u, d)' => Coming(u, d)
                                              /\ Queues(u, d)' => Queues(u, d)
                                              /\ Taken(u, d)' => Taken(u, d)
    BY <1>5 DEF Coming, Queues, Taken
  <2>2. \A d \in Client : ~Coming(t, d)' /\ ~Queues(t, d)' /\ ~Taken(t, d)'
    BY <1>4 DEF Coming, Queues, Taken
  <2>3. \A u \in Thread \ {t}, d \in Client : Taken(u, d) => d # c
    BY <1>1
  <2>4. QED
    BY <2>1, <2>2, <2>3
<1>9. \A d \in Client : Linked(d)' => Linked(d) \/ d = c
  BY <1>0, <1>1, <1>3 DEF Linked
<1>10. \A d \in Client, m \in Listener : InQueue(d, m)' <=> InQueue(d, m)
  BY <1>3 DEF InQueue
<1>11. \A d \in Client : connection'[d] = connection[d]
  BY <1>0, <1>1, <1>3
<1>12. Kinds'
  BY <1>0, <1>1, <1>2, <1>3 DEF Kinds
<1>13. Living'
  <2> SUFFICES ASSUME NEW s \in Socket
               PROVE  /\ Strong(s)' => life'[s] = "alive"
                      /\ life'[s] = "unborn" => connection'[s] = NoSocket /\ \A r \in Socket : connection'[r] # s
    BY DEF Living
  <2>1. Strong(s)' => life'[s] = "alive"
    BY <1>3, <1>7 DEF Shape, Living
  <2>2. ASSUME life'[s] = "unborn" PROVE connection'[s] = NoSocket /\ \A r \in Socket : connection'[r] # s
    <3>1. life[s] = "unborn" /\ s # a /\ s # c
      BY <2>2, <1>1, <1>3 DEF Alive
    <3>2. connection[s] = NoSocket /\ \A r \in Socket : connection[r] # s
      BY <3>1 DEF Shape, Living
    <3>3. QED
      BY <3>1, <3>2, <1>3
  <2>3. QED
    BY <2>1, <2>2
<1>14. Once'
  <2>1. \A m \in Listener : \A i, j \in 1 .. Len(pending'[m]) :
          pending'[m][i] = pending'[m][j] => i = j
    BY <1>2, <1>3 DEF Once
  <2>2. \A d \in Client, m \in Listener : InQueue(d, m)' =>
          /\ connection'[d] = NoSocket /\ ~Linked(d)'
          /\ \A u \in Thread : ~Coming(u, d)' /\ ~Taken(u, d)'
    BY <1>1, <1>2, <1>8, <1>9, <1>10, <1>11 DEF Once
  <2>3. \A u \in Thread, d \in Client : Coming(u, d)' =>
          /\ connection'[d] = NoSocket /\ ~Linked(d)'
          /\ \A v \in Thread : ~Taken(v, d)'
    BY <1>1, <1>2, <1>8, <1>9, <1>11 DEF Once
  <2>4. \A u \in Thread, d \in Client : Taken(u, d)' =>
          /\ ~Linked(d)'
          /\ pc'[u] = "pair" => connection'[d] = NoSocket
          /\ \A v \in Thread : Taken(v, d)' => v = u
    <3> SUFFICES ASSUME NEW u \in Thread, NEW d \in Client, Taken(u, d)'
                 PROVE  /\ ~Linked(d)'
                        /\ pc'[u] = "pair" => connection'[d] = NoSocket
                        /\ \A v \in Thread : Taken(v, d)' => v = u
      OBVIOUS
    <3>1. Taken(u, d) /\ u # t /\ d # c
      BY <1>8
    <3>2. pc'[u] = "pair" => pc[u] = "pair"
      BY <3>1, <1>5
    <3>3. QED
      BY <3>1, <3>2, <1>2, <1>8, <1>9, <1>11 DEF Once
  <2>5. QED
    BY <2>1, <2>2, <2>3, <2>4 DEF Once
<1>15. Remembered'
  <2> SUFFICES ASSUME NEW d \in Client, NEW m \in Listener,
                      life'[d] = "alive", Strong(m)',
                      (InQueue(d, m) \/ Linked(d) \/ \E u \in Thread : Queues(u, d) \/ Taken(u, d))'
               PROVE  connecting'[d] = m
    BY DEF Remembered
  <2>1. InQueue(d, m) \/ Linked(d) \/ \E u \in Thread : Queues(u, d) \/ Taken(u, d)
    BY <1>1, <1>8, <1>9, <1>10
  <2>2. connecting[d] = m
    BY <2>1, <1>0, <1>3, <1>7 DEF Shape, Remembered
  <2>3. QED
    BY <2>2, <1>3
<1>16. Mutual'
  <2>1. \A d, e \in Client : connection'[d] = connection'[e] /\ connection'[d] # NoSocket => d = e
    BY <1>2, <1>11 DEF Mutual
  <2>2. \A b, e \in Accepted : connection'[b] = connection'[e] /\ connection'[b] # NoSocket => b = e
    <3>1. \A b \in Accepted : connection[b] # c
      BY <1>1 DEF Linked
    <3>2. QED
      BY <3>1, <1>0, <1>2, <1>3 DEF Mutual
  <2>3. \A u \in Thread : pc'[u] = "link" =>
          /\ connection'[with'[u]] \in Accepted
          /\ connection'[connection'[with'[u]]] = NoSocket
    <3> SUFFICES ASSUME NEW u \in Thread, pc'[u] = "link"
                 PROVE  /\ connection'[with'[u]] \in Accepted
                        /\ connection'[connection'[with'[u]]] = NoSocket
      OBVIOUS
    <3>1. u # t
      BY <1>4
    <3>2. pc[u] = "link" /\ with'[u] = with[u] /\ with[u] \in Client /\ connection[with[u]] # a
      BY <3>1, <1>5, <1>6
    <3>3. connection[with[u]] \in Accepted /\ connection[connection[with[u]]] = NoSocket
      BY <3>2, <1>2 DEF Mutual
    <3>4. QED
      BY <3>2, <3>3, <1>0, <1>3, <1>11
  <2>4. ASSUME NEW s \in Socket, life'[s] = "alive", connection'[s] # NoSocket, life'[connection'[s]] = "alive"
        PROVE  connection'[connection'[s]] = s \/ Linking(s)'
    <3>1. CASE s = c
      BY <3>1, <1>1, <1>3
    <3>2. CASE s = a
      BY <3>2, <1>1, <1>3
    <3>3. CASE s # c /\ s # a
      <4>1. connection'[s] = connection[s] /\ life[s] = "alive" /\ life[connection[s]] = "alive"
            /\ connection[s] \in Socket
        BY <2>4, <3>3, <1>3 DEF TypeOK
      <4>2. connection[connection[s]] = s \/ Linking(s)
        BY <4>1, <2>4, <1>2 DEF Mutual
      <4>3. connection[s] = a => s \in Client
        BY <1>0, <1>1, <1>2 DEF Kinds, Socket
      <4>4. connection[s] # a
        BY <4>3, <3>3, <1>1, <1>2 DEF Mutual
      <4>5. Linking(s) => Linking(s)'
        BY <3>3, <1>5 DEF Linking
      <4>6. QED
        BY <4>1, <4>2, <4>4, <4>5, <1>3
    <3>4. QED
      BY <3>1, <3>2, <3>3
  <2>5. QED
    BY <2>1, <2>2, <2>3, <2>4 DEF Mutual
<1>17. HangUpReaches'
  <2> SUFFICES ASSUME NEW s \in Socket, Strong(s)', connection'[s] # NoSocket
               PROVE  life'[connection'[s]] = "alive"
    BY DEF HangUpReaches
  <2>1. CASE s = a
    BY <2>1, <1>1, <1>3 DEF Alive
  <2>2. CASE s # a
    BY <2>2, <1>3, <1>7 DEF Shape, HangUpReaches
  <2>3. QED
    BY <2>1, <2>2
<1>18. QED
  BY <1>12, <1>13, <1>14, <1>15, <1>16, <1>17 DEF Shape

(* A destructor that unlinks at most one socket, the peer of its own. *)
LEMMA HangUpShape ==
  ASSUME TypeOK, TypeOK', ArgInv, Shape, NEW s \in Socket, HangUp(s)
  PROVE  Shape'
<1> USE KindsDiffer
<1>0. \A r \in Client \cup Accepted \cup Listener : r \in Socket
  BY DEF Socket
<1>1. ~Strong(s) /\ Alive(s)
  BY DEF HangUp, Alive
<1>2. /\ UNCHANGED <<open, connecting, pending>>
      /\ life'[s] = "hung up" /\ \A r \in Socket : r # s => life'[r] = life[r]
  BY DEF HangUp, TypeOK
<1>3. PICK y \in Socket \cup {NoSocket} :
        /\ \A r \in Socket : /\ r = y => connection'[r] = NoSocket /\ connection[r] = s
                             /\ r # y => connection'[r] = connection[r]
        /\ \A u \in Thread : ~(pc[u] = "link" /\ with[u] = y)
        /\ \A r \in Socket : Strong(r) /\ connection[r] = s => r = y
        /\ \E S : \A u \in Thread : Moves(u, S)
  <2>0. ASSUME NEW r \in Socket, Strong(r), connection[r] = s
        PROVE  connection[s] = r
    <3>1. ~Linking(r)
      BY <2>0, <1>1 DEF Linking, Strong, Holds
    <3>2. Alive(r)
      BY <2>0 DEF Shape, Living, Alive
    <3>3. QED
      BY <2>0, <3>1, <3>2, <1>1 DEF Shape, Mutual, Alive
  <2>1. CASE Lock(connection[s]) = NoSocket
    <3>1. UNCHANGED connection
      BY <2>1 DEF HangUp
    <3>2. \A u \in Thread : Moves(u, {})
      BY <2>1, DestroyMoves
    <3>3. \A r \in Socket : ~(Strong(r) /\ connection[r] = s)
      BY <2>0, <2>1, <1>0 DEF Lock
    <3>4. \A u \in Thread : ~(pc[u] = "link" /\ with[u] = NoSocket)
      BY <1>0 DEF ArgInv, Arguments
    <3>5. \A r \in Socket : r # NoSocket
      OBVIOUS
    <3>6. QED
      BY <3>1, <3>2, <3>3, <3>4, <3>5
  <2>2. CASE Lock(connection[s]) # NoSocket
    <3> DEFINE y == connection[s]
    <3>1. /\ y \in Socket /\ connection[y] = s /\ Free(y)
          /\ connection' = [connection EXCEPT ![y] = NoSocket]
          /\ \A u \in Thread : Moves(u, {y})
      BY <2>2, HangUpFacts
    <3>2. \A r \in Socket : /\ r = y => connection'[r] = NoSocket /\ connection[r] = s
                            /\ r # y => connection'[r] = connection[r]
      BY <3>1 DEF TypeOK
    <3>3. \A r \in Socket : Strong(r) /\ connection[r] = s => r = y
      BY <2>0
    <3> HIDE DEF y
    <3>4. QED
      BY <3>1, <3>2, <3>3 DEF Free
  <2>3. QED
    BY <2>1, <2>2
<1>4. \A r \in Socket : connection'[r] # NoSocket => connection'[r] = connection[r] /\ r # y
  BY <1>3
<1>5. \A u \in Thread : /\ pc'[u] = "link" <=> pc[u] = "link"
                        /\ pc'[u] = "pair" <=> pc[u] = "pair"
                        /\ pc'[u] = "queue" <=> pc[u] = "queue"
                        /\ pc'[u] = "claim" <=> pc[u] = "claim"
                        /\ on'[u] = on[u] /\ with'[u] = with[u]
  BY <1>3 DEF Moves
<1>6. \A u \in Thread : pc[u] = "link" => /\ with[u] \in Socket /\ with[u] # y
                                          /\ connection'[with[u]] = connection[with[u]]
  BY <1>0, <1>3 DEF ArgInv, Arguments
<1>7. \A r \in Socket : Strong(r)' => Strong(r)
  <2>1. \A r \in Socket, u \in Thread : Holds(u, r)' => Holds(u, r)
    BY <1>5, <1>6 DEF Holds
  <2>2. QED
    BY <2>1, <1>2 DEF Strong
<1>8. \A u \in Thread, d \in Client : /\ Coming(u, d)' <=> Coming(u, d)
                                      /\ Queues(u, d)' <=> Queues(u, d)
                                      /\ Taken(u, d)' <=> Taken(u, d)
  BY <1>5 DEF Coming, Queues, Taken
<1>9. \A d \in Client : Linked(d)' => Linked(d)
  BY <1>0, <1>4 DEF Linked
<1>10. \A d \in Client, m \in Listener : InQueue(d, m)' <=> InQueue(d, m)
  BY <1>2 DEF InQueue
<1>11. \A r \in Socket : connection[r] = NoSocket => connection'[r] = NoSocket
  BY <1>3
<1>12. \A r \in Socket : /\ life'[r] = "alive" => life[r] = "alive" /\ r # s
                         /\ life'[r] = "unborn" => life[r] = "unborn"
  BY <1>2
<1>13. Kinds'
  BY <1>0, <1>2, <1>3 DEF Kinds, Shape
<1>14. Living'
  <2> SUFFICES ASSUME NEW r \in Socket
               PROVE  /\ Strong(r)' => life'[r] = "alive"
                      /\ life'[r] = "unborn" => connection'[r] = NoSocket /\ \A q \in Socket : connection'[q] # r
    BY DEF Living
  <2>1. Strong(r)' => life'[r] = "alive"
    BY <1>1, <1>2, <1>7 DEF Shape, Living
  <2>2. life'[r] = "unborn" => connection'[r] = NoSocket /\ \A q \in Socket : connection'[q] # r
    BY <1>3, <1>11, <1>12 DEF Shape, Living
  <2>3. QED
    BY <2>1, <2>2
<1>15. Once'
  <2>0. Once
    BY DEF Shape
  <2>1. \A m \in Listener : \A i, j \in 1 .. Len(pending'[m]) :
          pending'[m][i] = pending'[m][j] => i = j
    BY <2>0, <1>2 DEF Once
  <2>2. \A d \in Client, m \in Listener : InQueue(d, m)' =>
          /\ connection'[d] = NoSocket /\ ~Linked(d)'
          /\ \A u \in Thread : ~Coming(u, d)' /\ ~Taken(u, d)'
    BY <2>0, <1>0, <1>8, <1>9, <1>10, <1>11 DEF Once
  <2>3. \A u \in Thread, d \in Client : Coming(u, d)' =>
          /\ connection'[d] = NoSocket /\ ~Linked(d)'
          /\ \A v \in Thread : ~Taken(v, d)'
    BY <2>0, <1>0, <1>8, <1>9, <1>11 DEF Once
  <2>4. \A u \in Thread, d \in Client : Taken(u, d)' =>
          /\ ~Linked(d)'
          /\ pc'[u] = "pair" => connection'[d] = NoSocket
          /\ \A v \in Thread : Taken(v, d)' => v = u
    BY <2>0, <1>0, <1>5, <1>8, <1>9, <1>11 DEF Once
  <2>5. QED
    BY <2>1, <2>2, <2>3, <2>4 DEF Once
<1>16. Remembered'
  <2> SUFFICES ASSUME NEW d \in Client, NEW m \in Listener,
                      life'[d] = "alive", Strong(m)',
                      (InQueue(d, m) \/ Linked(d) \/ \E u \in Thread : Queues(u, d) \/ Taken(u, d))'
               PROVE  connecting'[d] = m
    BY DEF Remembered
  <2>1. InQueue(d, m) \/ Linked(d) \/ \E u \in Thread : Queues(u, d) \/ Taken(u, d)
    BY <1>8, <1>9, <1>10
  <2>2. connecting[d] = m
    BY <2>1, <1>0, <1>7, <1>12 DEF Shape, Remembered
  <2>3. QED
    BY <2>2, <1>2
<1>17. Mutual'
  <2>0. Mutual
    BY DEF Shape
  <2>1. \A d, e \in Client : connection'[d] = connection'[e] /\ connection'[d] # NoSocket => d = e
    BY <2>0, <1>0, <1>4 DEF Mutual
  <2>2. \A b, e \in Accepted : connection'[b] = connection'[e] /\ connection'[b] # NoSocket => b = e
    BY <2>0, <1>0, <1>4 DEF Mutual
  <2>3. \A u \in Thread : pc'[u] = "link" =>
          /\ connection'[with'[u]] \in Accepted
          /\ connection'[connection'[with'[u]]] = NoSocket
    BY <2>0, <1>0, <1>5, <1>6, <1>11 DEF Mutual
  <2>4. ASSUME NEW r \in Socket, life'[r] = "alive", connection'[r] # NoSocket, life'[connection'[r]] = "alive"
        PROVE  connection'[connection'[r]] = r \/ Linking(r)'
    <3>1. connection'[r] = connection[r] /\ connection[r] \in Socket /\ r # s /\ connection[r] # s
      BY <2>4, <1>4, <1>12 DEF TypeOK
    <3>2. connection[connection[r]] = r \/ Linking(r)
      BY <2>4, <3>1, <2>0, <1>12 DEF Mutual
    <3>3. Linking(r) => Linking(r)'
      BY <1>5 DEF Linking
    <3>4. connection[r] = y => connection[connection[r]] = s
      BY <3>1, <1>3
    <3>5. QED
      BY <3>1, <3>2, <3>3, <3>4, <1>3
  <2>5. QED
    BY <2>1, <2>2, <2>3, <2>4 DEF Mutual
<1>18. HangUpReaches'
  <2> SUFFICES ASSUME NEW r \in Socket, Strong(r)', connection'[r] # NoSocket
               PROVE  life'[connection'[r]] = "alive"
    BY DEF HangUpReaches
  <2>1. Strong(r) /\ connection'[r] = connection[r] /\ r # y /\ connection[r] \in Socket
    BY <1>4, <1>7 DEF TypeOK
  <2>2. connection[r] # s
    BY <2>1, <1>3
  <2>3. life[connection[r]] = "alive"
    BY <2>1 DEF Shape, HangUpReaches
  <2>4. QED
    BY <2>1, <2>2, <2>3, <1>2
<1>19. QED
  BY <1>13, <1>14, <1>15, <1>16, <1>17, <1>18 DEF Shape

(* Every step keeps the shape of the links. *)
LEMMA ShapeStep ==
  ASSUME TypeOK, TypeOK', ArgInv, Shape, OneListener, OneConnector, [Next]_vars
  PROVE  Shape'
<1>q. Quiet => Shape'
  BY QuietStill, StillShape DEF Shape
<1>1. ASSUME NEW t \in Thread, Starts(t)
      PROVE  Shape'
  <2>1. CASE \E c \in Client, l \in Listener : Connect(t, c, l) /\ pc'[t] = "claim"
    BY <2>1, ConnectShape
  <2>2. CASE ~\E c \in Client, l \in Listener : Connect(t, c, l) /\ pc'[t] = "claim"
    BY <2>2, <1>1, <1>q DEF Starts, Quiet
  <2>3. QED
    BY <2>1, <2>2
<1>2. ASSUME NEW t \in Thread, Continues(t) \/ Stir(t) \/ Interrupt(t)
      PROVE  Shape'
  <2>1. CASE Look(t)
    BY <2>1, <1>q, LookShape DEF Quiet
  <2>2. CASE ConnectWait(t) \/ ConnectWoken(t) \/ Stir(t) \/ Interrupt(t) \/ ShutdownPeer(t)
    BY <2>2, <1>q DEF Quiet
  <2>3. QED
    BY <1>2, <2>1, <2>2, ClaimShape, QueueShape, PairShape, LinkShape DEF Continues
<1>3. ASSUME NEW s \in Socket, Destroys(s)
      PROVE  Shape'
  BY <1>3, <1>q, HangUpShape DEF Destroys, Quiet
<1>4. CASE UNCHANGED vars
  BY <1>4, <1>q DEF Quiet
<1>5. QED
  BY <1>1, <1>2, <1>3, <1>4 DEF Next

-----------------------------------------------------------------------------
(* What is closed *)

(* Both ends agree on what is closed, but for a shutdown on its way. *)
LEMMA AgreedStep ==
  ASSUME TypeOK, TypeOK', ArgInv, HoldsEnds, Shape, Agreed, Clean, [Next]_vars
  PROVE  Agreed' /\ Clean'
<1> USE KindsDiffer
<1>0. \A r \in Client \cup Accepted \cup Listener : r \in Socket
  BY DEF Socket
<1>k. Kinds /\ Mutual /\ Living
  BY DEF Shape
<1>f. ASSUME UNCHANGED <<connection, inClosed, outClosed>>,
             \A r \in Socket : /\ life'[r] = "alive" => life[r] = "alive"
                               /\ life'[r] = "unborn" => life[r] = "unborn",
             \A u \in Thread : /\ pc[u] \in How => pc'[u] = pc[u] /\ on'[u] = on[u]
                               /\ pc'[u] = "link" => pc[u] = "link" /\ with'[u] = with[u]
      PROVE  Agreed' /\ Clean'
  <2>1. ASSUME NEW s \in Socket, NEW p \in Socket, Agrees(s, p) PROVE Agrees(s, p)'
    BY <1>f, <2>1 DEF Agrees, How
  <2>2. Agreed'
    BY <1>f, <2>1 DEF Agreed, Alive
  <2>3. \A c \in Client : Linked(c)' <=> Linked(c)
    BY <1>f DEF Linked
  <2>4. Clean'
    BY <1>f, <2>3, <1>0 DEF Clean, Alive
  <2>5. QED
    BY <2>2, <2>4
<1>t. ASSUME NEW t \in Thread, NEW S, Others(t, S), pc[t] \notin How, pc'[t] # "link",
             UNCHANGED <<connection, inClosed, outClosed, life>>
      PROVE  Agreed' /\ Clean'
  <2>1. \A u \in Thread : /\ pc[u] \in How => pc'[u] = pc[u] /\ on'[u] = on[u]
                          /\ pc'[u] = "link" => pc[u] = "link" /\ with'[u] = with[u]
    BY <1>t DEF Others, Moves, How
  <2>2. QED
    BY <1>t, <2>1, <1>f
<1>1. ASSUME NEW t \in Thread, Starts(t), \A s \in Socket, how \in How : ~Shutdown(t, s, how)
      PROVE  Agreed' /\ Clean'
  <2>1. CASE \E c \in Client, l \in Listener : Connect(t, c, l)
    <3>1. PICK c \in Client, l \in Listener : Connect(t, c, l)
      BY <2>1
    <3>2. pc[t] \notin How
      BY <3>1 DEF Connect, How
    <3>3. QED
      BY <3>1, <3>2, <1>t, CallMoves
  <2>2. CASE \E l \in Listener : Accept(t, l)
    BY <2>2, <1>t, CallMoves DEF Accept, links, flags, How
  <2>3. CASE \E s \in Socket : Write(t, s) \/ Close(t, s)
    BY <2>3, <1>t, CallMoves DEF Write, Close, links, flags, How
  <2>4. QED
    BY <1>1, <2>1, <2>2, <2>3 DEF Starts
<1>2. ASSUME NEW t \in Thread, \/ Claim(t) \/ Queue(t) \/ ConnectWait(t) \/ ConnectWoken(t)
                                \/ Stir(t) \/ Interrupt(t) \/ Look(t)
      PROVE  Agreed' /\ Clean'
  <2>1. UNCHANGED <<connection, inClosed, outClosed, life>>
    BY <1>2 DEF Claim, Queue, ConnectWait, ConnectWoken, Stir, Interrupt, Look, links, flags
  <2>2. pc[t] \notin How
    BY <1>2 DEF Claim, Queue, ConnectWait, ConnectWoken, Stir, Interrupt, Look, How, Asleep
  <2>3. pc'[t] # "link" /\ \E S : Others(t, S)
    <3>1. CASE Stir(t)
      BY <3>1, CallMoves DEF Stir, Asleep, Moves
    <3>2. CASE ~Stir(t)
      BY <1>2, <3>2, CallMoves DEF Ended
    <3>3. QED
      BY <3>1, <3>2
  <2>4. QED
    BY <2>1, <2>2, <2>3, <1>t
<1>c. ASSUME NEW s \in Socket, NEW i \in BOOLEAN, NEW o \in BOOLEAN, CloseDirections(s, i, o)
      PROVE  \A r \in Socket : /\ inClosed'[r] <=> inClosed[r] \/ (r = s /\ i)
                               /\ outClosed'[r] <=> outClosed[r] \/ (r = s /\ o)
  BY <1>c DEF CloseDirections, TypeOK
<1>l. ASSUME NEW s \in Socket, connection[s] \in Socket, Alive(s), connection[connection[s]] = s
      PROVE  /\ s \in Client => Linked(s)
             /\ \A u \in Thread : pc[u] = "link" => connection[with[u]] # s
  BY <1>l, <1>0, <1>k DEF Kinds, Mutual, Linked, Socket
<1>d. ASSUME UNCHANGED <<connection, life>>, NEW s \in Socket,
             Alive(s), connection[s] \in Socket, connection[connection[s]] = s,
             \A r \in Socket : r # s => /\ inClosed'[r] <=> inClosed[r]
                                        /\ outClosed'[r] <=> outClosed[r],
             \A u \in Thread : pc'[u] = "link" => pc[u] = "link" /\ with'[u] = with[u]
      PROVE  Clean'
  <2>1. \A c \in Client : Linked(c)' <=> Linked(c)
    BY <1>d DEF Linked
  <2>2. /\ s \in Client => Linked(s)
        /\ \A u \in Thread : pc[u] = "link" => connection[with[u]] # s
    BY <1>d, <1>l
  <2>3. \A u \in Thread : pc[u] = "link" => connection[with[u]] \in Socket
    BY <1>0, <1>k DEF Mutual
  <2>4. QED
    BY <1>0, <1>d, <2>1, <2>2, <2>3 DEF Clean, Alive
<1>3. ASSUME NEW t \in Thread, NEW s \in Socket, NEW how \in How, Shutdown(t, s, how)
      PROVE  Agreed' /\ Clean'
  <2>1. /\ CloseDirections(s, how # "SHUT_WR", how # "SHUT_RD") /\ UNCHANGED <<connection, life>>
        /\ pc[t] = "user"
    BY <1>3 DEF Shutdown, links
  <2>2. \A r \in Socket : /\ inClosed'[r] <=> inClosed[r] \/ (r = s /\ how # "SHUT_WR")
                          /\ outClosed'[r] <=> outClosed[r] \/ (r = s /\ how # "SHUT_RD")
    BY <2>1, <1>c
  <2>3. Others(t, {s}) /\ pc'[t] = how /\ on'[t] = s
    BY <1>3, CallMoves
  <2>4. \A u \in Thread : pc[u] \in How => pc'[u] = pc[u] /\ on'[u] = on[u]
    BY <2>1, <2>3 DEF Others, Moves, How
  <2>5. ASSUME NEW r \in Socket, NEW p \in Socket, Agrees(r, p) PROVE Agrees(r, p)'
    <3>1. ASSUME outClosed'[r], ~inClosed'[p]
          PROVE  \E u \in Thread : pc'[u] \in {"SHUT_WR", "SHUT_RDWR"} /\ on'[u] = r
      <4>1. CASE outClosed[r]
        BY <2>2, <2>4, <2>5, <3>1, <4>1 DEF Agrees, How
      <4>2. CASE ~outClosed[r]
        BY <2>2, <2>3, <3>1, <4>2 DEF How
      <4>3. QED
        BY <4>1, <4>2
    <3>2. ASSUME inClosed'[p], ~outClosed'[r]
          PROVE  \E u \in Thread : pc'[u] \in {"SHUT_RD", "SHUT_RDWR"} /\ on'[u] = p
      <4>1. CASE inClosed[p]
        BY <2>2, <2>4, <2>5, <3>2, <4>1 DEF Agrees, How
      <4>2. CASE ~inClosed[p]
        BY <2>2, <2>3, <3>2, <4>2 DEF How
      <4>3. QED
        BY <4>1, <4>2
    <3>3. QED
      BY <3>1, <3>2 DEF Agrees
  <2>6. Agreed'
    BY <2>1, <2>5 DEF Agreed, Alive
  <2>7. Strong(s) /\ Strong(connection[s]) /\ connection[s] \in Socket /\ connection[s] # NoSocket /\ ~Linking(s)
    BY <1>3 DEF Shutdown, Lock, Strong, TypeOK, Free, Linking
  <2>8. Alive(s) /\ connection[connection[s]] = s
    BY <2>7, <1>k DEF Living, Mutual, Alive
  <2>9. \A u \in Thread : pc'[u] = "link" => pc[u] = "link" /\ with'[u] = with[u]
    BY <2>3 DEF Others, Moves, How
  <2>10. Clean'
    BY <2>1, <2>2, <2>7, <2>8, <2>9, <1>d
  <2>11. QED
    BY <2>6, <2>10
<1>4. ASSUME NEW t \in Thread, ShutdownPeer(t)
      PROVE  Agreed' /\ Clean'
  <2> DEFINE s == on[t]
             p == with[t]
             how == pc[t]
  <2>1. /\ CloseDirections(p, how # "SHUT_RD", how # "SHUT_WR") /\ UNCHANGED <<connection, life>>
        /\ how \in How /\ s \in Socket /\ p \in Socket
        /\ connection[s] = p /\ connection[p] = s
        /\ how # "SHUT_WR" => inClosed[s]
        /\ how # "SHUT_RD" => outClosed[s]
    BY <1>4 DEF ShutdownPeer, links, ArgInv, Arguments, HoldsEnds, Ends
  <2>2. \A r \in Socket : /\ inClosed'[r] <=> inClosed[r] \/ (r = p /\ how # "SHUT_RD")
                          /\ outClosed'[r] <=> outClosed[r] \/ (r = p /\ how # "SHUT_WR")
    BY <2>1, <1>c
  <2>3. Others(t, {p}) /\ Ended(t)'
    BY <1>4, CallMoves
  <2>4. \A u \in Thread \ {t} : pc[u] \in How => pc'[u] = pc[u] /\ on'[u] = on[u]
    BY <2>3 DEF Others, Moves, How
  <2>5. ASSUME NEW r \in Socket, NEW q \in Socket, Agrees(r, q), connection[r] = q, connection[q] = r
        PROVE  Agrees(r, q)'
    <3>1. ASSUME outClosed'[r], ~inClosed'[q]
          PROVE  \E u \in Thread : pc'[u] \in {"SHUT_WR", "SHUT_RDWR"} /\ on'[u] = r
      <4>1. outClosed[r] /\ ~inClosed[q]
        BY <2>1, <2>2, <2>5, <3>1
      <4>2. PICK u \in Thread : pc[u] \in {"SHUT_WR", "SHUT_RDWR"} /\ on[u] = r
        BY <2>5, <4>1 DEF Agrees
      <4>3. u # t
        BY <2>1, <2>2, <2>5, <3>1, <4>2
      <4>4. QED
        BY <2>4, <4>2, <4>3 DEF How
    <3>2. ASSUME inClosed'[q], ~outClosed'[r]
          PROVE  \E u \in Thread : pc'[u] \in {"SHUT_RD", "SHUT_RDWR"} /\ on'[u] = q
      <4>1. inClosed[q] /\ ~outClosed[r]
        BY <2>1, <2>2, <2>5, <3>2
      <4>2. PICK u \in Thread : pc[u] \in {"SHUT_RD", "SHUT_RDWR"} /\ on[u] = q
        BY <2>5, <4>1 DEF Agrees
      <4>3. u # t
        BY <2>1, <2>2, <2>5, <3>2, <4>2
      <4>4. QED
        BY <2>4, <4>2, <4>3 DEF How
    <3>3. QED
      BY <3>1, <3>2 DEF Agrees
  <2>6. Agreed'
    BY <2>1, <2>5 DEF Agreed, Alive
  <2>7. Alive(p)
    BY <2>1, <1>k DEF Living, Alive, Strong, Holds
  <2>8. \A u \in Thread : pc'[u] = "link" => pc[u] = "link" /\ with'[u] = with[u]
    BY <2>3 DEF Others, Moves, Ended
  <2>9. Clean'
    BY <2>1, <2>2, <2>7, <2>8, <1>d
  <2>10. QED
    BY <2>6, <2>9
<1>5. ASSUME NEW t \in Thread, NEW a \in Accepted, Pair(t, a)
      PROVE  Agreed' /\ Clean'
  <2> DEFINE c == with[t]
  <2>1. /\ life[a] = "unborn" /\ a \in Socket /\ c \in Client /\ c \in Socket /\ a # c
        /\ connection[c] = NoSocket /\ pc[t] = "pair"
    BY <1>5, <1>0, TakenFacts DEF Pair
  <2>2. connection[a] = NoSocket /\ \A r \in Socket : connection[r] # a
    BY <2>1, <1>k DEF Living
  <2>3. /\ UNCHANGED <<inClosed, outClosed>>
        /\ life'[a] = "alive" /\ \A r \in Socket : r # a => life'[r] = life[r]
        /\ connection'[c] = a /\ \A r \in Socket : r # c => connection'[r] = connection[r]
    BY <1>5, <2>1 DEF Pair, TypeOK, flags
  <2>4. Others(t, {}) /\ pc'[t] = "link" /\ with'[t] = c
    BY <1>5, CallMoves DEF Keeps
  <2>5. \A u \in Thread \ {t} : /\ pc[u] \in How => pc'[u] = pc[u] /\ on'[u] = on[u]
                                /\ pc'[u] = "link" => pc[u] = "link" /\ with'[u] = with[u]
    BY <2>4 DEF Others, Moves, How
  <2>6. ASSUME NEW r \in Socket, NEW q \in Socket, Agrees(r, q) PROVE Agrees(r, q)'
    <3>1. \A u \in Thread : pc[u] \in How => pc'[u] = pc[u] /\ on'[u] = on[u]
      BY <2>1, <2>5 DEF How
    <3>2. QED
      BY <2>3, <2>6, <3>1 DEF Agrees, How
  <2>7. \A r, q \in Socket : connection'[r] = q /\ connection'[q] = r => r # c /\ q # c /\ r # a /\ q # a
    BY <2>1, <2>2, <2>3
  <2>8. Agreed'
    BY <2>3, <2>6, <2>7 DEF Agreed, Alive
  <2>9. \A d \in Client : Linked(d)' <=> Linked(d)
    BY <1>0, <2>1, <2>3 DEF Linked
  <2>10. \A u \in Thread \ {t} : pc[u] = "link" => with[u] \in Socket /\ (with[u] # c)
    <3>1. \A u \in Thread \ {t} : pc[u] = "link" => with[u] \in Client /\ Taken(u, with[u])
      BY DEF ArgInv, Arguments, Taken
    <3>2. \A u \in Thread : Taken(u, c) => u = t
      BY <2>1, TakenFacts
    <3>3. QED
      BY <3>1, <3>2, <1>0
  <2>11. \A u \in Thread : pc'[u] = "link" => ~inClosed'[connection'[with'[u]]] /\ ~outClosed'[connection'[with'[u]]]
    BY <2>1, <2>3, <2>4, <2>5, <2>10 DEF Clean
  <2>12. /\ \A d \in Client : Alive(d)' /\ ~Linked(d)' => ~inClosed'[d] /\ ~outClosed'[d]
         /\ \A b \in Accepted : life'[b] = "unborn" => ~inClosed'[b] /\ ~outClosed'[b]
    BY <1>0, <2>3, <2>9 DEF Clean, Alive
  <2>13. QED
    BY <2>8, <2>11, <2>12 DEF Clean
<1>6. ASSUME NEW t \in Thread, Link(t)
      PROVE  Agreed' /\ Clean'
  <2> DEFINE c == with[t]
             a == connection[c]
  <2>1. /\ pc[t] = "link" /\ c \in Client /\ c \in Socket /\ a \in Accepted /\ a \in Socket
        /\ Alive(c) /\ Alive(a) /\ connection[a] = NoSocket /\ ~Linked(c)
    BY <1>6, TakenFacts DEF Link
  <2>2. ~inClosed[c] /\ ~outClosed[c] /\ ~inClosed[a] /\ ~outClosed[a]
    BY <2>1 DEF Clean
  <2>3. /\ UNCHANGED <<inClosed, outClosed, life>>
        /\ connection'[a] = c /\ \A r \in Socket : r # a => connection'[r] = connection[r]
    BY <1>6, <2>1 DEF Link, TypeOK
  <2>4. Others(t, {c}) /\ pc'[t] \in {"user", "stuck"}
    BY <1>6, CallMoves DEF Ended
  <2>5. \A u \in Thread : /\ pc[u] \in How => pc'[u] = pc[u] /\ on'[u] = on[u]
                          /\ pc'[u] = "link" => pc[u] = "link" /\ with'[u] = with[u]
    BY <2>1, <2>4 DEF Others, Moves, How
  <2>6. ASSUME NEW r \in Socket, NEW q \in Socket, Agrees(r, q) PROVE Agrees(r, q)'
    BY <2>3, <2>5, <2>6 DEF Agrees, How
  <2>7. ASSUME NEW r \in {a, c}, NEW q \in {a, c} PROVE Agrees(r, q)'
    BY <2>2, <2>3 DEF Agrees
  <2>8. \A r, q \in Socket : connection'[r] = q /\ connection'[q] = r =>
          \/ r = a /\ q = c
          \/ r = c /\ q = a
          \/ connection[r] = q /\ connection[q] = r
    BY <2>1, <2>3
  <2>9. Agreed'
    <3> SUFFICES ASSUME NEW r \in Socket, NEW q \in Socket, Alive(r)', Alive(q)', connection'[r] = q, connection'[q] = r
                 PROVE  Agrees(r, q)'
      BY DEF Agreed
    <3>1. CASE connection[r] = q /\ connection[q] = r
      BY <3>1, <2>3, <2>6 DEF Agreed, Alive
    <3>2. QED
      BY <3>1, <2>7, <2>8
  <2>10. \A d \in Client : Linked(d) => Linked(d)'
    BY <1>0, <2>1, <2>3 DEF Linked
  <2>11. \A u \in Thread : pc[u] = "link" => connection'[with[u]] = connection[with[u]]
    BY <1>0, <2>1, <2>3 DEF ArgInv, Arguments
  <2>12. Clean'
    BY <2>3, <2>5, <2>10, <2>11 DEF Clean, Alive
  <2>13. QED
    BY <2>9, <2>12
<1>7. ASSUME NEW s \in Socket, HangUp(s)
      PROVE  Agreed' /\ Clean'
  <2>0. life'[s] = "hung up" /\ \A r \in Socket : r # s => life'[r] = life[r]
    BY <1>7 DEF HangUp, TypeOK
  <2>1. CASE Lock(connection[s]) = NoSocket
    <3>1. UNCHANGED <<connection, inClosed, outClosed>>
      BY <1>7, <2>1 DEF HangUp
    <3>2. \A u \in Thread : Moves(u, {})
      BY <1>7, <2>1, DestroyMoves
    <3>3. QED
      BY <2>0, <3>1, <3>2, <1>f DEF Moves, How
  <2>2. CASE Lock(connection[s]) # NoSocket
    <3>0. PICK y : y = connection[s]
      OBVIOUS
    <3>1. /\ y \in Socket /\ y # s /\ Strong(y) /\ Alive(y) /\ connection[y] = s /\ Free(y)
          /\ connection' = [connection EXCEPT ![y] = NoSocket]
          /\ CloseDirections(y, TRUE, TRUE)
          /\ \A u \in Thread : Moves(u, {y})
      BY <1>7, <2>2, <3>0, HangUpFacts
    <3>2. connection'[y] = NoSocket /\ \A r \in Socket : r # y => connection'[r] = connection[r]
      BY <3>1 DEF TypeOK
    <3>3. \A r \in Socket : r # y => /\ inClosed'[r] <=> inClosed[r]
                                     /\ outClosed'[r] <=> outClosed[r]
      BY <3>1, <1>c
    <3>4. /\ y \in Client => Linked(y)
          /\ \A u \in Thread : pc[u] = "link" => connection[with[u]] # y
      <4>1. y \in Socket /\ connection[y] \in Socket /\ Alive(y) /\ connection[connection[y]] = y
        BY <3>0, <3>1
      <4>2. QED
        BY <4>1, <1>l
    <3>5. y \in Client => s \in Accepted
      BY <3>1, <1>k DEF Kinds
    <3>6. \A u \in Thread : /\ pc[u] \in How => pc'[u] = pc[u] /\ on'[u] = on[u]
                            /\ pc'[u] = "link" => pc[u] = "link" /\ with'[u] = with[u]
      BY <3>1 DEF Moves, How
    <3>7. ASSUME NEW r \in Socket, NEW q \in Socket, r # y, q # y, Agrees(r, q) PROVE Agrees(r, q)'
      BY <3>3, <3>6, <3>7 DEF Agrees, How
    <3>8. \A r, q \in Socket : connection'[r] = q /\ connection'[q] = r =>
            r # y /\ q # y /\ connection[r] = q /\ connection[q] = r
      BY <3>1, <3>2
    <3>9. \A r \in Socket : Alive(r)' => Alive(r) /\ r # s
      BY <2>0 DEF Alive
    <3>10. Agreed'
      BY <3>7, <3>8, <3>9 DEF Agreed
    <3>11. \A c \in Client : c # y /\ Linked(c) /\ ~Linked(c)' => c = s
      <4> SUFFICES ASSUME NEW c \in Client, NEW b \in Accepted, connection[b] = c, ~Linked(c)' PROVE c = s
        BY DEF Linked
      <4>1. connection'[b] # c
        BY DEF Linked
      <4>2. QED
        BY <4>1, <1>0, <3>1, <3>2
    <3>12. y \in Client => Linked(y)'
      BY <3>0, <3>1, <3>2, <3>5 DEF Linked
    <3>13. \A u \in Thread : pc[u] = "link" => /\ connection'[with[u]] = connection[with[u]]
                                               /\ connection[with[u]] # y /\ connection[with[u]] \in Socket
      BY <3>1, <3>2, <3>4, <1>0, <1>k DEF Free, ArgInv, Arguments, Mutual
    <3>14. \A b \in Accepted : life'[b] = "unborn" => life[b] = "unborn" /\ b # y
      BY <2>0, <3>1, <1>0 DEF Alive
    <3>15. /\ \A c \in Client : Alive(c)' /\ ~Linked(c)' => ~inClosed'[c] /\ ~outClosed'[c]
           /\ \A b \in Accepted : life'[b] = "unborn" => ~inClosed'[b] /\ ~outClosed'[b]
      BY <3>3, <3>9, <3>11, <3>12, <3>14, <1>0 DEF Clean
    <3>16. Clean'
      BY <3>3, <3>6, <3>13, <3>15 DEF Clean
    <3>17. QED
      BY <3>10, <3>16
  <2>3. QED
    BY <2>1, <2>2
<1>8. ASSUME NEW s \in Socket, LeaveQueue(s) \/ Drain(s)
      PROVE  Agreed' /\ Clean'
  <2>1. UNCHANGED <<connection, inClosed, outClosed>>
    BY <1>8 DEF LeaveQueue, Drain, flags
  <2>2. \A u \in Thread : \E S : Moves(u, S)
    BY <1>8, DestroyMoves
  <2>3. \A r \in Socket : /\ life'[r] = "alive" => life[r] = "alive"
                          /\ life'[r] = "unborn" => life[r] = "unborn"
    BY <1>8 DEF LeaveQueue, Drain, TypeOK
  <2>4. QED
    BY <2>1, <2>2, <2>3, <1>f DEF Moves, How
<1>9. CASE UNCHANGED vars
  <2>1. UNCHANGED <<life, connection, inClosed, outClosed, pc, on, with>>
    BY <1>9 DEF vars, links, flags, calls
  <2>2. QED
    BY <2>1, <1>f
<1>10. QED
  BY <1>1, <1>2, <1>3, <1>4, <1>5, <1>6, <1>7, <1>8, <1>9 DEF Next, Continues, Destroys

-----------------------------------------------------------------------------
(* The theorems *)

LEMMA InitFacts ==
  ASSUME Init
  PROVE  Inv
<1> USE KindsDiffer, CallsAssumption
<1>0. \A r \in Client \cup Accepted \cup Listener : r \in Socket
  BY DEF Socket
<1>1. TypeOK
  <2>1. "user" \in Place
    BY DEF Place
  <2>2. pending \in [Socket -> Seq(Client)]
    BY DEF Init
  <2>3. QED
    BY <1>0, <2>1, <2>2 DEF Init, TypeOK
<1>2. /\ \A t \in Thread : pc[t] = "user" /\ on[t] = NoSocket /\ with[t] = NoSocket
      /\ \A s \in Socket : /\ connection[s] = NoSocket /\ pending[s] = <<>>
                           /\ ~inClosed[s] /\ ~outClosed[s]
  BY DEF Init
<1>3. ArgInv /\ HoldsEnds
  BY <1>2 DEF ArgInv, Arguments, Connecting, How, HoldsEnds, Ends
<1>4. \A t \in Thread, c \in Client : ~Coming(t, c) /\ ~Queues(t, c) /\ ~Taken(t, c)
  BY <1>2 DEF Coming, Queues, Taken
<1>5. \A c \in Client : ~Linked(c) /\ \A l \in Listener : ~InQueue(c, l)
  BY <1>0, <1>2 DEF Linked, InQueue
<1>6. Kinds
  BY <1>0, <1>2 DEF Kinds
<1>7. Living
  <2>1. \A s \in Socket : Strong(s) => s \in Client \cup Listener
    BY <1>2 DEF Init, Strong, Holds
  <2>2. \A s \in Client \cup Listener : life[s] = "alive"
    BY <1>0 DEF Init
  <2>3. QED
    BY <1>2, <2>1, <2>2 DEF Living
<1>8. Once
  BY <1>0, <1>2, <1>4, <1>5 DEF Once
<1>9. Remembered
  BY <1>4, <1>5 DEF Remembered
<1>10. Mutual
  BY <1>0, <1>2 DEF Mutual
<1>11. HangUpReaches
  BY <1>2 DEF HangUpReaches
<1>12. Agreed /\ Clean
  BY <1>0, <1>2 DEF Agreed, Clean
<1>13. NoSleepOverQueue
  BY <1>2 DEF NoSleepOverQueue
<1>14. QED
  BY <1>1, <1>3, <1>6, <1>7, <1>8, <1>9, <1>10, <1>11, <1>12, <1>13 DEF Inv, Shape

(* Whatever calls the threads make, and however many listeners there are,  *)
(* every variable stays in its range: queues hold clients only, and calls  *)
(* are on sockets only.                                                    *)
THEOREM TypeCorrect == Spec => []TypeOK
<1>1. Init => TypeOK /\ ArgInv
  BY InitFacts DEF Inv
<1>2. TypeOK /\ ArgInv /\ [Next]_vars => (TypeOK /\ ArgInv)'
  BY TypeStep, ArgStep
<1>3. QED
  BY <1>1, <1>2, PTL DEF Spec

(* A thread in accept does not sleep while a client waits in the queue it  *)
(* looked at: connect and accept meet under the listener's lock.           *)
THEOREM NoSleepOverQueueCorrect == Spec => []NoSleepOverQueue
<1> DEFINE J == TypeOK /\ ArgInv /\ NoSleepOverQueue
<1>1. Init => J
  BY InitFacts DEF Inv
<1>2. J /\ [Next]_vars => J'
  BY TypeStep, ArgStep, SleepStep
<1>3. QED
  BY <1>1, <1>2, PTL DEF Spec

LEMMA InvStep ==
  ASSUME OneListener, OneConnector, Inv, [Next]_vars
  PROVE  Inv'
<1>1. TypeOK'
  BY TypeStep DEF Inv
<1>2. QED
  BY <1>1, ArgStep, EndsStep, ShapeStep, AgreedStep, SleepStep DEF Inv

LEMMA InvCorrect ==
  ASSUME OneListener, OneConnector
  PROVE  Spec => []Inv
<1>1. Init => Inv
  BY InitFacts
<1>2. Inv /\ [Next]_vars => Inv'
  BY InvStep
<1>3. QED
  BY <1>1, <1>2, PTL DEF Spec

(* With one listener and one connecting thread per socket, the ends of a   *)
(* pair agree on each other: neither a second connect, nor a close inside  *)
(* an accept, nor a destructor leaves a socket in use that points to one   *)
(* with another peer.                                                      *)
THEOREM PeersMutualCorrect ==
  ASSUME OneListener, OneConnector
  PROVE  Spec => []PeersMutual
<1>1. Inv => PeersMutual
  BY DEF Inv, Shape, Living, Mutual, PeersMutual, TypeOK
<1>2. QED
  BY <1>1, InvCorrect, PTL

(* With one listener and one connecting thread per socket, no socket in    *)
(* use points to one whose destructor is past the point where it tells its *)
(* peer.  (A destructor that runs inside an accept may never get there.)   *)
THEOREM HangUpReachesCorrect ==
  ASSUME OneListener, OneConnector
  PROVE  Spec => []HangUpReaches
<1>1. Inv => HangUpReaches
  BY DEF Inv, Shape
<1>2. QED
  BY <1>1, InvCorrect, PTL

(* With one listener and one connecting thread per socket, the flags that  *)
(* shutdown writes under two locks agree as soon as no shutdown of the two *)
(* ends is on its way.                                                     *)
THEOREM HalfClosesAgreeCorrect ==
  ASSUME OneListener, OneConnector
  PROVE  Spec => []HalfClosesAgree
<1>1. Inv => HalfClosesAgree
  <2> SUFFICES ASSUME Inv, NEW s \in Socket, NEW p, p = connection[s],
                      Strong(s), p # NoSocket, Strong(p), ~Linking(s), ~Linking(p),
                      \A t \in Thread : pc[t] \in How => on[t] \notin {s, p}
               PROVE  outClosed[s] = inClosed[p]
    BY DEF HalfClosesAgree
  <2>1. p \in Socket /\ outClosed[s] \in BOOLEAN /\ inClosed[p] \in BOOLEAN
    BY DEF Inv, TypeOK
  <2>2. Alive(s) /\ Alive(p)
    BY <2>1 DEF Inv, Shape, Living, Alive
  <2>3. connection[p] = s
    BY <2>1, <2>2 DEF Inv, Shape, Mutual, Alive
  <2>4. Agrees(s, p)
    BY <2>1, <2>2, <2>3 DEF Inv, Agreed
  <2>5. outClosed[s] <=> inClosed[p]
    BY <2>4 DEF Agrees, How
  <2>6. QED
    BY <2>1, <2>5
<1>2. QED
  BY <1>1, InvCorrect, PTL

(* With one listener and one connecting thread per socket, a client waits  *)
(* in the queue once, before anybody has accepted it and after it was      *)
(* pushed, however often its thread connects it: connecting, tested in one *)
(* step and set in another, stays set as long as the client can be reached *)
(* and keeps connect from pushing it again.                                *)
THEOREM QueuedOnceCorrect ==
  ASSUME OneListener, OneConnector
  PROVE  Spec => []QueuedOnce
<1>1. Inv => QueuedOnce
  <2> SUFFICES ASSUME Inv, NEW l \in Listener, NEW i \in 1 .. Len(pending[l])
               PROVE  /\ connection[pending[l][i]] = NoSocket
                      /\ \A j \in 1 .. Len(pending[l]) : i = j \/ pending[l][i] # pending[l][j]
                      /\ \A t \in Thread : pc[t] = "queue" => on[t] # pending[l][i]
    BY DEF QueuedOnce
  <2>1. pending[l] \in Seq(Client)
    BY DEF Inv, TypeOK, Socket
  <2>2. pending[l][i] \in Client /\ InQueue(pending[l][i], l)
    BY <2>1 DEF InQueue
  <2>3. QED
    BY <2>2 DEF Inv, Shape, Once, Coming
<1>2. QED
  BY <1>1, InvCorrect, PTL

-----------------------------------------------------------------------------
(* The promise of SocketPairs *)

\* a pair that is linked was so once, and who is left of it was told
SeenInv ==
  /\ \A a \in Accepted :
       /\ connection[a] # NoSocket => connected[a]
       /\ connected[a] => life[a] # "unborn"
       /\ ~connected[a] => ~inClosed[a] /\ ~outClosed[a]
  /\ \A t \in Thread : pc[t] = "link" => ~connected[connection[with[t]]]
  /\ \A s \in Stream : Strong(s) /\ Met(s) /\ ~Paired(s) => inClosed[s] /\ outClosed[s]

\* what a step does that programs see nothing of
Unseen ==
  /\ UNCHANGED <<connection, inClosed, outClosed>>
  /\ \A s \in Socket : /\ life'[s] = "alive" <=> life[s] = "alive"
                       /\ life'[s] = "unborn" <=> life[s] = "unborn"
                       /\ Strong(s)' => Strong(s)
  /\ \A a \in Accepted : connected'[a] = connected[a]
  /\ \A u \in Thread : pc'[u] = "link" => pc[u] = "link" /\ with'[u] = with[u]

\* what is closed, without regard to who holds a pointer
In(s) == IF Paired(s) THEN inClosed[s] \/ outClosed[connection[s]] ELSE Over(s)
Out(s) == IF Paired(s) THEN outClosed[s] \/ inClosed[connection[s]] ELSE Over(s)

ClosedInv ==
  \A s \in Stream :
    Closed(s, inClosed, outClosed) = In(s) /\ Closed(s, outClosed, inClosed) = Out(s)

LEMMA ClosedIs == TypeOK /\ Living /\ Clean /\ SeenInv => ClosedInv
<1> USE KindsDiffer
<1> SUFFICES ASSUME TypeOK, Living, Clean, SeenInv, NEW s \in Stream
             PROVE  Closed(s, inClosed, outClosed) = In(s) /\ Closed(s, outClosed, inClosed) = Out(s)
  BY DEF ClosedInv
<1>0. s \in Socket /\ inClosed[s] \in BOOLEAN /\ outClosed[s] \in BOOLEAN
  BY DEF Stream, Socket, TypeOK
<1>1. CASE Paired(s) \/ ~Strong(s)
  BY <1>1 DEF Closed, In, Out
<1>2. CASE ~Paired(s) /\ Strong(s) /\ Met(s)
  <2>1. Over(s) /\ inClosed[s] /\ outClosed[s]
    BY <1>0, <1>2 DEF Living, Over, SeenInv
  <2> QED
    BY <1>0, <1>2, <2>1 DEF Closed, In, Out, Over
<1>3. CASE ~Paired(s) /\ Strong(s) /\ ~Met(s)
  <2>1. life[s] = "alive"
    BY <1>0, <1>3 DEF Living
  <2>2. ~inClosed[s] /\ ~outClosed[s]
    BY <1>3, <2>1 DEF SeenInv, Clean, Met, Stream, Linked, Alive
  <2>3. ~Over(s)
    BY <1>3, <2>1 DEF Over
  <2> QED
    BY <1>0, <1>3, <2>2, <2>3 DEF Closed, In, Out, Over
<1> QED
  BY <1>1, <1>2, <1>3

\* a pair is a client and an accepted socket, and each of them has met one
LEMMA PairedFacts ==
  ASSUME TypeOK, Kinds, SeenInv, NEW s \in Stream, Paired(s)
  PROVE  LET p == connection[s] IN
         /\ s \in Socket /\ p \in Socket /\ p \in Stream /\ p # s
         /\ s \in Client <=> p \in Accepted
         /\ Paired(p) /\ connection[p] = s
         /\ Met(s) /\ Met(p)
         /\ ~Over(s) /\ ~Over(p)
<1> USE KindsDiffer
<1>1. s \in Socket
  BY DEF Stream, Socket
<1>2. PICK p \in Stream : p = connection[s]
  BY DEF Kinds, Stream, Paired
<1>3. /\ p \in Socket /\ p # s /\ (s \in Client <=> p \in Accepted)
  BY <1>2 DEF Kinds, Stream, Socket, Paired
<1>4. connection[p] = s /\ s # NoSocket /\ life[p] = "alive" /\ life[s] = "alive" /\ p # NoSocket
  BY <1>1, <1>2 DEF Paired
<1>5. Paired(p)
  BY <1>2, <1>4 DEF Paired
<1>6. Met(s) /\ Met(p)
  BY <1>2, <1>3, <1>4 DEF Met, SeenInv, Stream
<1>7. ~Over(s) /\ ~Over(p)
  BY <1>4, <1>5 DEF Over
<1> QED
  BY <1>1, <1>2, <1>3, <1>4, <1>5, <1>6, <1>7

\* enough for a step to be seen by nobody
LEMMA SeenBy ==
  ASSUME ClosedInv, ClosedInv',
         \A s \in Stream :
           /\ Paired(s)' <=> Paired(s)
           /\ Paired(s) => connection'[s] = connection[s]
           /\ Over(s)' <=> Over(s)
           /\ Paired(s) => In(s)' = In(s) /\ Out(s)' = Out(s)
  PROVE  UNCHANGED Promise!vars
<1>1. \A s \in Stream : /\ Closed(s, inClosed, outClosed) = In(s)
                        /\ Closed(s, outClosed, inClosed) = Out(s)
  BY DEF ClosedInv
<1>2. \A s \in Stream : /\ Closed(s, inClosed, outClosed)' = In(s)'
                        /\ Closed(s, outClosed, inClosed)' = Out(s)'
  BY DEF ClosedInv
<1>3. \A s \in Stream : In(s)' = In(s) /\ Out(s)' = Out(s)
  <2> SUFFICES ASSUME NEW s \in Stream, ~Paired(s) PROVE In(s)' = In(s) /\ Out(s)' = Out(s)
    OBVIOUS
  <2>1. In(s) = Over(s) /\ Out(s) = Over(s) /\ In(s)' = Over(s)' /\ Out(s)' = Over(s)'
    BY DEF In, Out
  <2>2. Over(s) \in BOOLEAN /\ Over(s)' \in BOOLEAN
    BY DEF Over
  <2> QED
    BY <2>1, <2>2
<1>4. UNCHANGED [s \in Stream |-> IF Paired(s) THEN connection[s] ELSE NoSocket]
  OBVIOUS
<1>5. UNCHANGED {s \in Stream : Over(s)}
  OBVIOUS
<1>6. UNCHANGED [s \in Stream |-> Closed(s, inClosed, outClosed)]
  BY <1>1, <1>2, <1>3
<1>7. UNCHANGED [s \in Stream |-> Closed(s, outClosed, inClosed)]
  BY <1>1, <1>2, <1>3
<1> QED
  BY <1>4, <1>5, <1>6, <1>7 DEF Promise!vars

LEMMA UnseenSeen ==
  ASSUME SeenInv, Unseen, TypeOK, TypeOK', Mutual, ClosedInv
  PROVE  SeenInv' /\ (ClosedInv' => UNCHANGED Promise!vars)
<1> USE KindsDiffer
<1>0. \A s \in Stream : s \in Socket
  BY DEF Stream, Socket
<1>1. \A s \in Stream : Met(s)' <=> Met(s)
  <2>1. connection' = connection /\ \A a \in Accepted : connected'[a] = connected[a]
    BY DEF Unseen
  <2>2. ASSUME NEW s \in Accepted PROVE Met(s)' <=> Met(s)
    BY <2>1, <2>2 DEF Met
  <2>3. ASSUME NEW s \in Client PROVE Met(s)' <=> Met(s)
    <3>1. s \notin Accepted
      OBVIOUS
    <3> QED
      BY <2>1, <3>1 DEF Met
  <2> QED
    BY <2>2, <2>3 DEF Stream
<1>2. \A s \in Stream : Paired(s)' <=> Paired(s)
  <2> SUFFICES ASSUME NEW s \in Stream PROVE Paired(s)' <=> Paired(s)
    OBVIOUS
  <2>1. connection' = connection /\ (life'[s] = "alive" <=> life[s] = "alive")
    BY <1>0 DEF Unseen
  <2>2. connection[s] # NoSocket =>
          (life'[connection[s]] = "alive" <=> life[connection[s]] = "alive")
    <3>1. connection[s] \in Socket \cup {NoSocket}
      BY <1>0 DEF TypeOK
    <3> QED
      BY <3>1 DEF Unseen
  <2> QED
    BY <2>1, <2>2 DEF Paired
<1>3. \A s \in Stream : Over(s)' <=> Over(s)
  <2> SUFFICES ASSUME NEW s \in Stream PROVE Over(s)' <=> Over(s)
    OBVIOUS
  <2>1. /\ Over(s) <=> life[s] # "unborn" /\ (life[s] = "alive" => Met(s) /\ ~Paired(s))
        /\ Over(s)' <=> life'[s] # "unborn" /\ (life'[s] = "alive" => Met(s)' /\ ~Paired(s)')
    BY <1>0 DEF Over, TypeOK
  <2> QED
    BY <1>0, <1>1, <1>2, <2>1 DEF Unseen
<1>4. \A s \in Stream : Paired(s) => In(s)' = In(s) /\ Out(s)' = Out(s)
  BY <1>2 DEF In, Out, Unseen
<1>5. SeenInv'
  <2>1. \A s \in Stream : (Strong(s) /\ Met(s) /\ ~Paired(s))' => inClosed'[s] /\ outClosed'[s]
    BY <1>0, <1>1, <1>2 DEF SeenInv, Unseen
  <2>2. \A t \in Thread : pc'[t] = "link" =>
          connection'[with'[t]] = connection[with[t]] /\ ~connected[connection[with[t]]]
    BY DEF SeenInv, Unseen
  <2>3. \A a \in Accepted :
          /\ connection'[a] # NoSocket => connected'[a]
          /\ connected'[a] => life'[a] # "unborn"
          /\ ~connected'[a] => ~inClosed'[a] /\ ~outClosed'[a]
    BY <1>0 DEF SeenInv, Unseen, Stream
  <2>4. \A t \in Thread : pc'[t] = "link" => ~connected'[connection'[with'[t]]]
    <3> SUFFICES ASSUME NEW t \in Thread, pc'[t] = "link" PROVE ~connected'[connection'[with'[t]]]
      OBVIOUS
    <3>1. pc[t] = "link"
      BY DEF Unseen
    <3>2. connection[with[t]] \in Accepted
      BY <3>1 DEF Mutual
    <3> QED
      BY <2>2, <3>2 DEF Unseen
  <2> QED
    BY <2>1, <2>3, <2>4 DEF SeenInv
<1> QED
  BY <1>2, <1>3, <1>4, <1>5, SeenBy DEF Unseen

LEMMA CallUnseen ==
  ASSUME TypeOK, UNCHANGED <<life, open, connection, inClosed, outClosed>>,
         \A a \in Accepted : connected'[a] = connected[a],
         NEW t \in Thread, NEW S, Others(t, S), pc'[t] # "link",
         on'[t] # NoSocket => Strong(on'[t]), with'[t] # NoSocket => Strong(with'[t])
  PROVE  Unseen
<1> USE KindsDiffer
<1>1. \A s \in Socket : Strong(s)' => Strong(s)
  <2> SUFFICES ASSUME NEW s \in Socket PROVE Strong(s)' => Strong(s)
    OBVIOUS
  <2>1. Holds(t, s)' => Strong(s)
    BY DEF Holds
  <2>2. \A u \in Thread \ {t} : Moves(u, S)
    BY DEF Others
  <2> QED
    BY <2>1, <2>2, StrongKept
<1>2. \A u \in Thread : pc'[u] = "link" => pc[u] = "link" /\ with'[u] = with[u]
  BY DEF Others, Moves
<1> QED
  BY <1>1, <1>2 DEF Unseen

(* Only a client learns in a call that it is connected. *)
LEMMA ConnectedKept ==
  ASSUME TypeOK, ArgInv, NEW t \in Thread,
         \/ \E c \in Client, l \in Listener : Connect(t, c, l)
         \/ ConnectWait(t) \/ ConnectWoken(t)
  PROVE  \A a \in Accepted : connected'[a] = connected[a]
<1> USE KindsDiffer, CallsAssumption
<1>0. connected \in [Socket -> BOOLEAN] /\ \A a \in Accepted : a \in Socket
  BY DEF TypeOK, Socket
<1>1. ASSUME NEW c \in Client, NEW l \in Listener, Connect(t, c, l)
      PROVE  \A a \in Accepted : connected'[a] = connected[a]
  <2>1. connected' = connected \/ connected' = [connected EXCEPT ![c] = TRUE]
    BY <1>1 DEF Connect
  <2>2. \A a \in Accepted : a # c
    OBVIOUS
  <2> QED
    BY <1>0, <2>1, <2>2
<1>2. CASE ConnectWait(t) \/ ConnectWoken(t)
  <2>1. on[t] \in Client
    BY <1>2 DEF ConnectWait, ConnectWoken, ArgInv, Arguments, Connecting
  <2>2. \/ UNCHANGED connected
        \/ connected' = [connected EXCEPT ![on[t]] = @ \/ Lock(connection[on[t]]) # NoSocket]
    BY <1>2 DEF ConnectWait, ConnectWoken, Connected
  <2>3. \A a \in Accepted : a # on[t]
    BY <2>1
  <2> QED
    BY <1>0, <2>2, <2>3
<1> QED
  BY <1>1, <1>2

LEMMA ThreadUnseen ==
  ASSUME TypeOK, TypeOK', ArgInv, NEW t \in Thread,
         \/ \E c \in Client, l \in Listener : Connect(t, c, l)
         \/ Claim(t) \/ Queue(t) \/ ConnectWait(t) \/ ConnectWoken(t)
         \/ Stir(t) \/ Interrupt(t) \/ Look(t)
         \/ \E l \in Listener : Accept(t, l)
         \/ \E s \in Socket : Write(t, s)
  PROVE  Unseen
<1> USE KindsDiffer
<1>h. /\ on[t] # NoSocket => Strong(on[t])
      /\ with[t] # NoSocket => Strong(with[t])
  BY DEF Strong, Holds, TypeOK
<1>1. ASSUME NEW c \in Client, NEW l \in Listener, Connect(t, c, l) PROVE Unseen
  <2>1. Strong(c) /\ Strong(l)
    BY <1>1 DEF Connect, Strong
  <2>2. /\ Others(t, {}) /\ UNCHANGED <<life, open, connection, inClosed, outClosed>>
        /\ \/ pc'[t] = "user" /\ Keeps(t)
           \/ pc'[t] \in {"again", "claim"} /\ on'[t] = c /\ with'[t] = l
    BY <1>1, CallMoves
  <2>3. \A a \in Accepted : connected'[a] = connected[a]
    BY <1>1, ConnectedKept
  <2>4. on'[t] # NoSocket => Strong(on'[t])
    BY <1>h, <2>1, <2>2 DEF Keeps
  <2>5. with'[t] # NoSocket => Strong(with'[t])
    BY <1>h, <2>1, <2>2 DEF Keeps
  <2> QED
    BY <2>2, <2>3, <2>4, <2>5, CallUnseen
<1>2. CASE Claim(t) \/ Queue(t) \/ ConnectWait(t) \/ ConnectWoken(t) \/ Interrupt(t)
  <2>1. UNCHANGED <<life, open, connection, inClosed, outClosed>>
    BY <1>2 DEF Claim, Queue, ConnectWait, ConnectWoken, Interrupt, links, flags
  <2>2. \A a \in Accepted : connected'[a] = connected[a]
    <3>1. CASE Claim(t) \/ Queue(t) \/ Interrupt(t)
      BY <3>1 DEF Claim, Queue, Interrupt, flags
    <3> QED
      BY <1>2, <3>1, ConnectedKept
  <2>3. (\E S : Others(t, S)) /\ pc'[t] # "link"
    BY <1>2, CallMoves DEF Ended
  <2>4. on'[t] \in {on[t], NoSocket} /\ with'[t] \in {with[t], NoSocket}
    BY <1>2, CallMoves DEF Ended, Keeps
  <2> QED
    BY <1>h, <2>1, <2>2, <2>3, <2>4, CallUnseen
<1>3. CASE Look(t)
  <2>1. /\ UNCHANGED <<life, open, connection, inClosed, outClosed>>
        /\ \A a \in Accepted : connected'[a] = connected[a]
    BY <1>3 DEF Look, flags
  <2>2. Others(t, {}) /\ pc'[t] # "link"
    BY <1>3, CallMoves DEF Ended
  <2>3. /\ on'[t] \in {on[t], NoSocket}
        /\ with'[t] \in {with[t], NoSocket} \/ Strong(with'[t])
    BY <1>3, CallMoves DEF Ended, Keeps
  <2> QED
    BY <1>h, <2>1, <2>2, <2>3, CallUnseen
<1>4. ASSUME NEW l \in Listener, Accept(t, l) PROVE Unseen
  <2>1. /\ UNCHANGED <<life, open, connection, inClosed, outClosed>> /\ Strong(l)
        /\ \A a \in Accepted : connected'[a] = connected[a]
    BY <1>4 DEF Accept, links, flags, Strong
  <2>2. Others(t, {}) /\ pc'[t] = "accept" /\ on'[t] = l /\ with'[t] = NoSocket
    BY <1>4, CallMoves
  <2> QED
    BY <2>1, <2>2, CallUnseen
<1>5. ASSUME NEW s \in Socket, Write(t, s) PROVE Unseen
  <2>1. /\ UNCHANGED <<life, open, connection, inClosed, outClosed>>
        /\ \A a \in Accepted : connected'[a] = connected[a]
    BY <1>5 DEF Write, links, flags
  <2>2. Others(t, {connection[s]}) /\ pc'[t] = "user" /\ Keeps(t)
    BY <1>5, CallMoves
  <2> QED
    BY <1>h, <2>1, <2>2, CallUnseen DEF Keeps
<1>6. CASE Stir(t)
  <2>1. /\ UNCHANGED <<life, open, connection, inClosed, outClosed>>
        /\ \A a \in Accepted : connected'[a] = connected[a]
    BY <1>6 DEF Stir, links, flags
  <2>2. Others(t, {}) /\ Moves(t, {on[t]}) /\ pc[t] # "link"
    BY <1>6, CallMoves DEF Stir, Asleep
  <2>3. pc'[t] # "link" /\ on'[t] = on[t] /\ with'[t] = with[t]
    BY <2>2 DEF Moves
  <2> QED
    BY <1>h, <2>1, <2>2, <2>3, CallUnseen
<1> QED
  BY <1>1, <1>2, <1>3, <1>4, <1>5, <1>6

(* The other steps that programs see nothing of. *)
LEMMA StillUnseen ==
  ASSUME TypeOK, TypeOK', ArgInv, Kinds, Living, OneListener,
         \/ \E t \in Thread, s \in Socket : Close(t, s)
         \/ \E s \in Socket : LeaveQueue(s) \/ Drain(s)
         \/ UNCHANGED vars
  PROVE  Unseen
<1>1. Still
  BY QuietStill DEF Quiet
<1>2. UNCHANGED <<inClosed, outClosed, connected>>
  BY DEF Close, LeaveQueue, Drain, flags, vars
<1> QED
  BY <1>1, <1>2 DEF Still, Hot, Unseen

-----------------------------------------------------------------------------
(* The three steps of SocketPairs, socket by socket *)

LEMMA PairPromised ==
  ASSUME ClosedInv, ClosedInv', NEW c \in Client, NEW a \in Accepted,
         \A s \in {c, a} : ~Over(s) /\ ~Paired(s) /\ Paired(s)',
         connection'[c] = a, connection'[a] = c,
         \A s \in Stream \ {c, a} :
           (Paired(s)' <=> Paired(s)) /\ (Paired(s) => connection'[s] = connection[s]),
         \A s \in Stream : (Over(s)' <=> Over(s)) /\ In(s)' = In(s) /\ Out(s)' = Out(s)
  PROVE  Promise!Pair(c, a)
<1> USE KindsDiffer
<1> DEFINE P == [s \in Stream |-> IF Paired(s) THEN connection[s] ELSE NoSocket]
<1>1. c \in Stream /\ a \in Stream /\ c # a
  BY DEF Stream
<1>2. P[c] = NoSocket /\ P[a] = NoSocket
  BY <1>1
<1>3. P' = [P EXCEPT ![c] = a, ![a] = c]
  <2> SUFFICES ASSUME NEW s \in Stream
               PROVE  P'[s] = [P EXCEPT ![c] = a, ![a] = c][s]
    OBVIOUS
  <2> QED
    BY <1>1
<1>4. {c, a} \cap {s \in Stream : Over(s)} = {}
  OBVIOUS
<1>5. UNCHANGED {s \in Stream : Over(s)}
  OBVIOUS
<1>6. \A s \in Stream : /\ Closed(s, inClosed, outClosed)' = Closed(s, inClosed, outClosed)
                        /\ Closed(s, outClosed, inClosed)' = Closed(s, outClosed, inClosed)
  BY DEF ClosedInv
<1>7. UNCHANGED [s \in Stream |-> Closed(s, inClosed, outClosed)]
  BY <1>6
<1>8. UNCHANGED [s \in Stream |-> Closed(s, outClosed, inClosed)]
  BY <1>6
<1> QED
  BY <1>2, <1>3, <1>4, <1>5, <1>7, <1>8 DEF Promise!Pair

LEMMA ShutdownPromised ==
  ASSUME ClosedInv, ClosedInv', NEW s \in Stream, NEW p \in Stream, p = connection[s], p # s,
         Paired(s), NEW i \in BOOLEAN, NEW o \in BOOLEAN,
         \A r \in Stream : /\ Paired(r)' <=> Paired(r)
                           /\ Paired(r) => connection'[r] = connection[r]
                           /\ Over(r)' <=> Over(r),
         In(s)' = (In(s) \/ i), Out(s)' = (Out(s) \/ o),
         In(p)' = (In(p) \/ o), Out(p)' = (Out(p) \/ i),
         \A r \in Stream \ {s, p} : In(r)' = In(r) /\ Out(r)' = Out(r)
  PROVE  Promise!Shutdown(s, i, o)
<1> DEFINE P == [r \in Stream |-> IF Paired(r) THEN connection[r] ELSE NoSocket]
           I == [r \in Stream |-> Closed(r, inClosed, outClosed)]
           O == [r \in Stream |-> Closed(r, outClosed, inClosed)]
<1>1. P[s] = p /\ p # NoSocket /\ P' = P
  BY DEF Paired
<1>2. UNCHANGED {r \in Stream : Over(r)}
  OBVIOUS
<1>3. \A r \in Stream : I[r] = In(r) /\ O[r] = Out(r) /\ I'[r] = In(r)' /\ O'[r] = Out(r)'
  BY DEF ClosedInv
<1>4. I' = [I EXCEPT ![s] = I[s] \/ i, ![p] = I[p] \/ o]
  <2>1. I' = [r \in Stream |-> Closed(r, inClosed, outClosed)']
    OBVIOUS
  <2> SUFFICES ASSUME NEW r \in Stream
               PROVE  I'[r] = [I EXCEPT ![s] = I[s] \/ i, ![p] = I[p] \/ o][r]
    BY <2>1
  <2> QED
    BY <1>3
<1>5. O' = [O EXCEPT ![s] = O[s] \/ o, ![p] = O[p] \/ i]
  <2>1. O' = [r \in Stream |-> Closed(r, outClosed, inClosed)']
    OBVIOUS
  <2> SUFFICES ASSUME NEW r \in Stream
               PROVE  O'[r] = [O EXCEPT ![s] = O[s] \/ o, ![p] = O[p] \/ i][r]
    BY <2>1
  <2> QED
    BY <1>3
<1>6. I' = [I EXCEPT ![s] = I[s] \/ i, ![P[s]] = [I EXCEPT ![s] = I[s] \/ i][P[s]] \/ o]
  BY <1>1, <1>4
<1>7. O' = [O EXCEPT ![s] = O[s] \/ o, ![P[s]] = [O EXCEPT ![s] = O[s] \/ o][P[s]] \/ i]
  BY <1>1, <1>5
<1> QED
  BY <1>1, <1>2, <1>6, <1>7 DEF Promise!Shutdown

LEMMA EndPromised ==
  ASSUME ClosedInv, ClosedInv', NEW s \in Stream, NEW ends \in SUBSET Stream,
         ends = IF Paired(s) THEN {s, connection[s]} ELSE {s},
         \A r \in ends : ~Paired(r)' /\ Over(r)',
         \A r \in Stream \ ends : /\ Paired(r)' <=> Paired(r)
                                  /\ Paired(r) => connection'[r] = connection[r]
                                  /\ Over(r)' <=> Over(r)
                                  /\ In(r)' = In(r) /\ Out(r)' = Out(r)
  PROVE  Promise!End(s)
<1> USE KindsDiffer
<1> DEFINE P == [r \in Stream |-> IF Paired(r) THEN connection[r] ELSE NoSocket]
           I == [r \in Stream |-> Closed(r, inClosed, outClosed)]
           O == [r \in Stream |-> Closed(r, outClosed, inClosed)]
<1>1. ends = {s, P[s]} \cap Promise!Socket
  <2>1. Promise!Socket = Stream /\ NoSocket \notin Stream
    BY DEF Promise!Socket, Stream, Socket
  <2> QED
    BY <2>1
<1>2. P' = [r \in Stream |-> IF r \in ends THEN NoSocket ELSE P[r]]
  OBVIOUS
<1>3. {r \in Stream : Over(r)}' = {r \in Stream : Over(r)} \cup ends
  OBVIOUS
<1>4. \A r \in Stream : I[r] = In(r) /\ O[r] = Out(r) /\ I'[r] = In(r)' /\ O'[r] = Out(r)'
  BY DEF ClosedInv
<1>5. \A r \in ends : In(r)' = TRUE /\ Out(r)' = TRUE
  BY DEF In, Out, Over
<1>a. \A r \in Stream : In(r) \in BOOLEAN /\ Out(r) \in BOOLEAN
  BY DEF In, Out, Over
<1>b. \A r \in Stream : /\ In(r)' = (r \in ends \/ In(r))
                        /\ Out(r)' = (r \in ends \/ Out(r))
  BY <1>5, <1>a
<1>6. I' = [r \in Stream |-> r \in ends \/ I[r]]
  <2>1. I' = [r \in Stream |-> Closed(r, inClosed, outClosed)']
    OBVIOUS
  <2> QED
    BY <1>4, <1>b, <2>1
<1>7. O' = [r \in Stream |-> r \in ends \/ O[r]]
  <2>1. O' = [r \in Stream |-> Closed(r, outClosed, inClosed)']
    OBVIOUS
  <2> QED
    BY <1>4, <1>b, <2>1
<1> QED
  BY <1>1, <1>2, <1>3, <1>6, <1>7 DEF Promise!End, Promise!Socket, Stream

-----------------------------------------------------------------------------
(* The steps that programs see *)

LEMMA LinksKept ==
  ASSUME UNCHANGED <<life, connection, connected>>
  PROVE  \A s \in Stream : Met(s)' = Met(s) /\ Paired(s)' = Paired(s) /\ Over(s)' = Over(s)
<1>1. \A s \in Stream : Met(s)' = Met(s)
  BY DEF Met
<1>2. \A s \in Stream : Paired(s)' = Paired(s)
  BY DEF Paired
<1> QED
  BY <1>1, <1>2 DEF Over

\* an end of a pair is closed in one direction or both
LEMMA MoreClosed ==
  ASSUME TypeOK, Kinds, Mutual, SeenInv, UNCHANGED <<life, connection, connected>>,
         \A r \in Socket : Strong(r)' => Strong(r),
         \A u \in Thread : pc'[u] = "link" => pc[u] = "link" /\ with'[u] = with[u],
         NEW s \in Stream, Paired(s),
         \A r \in Socket : /\ inClosed[r] => inClosed'[r]
                           /\ outClosed[r] => outClosed'[r]
                           /\ r # s => /\ inClosed'[r] <=> inClosed[r]
                                       /\ outClosed'[r] <=> outClosed[r]
  PROVE  SeenInv'
<1> USE KindsDiffer
<1>0. \A r \in Stream : r \in Socket
  BY DEF Stream, Socket
<1>1. \A a \in Accepted : ~connected[a] => a # s
  BY PairedFacts DEF Met
<1>2. \A a \in Accepted :
        /\ connection'[a] # NoSocket => connected'[a]
        /\ connected'[a] => life'[a] # "unborn"
        /\ ~connected'[a] => ~inClosed'[a] /\ ~outClosed'[a]
  BY <1>0, <1>1 DEF SeenInv, Stream
<1>3. \A t \in Thread : pc'[t] = "link" => ~connected'[connection'[with'[t]]]
  BY DEF SeenInv
<1>4. \A r \in Stream : (Strong(r) /\ Met(r) /\ ~Paired(r))' => inClosed'[r] /\ outClosed'[r]
  BY <1>0, LinksKept DEF SeenInv
<1> QED
  BY <1>2, <1>3, <1>4 DEF SeenInv

LEMMA ShutdownSeen ==
  ASSUME TypeOK, TypeOK', ArgInv, Shape, OneListener, SeenInv, ClosedInv,
         NEW t \in Thread, NEW s \in Socket, NEW how \in How, Shutdown(t, s, how)
  PROVE  /\ SeenInv'
         /\ ClosedInv' => \E r \in Stream, i, o \in BOOLEAN : Promise!Shutdown(r, i, o)
<1> USE KindsDiffer
<1>k. Kinds /\ Mutual /\ Living
  BY DEF Shape
<1>1. PICK i \in BOOLEAN, o \in BOOLEAN : i = (how # "SHUT_WR") /\ o = (how # "SHUT_RD")
  OBVIOUS
<1>2. /\ UNCHANGED <<life, connection, connected>>
      /\ \A r \in Socket : /\ inClosed'[r] <=> inClosed[r] \/ (r = s /\ i)
                           /\ outClosed'[r] <=> outClosed[r] \/ (r = s /\ o)
  BY <1>1 DEF Shutdown, CloseDirections, TypeOK, links
<1>3. PICK p \in Socket : p = connection[s] /\ Strong(s) /\ Strong(p) /\ ~Linking(s)
  BY DEF Shutdown, Lock, Strong, TypeOK, Free, Linking
<1>4. life[s] = "alive" /\ life[p] = "alive" /\ connection[p] = s
  BY <1>3, <1>k DEF Living, Mutual
<1>5. s \in Stream /\ Paired(s)
  BY <1>3, <1>4, <1>k DEF Kinds, Stream, Socket, Paired
<1>6. p \in Stream /\ p # s /\ Paired(p)
  BY <1>3, <1>5, <1>k, PairedFacts
<1>7. Still
  BY <1>k, QuietStill DEF Quiet
<1>8. SeenInv'
  BY <1>2, <1>5, <1>7, <1>k, MoreClosed DEF Still, Hot
<1>9. \A r \in Stream : Paired(r)' = Paired(r) /\ Over(r)' = Over(r)
  BY <1>2, LinksKept
<1>10. /\ In(s)' = (In(s) \/ i) /\ Out(s)' = (Out(s) \/ o)
       /\ In(p)' = (In(p) \/ o) /\ Out(p)' = (Out(p) \/ i)
  BY <1>2, <1>3, <1>4, <1>5, <1>6, <1>9 DEF In, Out
<1>11. ASSUME NEW r \in Stream \ {s, p} PROVE In(r)' = In(r) /\ Out(r)' = Out(r)
  <2>1. CASE Paired(r)
    <3>1. /\ r \in Socket /\ connection[r] \in Socket
          /\ connection[connection[r]] = r
      BY <2>1, <1>k, PairedFacts
    <3>2. connection[r] # s /\ connection[r] # p
      BY <3>1, <1>3, <1>4
    <3> QED
      BY <2>1, <3>1, <3>2, <1>2, <1>9 DEF In, Out
  <2> QED
    BY <2>1, <1>9 DEF In, Out
<1>12. ClosedInv' => Promise!Shutdown(s, i, o)
  BY <1>2, <1>3, <1>5, <1>6, <1>9, <1>10, <1>11, ShutdownPromised
<1> QED
  BY <1>5, <1>8, <1>12

LEMMA ShutdownPeerSeen ==
  ASSUME TypeOK, TypeOK', ArgInv, HoldsEnds, Shape, OneListener, SeenInv, ClosedInv,
         NEW t \in Thread, ShutdownPeer(t)
  PROVE  SeenInv' /\ (ClosedInv' => UNCHANGED Promise!vars)
<1> USE KindsDiffer
<1>k. Kinds /\ Mutual /\ Living
  BY DEF Shape
<1>1. PICK s \in Socket, p \in Socket : s = on[t] /\ p = with[t]
  BY DEF ShutdownPeer, ArgInv, Arguments
<1>2. /\ UNCHANGED <<life, connection, connected>>
      /\ \A r \in Socket : /\ inClosed'[r] <=> inClosed[r] \/ (r = p /\ pc[t] # "SHUT_RD")
                           /\ outClosed'[r] <=> outClosed[r] \/ (r = p /\ pc[t] # "SHUT_WR")
  BY <1>1 DEF ShutdownPeer, CloseDirections, TypeOK, links
<1>3. /\ connection[s] = p /\ connection[p] = s
      /\ pc[t] # "SHUT_WR" => inClosed[s]
      /\ pc[t] # "SHUT_RD" => outClosed[s]
  BY <1>1 DEF ShutdownPeer, HoldsEnds, Ends
<1>4. life[s] = "alive" /\ life[p] = "alive"
  BY <1>1, <1>k DEF Living, Strong, Holds
<1>5. /\ s \in Stream /\ Paired(s) /\ p \in Stream /\ Paired(p) /\ p # s
  BY <1>3, <1>4, <1>k DEF Kinds, Stream, Socket, Paired
<1>6. Still
  BY <1>k, QuietStill DEF Quiet
<1>7. SeenInv'
  BY <1>2, <1>5, <1>6, <1>k, MoreClosed DEF Still, Hot
<1>8. \A r \in Stream : Paired(r)' = Paired(r) /\ Over(r)' = Over(r)
  BY <1>2, LinksKept
<1>9. ASSUME NEW r \in Stream, Paired(r) PROVE In(r)' = In(r) /\ Out(r)' = Out(r)
  <2>1. /\ r \in Socket /\ connection[r] \in Socket
        /\ connection[connection[r]] = r
    BY <1>9, <1>k, PairedFacts
  <2>2. /\ In(r) = (inClosed[r] \/ outClosed[connection[r]])
        /\ Out(r) = (outClosed[r] \/ inClosed[connection[r]])
        /\ In(r)' = (inClosed'[r] \/ outClosed'[connection[r]])
        /\ Out(r)' = (outClosed'[r] \/ inClosed'[connection[r]])
    BY <1>2, <1>8, <1>9 DEF In, Out
  <2>3. CASE r = s
    BY <2>1, <2>2, <2>3, <1>2, <1>3, <1>5
  <2>4. CASE r = p
    BY <2>1, <2>2, <2>4, <1>2, <1>3, <1>5
  <2>5. CASE r # s /\ r # p
    <3>1. connection[r] # p
      BY <2>1, <2>5, <1>3
    <3> QED
      BY <2>1, <2>2, <2>5, <3>1, <1>2
  <2> QED
    BY <2>3, <2>4, <2>5
<1> QED
  BY <1>2, <1>7, <1>8, <1>9, SeenBy

(* The client of an accept points to the new socket, which is no pair yet. *)
LEMMA PairSeen ==
  ASSUME TypeOK, TypeOK', ArgInv, Shape, SeenInv, ClosedInv,
         NEW t \in Thread, NEW a \in Accepted, Pair(t, a)
  PROVE  SeenInv' /\ (ClosedInv' => UNCHANGED Promise!vars)
<1> USE KindsDiffer
<1> DEFINE c == with[t]
<1>0. \A r \in Client \cup Accepted \cup Listener : r \in Socket
  BY DEF Socket
<1>k. Kinds /\ Mutual /\ Living
  BY DEF Shape
<1>1. /\ pc[t] = "pair" /\ life[a] = "unborn" /\ a \in Socket
      /\ c \in Client /\ c \in Socket /\ a # c /\ a # NoSocket /\ Taken(t, c)
  BY <1>0, TakenFacts DEF Pair, Taken
<1>2. /\ connection[c] = NoSocket /\ Alive(c) /\ ~Linked(c)
      /\ \A u \in Thread : Taken(u, c) => u = t
  BY <1>1, TakenFacts
<1>3. /\ connection[a] = NoSocket /\ \A r \in Socket : connection[r] # a
      /\ ~connected[a]
  BY <1>1, <1>k DEF Living, SeenInv
<1>4. /\ UNCHANGED <<connected, inClosed, outClosed>>
      /\ open' = open \cup {a}
      /\ life'[a] = "alive" /\ \A r \in Socket : r # a => life'[r] = life[r]
      /\ connection'[c] = a /\ \A r \in Socket : r # c => connection'[r] = connection[r]
  BY <1>1 DEF Pair, TypeOK, flags
<1>5. Others(t, {}) /\ pc'[t] = "link" /\ with'[t] = c
  BY CallMoves DEF Keeps
<1>6. \A u \in Thread \ {t} : pc'[u] = "link" => pc[u] = "link" /\ with'[u] = with[u]
  BY <1>5 DEF Others, Moves
<1>7. \A u \in Thread \ {t} : pc[u] = "link" => with[u] \in Client /\ with[u] # c
  <2> SUFFICES ASSUME NEW u \in Thread \ {t}, pc[u] = "link" PROVE with[u] \in Client /\ with[u] # c
    OBVIOUS
  <2>1. with[u] \in Client /\ Taken(u, with[u])
    BY DEF ArgInv, Arguments, Taken
  <2> QED
    BY <2>1, <1>2
<1>8. \A r \in Socket : Strong(r)' => Strong(r) \/ r = a
  <2> SUFFICES ASSUME NEW r \in Socket, r # a PROVE Strong(r)' => Strong(r)
    OBVIOUS
  <2>1. \A u \in Thread \ {t} : Holds(u, r)' => Holds(u, r)
    BY <1>0, <1>4, <1>5, <1>6, <1>7 DEF Holds, Others, Moves
  <2>2. Holds(t, r)' => Holds(t, r)
    BY <1>4, <1>5, CallMoves DEF Holds, Keeps
  <2> QED
    BY <2>1, <2>2, <1>4 DEF Strong
<1>9. \A s \in Stream : Met(s)' <=> Met(s)
  <2>1. \A b \in Accepted : connection'[b] = connection[b]
    BY <1>0, <1>1, <1>4
  <2> QED
    BY <2>1, <1>4 DEF Met
<1>10. ~Met(a) /\ ~Met(c)
  BY <1>1, <1>2, <1>3 DEF Met, Linked
<1>11. ASSUME NEW s \in Stream
       PROVE  /\ Paired(s)' <=> Paired(s)
              /\ Paired(s) => s \notin {a, c} /\ connection'[s] = connection[s]
  <2>1. CASE s = c
    BY <2>1, <1>1, <1>2, <1>3, <1>4 DEF Paired
  <2>2. CASE s = a
    BY <2>2, <1>1, <1>3, <1>4 DEF Paired
  <2>3. CASE s \notin {a, c}
    <3>1. s \in Socket /\ connection'[s] = connection[s] /\ life'[s] = life[s] /\ connection[s] # a
      BY <2>3, <1>0, <1>3, <1>4 DEF Stream
    <3>2. connection[s] # c
      BY <1>1, <1>2, <1>k DEF Linked, Kinds, Stream
    <3>3. connection[s] \in Socket \cup {NoSocket}
      BY <3>1 DEF TypeOK
    <3>4. connection[s] # NoSocket => /\ connection'[connection[s]] = connection[connection[s]]
                                      /\ life'[connection[s]] = life[connection[s]]
      BY <3>1, <3>2, <3>3, <1>4
    <3> QED
      BY <2>3, <3>1, <3>4 DEF Paired
  <2> QED
    BY <2>1, <2>2, <2>3
<1>12. ASSUME NEW s \in Stream PROVE Over(s)' <=> Over(s)
  <2>1. CASE s = a
    BY <2>1, <1>1, <1>4, <1>9, <1>10 DEF Over
  <2>2. CASE s # a
    <3>1. life'[s] = life[s]
      BY <2>2, <1>0, <1>4 DEF Stream
    <3> QED
      BY <3>1, <1>9, <1>11 DEF Over
  <2> QED
    BY <2>1, <2>2
<1>13. SeenInv'
  <2>1. \A b \in Accepted :
          /\ connection'[b] # NoSocket => connected'[b]
          /\ connected'[b] => life'[b] # "unborn"
          /\ ~connected'[b] => ~inClosed'[b] /\ ~outClosed'[b]
    BY <1>0, <1>1, <1>3, <1>4 DEF SeenInv
  <2>2. \A u \in Thread : pc'[u] = "link" => ~connected'[connection'[with'[u]]]
    <3> SUFFICES ASSUME NEW u \in Thread, pc'[u] = "link" PROVE ~connected'[connection'[with'[u]]]
      OBVIOUS
    <3>1. CASE u = t
      BY <3>1, <1>3, <1>4, <1>5
    <3>2. CASE u # t
      <4>1. pc[u] = "link" /\ with'[u] = with[u] /\ connection'[with[u]] = connection[with[u]]
        BY <3>2, <1>0, <1>4, <1>6, <1>7
      <4> QED
        BY <4>1, <1>4 DEF SeenInv
    <3> QED
      BY <3>1, <3>2
  <2>3. ASSUME NEW s \in Stream, (Strong(s) /\ Met(s) /\ ~Paired(s))'
        PROVE  inClosed'[s] /\ outClosed'[s]
    <3>1. Met(s) /\ ~Paired(s) /\ s # a
      BY <2>3, <1>9, <1>10, <1>11
    <3>2. Strong(s)
      BY <2>3, <3>1, <1>0, <1>8 DEF Stream
    <3> QED
      BY <3>1, <3>2, <1>4 DEF SeenInv
  <2> QED
    BY <2>1, <2>2, <2>3 DEF SeenInv
<1>14. \A s \in Stream : Paired(s) => In(s)' = In(s) /\ Out(s)' = Out(s)
  BY <1>4, <1>11 DEF In, Out
<1> QED
  BY <1>11, <1>12, <1>13, <1>14, SeenBy

(* accept makes the pair: both ends are new to it, and nothing is closed. *)
LEMMA LinkSeen ==
  ASSUME TypeOK, TypeOK', ArgInv, Shape, Clean, SeenInv, ClosedInv,
         NEW t \in Thread, Link(t)
  PROVE  /\ SeenInv'
         /\ ClosedInv' => \E c \in Client, a \in Accepted : Promise!Pair(c, a)
<1> USE KindsDiffer
<1>0. \A r \in Client \cup Accepted \cup Listener : r \in Socket
  BY DEF Socket
<1>k. Kinds /\ Mutual
  BY DEF Shape
<1>1. PICK c \in Client, a \in Accepted :
        /\ c = with[t] /\ a = connection[c] /\ pc[t] = "link"
        /\ c \in Socket /\ a \in Socket /\ Alive(c) /\ Alive(a)
        /\ connection[a] = NoSocket /\ a # c /\ Taken(t, c) /\ ~Linked(c)
        /\ \A u \in Thread : Taken(u, c) => u = t
  BY <1>0, TakenFacts DEF Link, Taken
<1>2. /\ UNCHANGED <<life, open, inClosed, outClosed>>
      /\ connection'[a] = c /\ \A r \in Socket : r # a => connection'[r] = connection[r]
      /\ connected'[a] = TRUE /\ \A r \in Socket : r # a => connected'[r] = connected[r]
  BY <1>1 DEF Link, TypeOK
<1>3. /\ Others(t, {c}) /\ pc'[t] \in {"user", "stuck"}
      /\ on'[t] \in {on[t], NoSocket} /\ with'[t] \in {c, NoSocket}
  BY <1>1, CallMoves DEF Ended, Keeps
<1>4. \A u \in Thread : pc'[u] = "link" =>
        /\ u # t /\ pc[u] = "link" /\ with'[u] = with[u]
        /\ with[u] \in Client /\ connection[with[u]] \in Accepted /\ connection[with[u]] # a
  <2> SUFFICES ASSUME NEW u \in Thread, pc'[u] = "link"
               PROVE  /\ u # t /\ pc[u] = "link" /\ with'[u] = with[u]
                      /\ with[u] \in Client /\ connection[with[u]] \in Accepted /\ connection[with[u]] # a
    OBVIOUS
  <2>1. u # t /\ pc[u] = "link" /\ with'[u] = with[u]
    BY <1>3 DEF Others, Moves
  <2>2. with[u] \in Client /\ Taken(u, with[u])
    BY <2>1 DEF ArgInv, Arguments, Taken
  <2>3. with[u] # c /\ connection[with[u]] \in Accepted
    BY <2>1, <2>2, <1>1, <1>k DEF Mutual
  <2> QED
    BY <2>1, <2>2, <2>3, <1>1, <1>k DEF Mutual
<1>5. \A r \in Socket : Strong(r)' => Strong(r)
  <2> SUFFICES ASSUME NEW r \in Socket PROVE Strong(r)' => Strong(r)
    OBVIOUS
  <2>1. \A u \in Thread \ {t} : Holds(u, r)' => Holds(u, r)
    BY <1>0, <1>2, <1>3, <1>4 DEF Holds, Others, Moves
  <2>2. Holds(t, r)' => Holds(t, r)
    BY <1>1, <1>3 DEF Holds
  <2> QED
    BY <2>1, <2>2, <1>2 DEF Strong
<1>6. ~connected[a] /\ ~inClosed[a] /\ ~outClosed[a] /\ ~inClosed[c] /\ ~outClosed[c]
  BY <1>1 DEF SeenInv, Clean
<1>7. \A s \in {c, a} : /\ ~Met(s) /\ ~Over(s) /\ ~Paired(s)
                        /\ Paired(s)' /\ ~Over(s)'
  <2>1. ~Met(c) /\ ~Met(a) /\ life[c] = "alive" /\ life[a] = "alive" /\ life' = life
    BY <1>1, <1>2, <1>6 DEF Met, Linked, Alive
  <2>2. ~Paired(c) /\ ~Paired(a)
    BY <1>1 DEF Paired
  <2>3. connection'[c] = a /\ connection'[a] = c /\ c # NoSocket /\ a # NoSocket
    BY <1>1, <1>2
  <2>4. Paired(c)' /\ Paired(a)'
    BY <2>1, <2>3 DEF Paired
  <2> QED
    BY <2>1, <2>2, <2>4 DEF Over
<1>8. ASSUME NEW s \in Stream \ {c, a}
      PROVE  /\ Paired(s)' <=> Paired(s)
             /\ Paired(s) => connection'[s] = connection[s]
             /\ Met(s)' <=> Met(s)
  <2>1. s \in Socket /\ connection'[s] = connection[s] /\ life' = life
    BY <1>0, <1>2 DEF Stream
  <2>2. connection[s] # a
    BY <1>1, <1>k DEF Kinds, Mutual, Stream
  <2>3. connection[s] \in Socket \cup {NoSocket}
    BY <2>1 DEF TypeOK
  <2>4. Paired(s)' <=> Paired(s)
    BY <2>1, <2>2, <2>3, <1>2 DEF Paired
  <2>5. Met(s)' <=> Met(s)
    <3>1. CASE s \in Accepted
      BY <3>1, <1>0, <1>2 DEF Met
    <3>2. CASE s \notin Accepted
      <4>1. \A b \in Accepted : connection'[b] = s <=> connection[b] = s
        BY <2>1, <1>0, <1>1, <1>2
      <4> QED
        BY <3>2, <4>1 DEF Met
    <3> QED
      BY <3>1, <3>2
  <2> QED
    BY <2>1, <2>4, <2>5
<1>9. ASSUME NEW s \in Stream PROVE Over(s)' <=> Over(s)
  BY <1>2, <1>7, <1>8 DEF Over
<1>10. SeenInv'
  <2>1. \A b \in Accepted :
          /\ connection'[b] # NoSocket => connected'[b]
          /\ connected'[b] => life'[b] # "unborn"
          /\ ~connected'[b] => ~inClosed'[b] /\ ~outClosed'[b]
    BY <1>0, <1>1, <1>2 DEF SeenInv, Alive
  <2>2. \A u \in Thread : pc'[u] = "link" => ~connected'[connection'[with'[u]]]
    <3> SUFFICES ASSUME NEW u \in Thread, pc'[u] = "link" PROVE ~connected'[connection'[with'[u]]]
      OBVIOUS
    <3>1. /\ pc[u] = "link" /\ with'[u] = with[u] /\ connection[with[u]] \in Socket
          /\ connection[with[u]] # a /\ connection'[with[u]] = connection[with[u]]
      BY <1>0, <1>2, <1>4
    <3> QED
      BY <3>1, <1>2 DEF SeenInv
  <2>3. ASSUME NEW s \in Stream, (Strong(s) /\ Met(s) /\ ~Paired(s))'
        PROVE  inClosed'[s] /\ outClosed'[s]
    <3>1. Met(s) /\ ~Paired(s) /\ Strong(s)
      BY <2>3, <1>0, <1>5, <1>7, <1>8 DEF Stream
    <3> QED
      BY <3>1, <1>2 DEF SeenInv
  <2> QED
    BY <2>1, <2>2, <2>3 DEF SeenInv
<1>11. ASSUME NEW s \in Stream PROVE In(s)' = In(s) /\ Out(s)' = Out(s)
  <2>1. CASE s \in {c, a}
    <3>1. In(s) = FALSE /\ Out(s) = FALSE
      BY <2>1, <1>7 DEF In, Out, Over
    <3>2. In(s)' = (inClosed'[s] \/ outClosed'[connection'[s]])
          /\ Out(s)' = (outClosed'[s] \/ inClosed'[connection'[s]])
      BY <2>1, <1>7 DEF In, Out
    <3>3. connection'[s] \in {c, a}
      BY <2>1, <1>1, <1>2
    <3> QED
      BY <2>1, <3>1, <3>2, <3>3, <1>2, <1>6
  <2>2. CASE s \notin {c, a} /\ Paired(s)
    BY <2>2, <1>2, <1>8 DEF In, Out
  <2>3. CASE s \notin {c, a} /\ ~Paired(s)
    <3>1. In(s) = Over(s) /\ Out(s) = Over(s) /\ In(s)' = Over(s)' /\ Out(s)' = Over(s)'
      BY <2>3, <1>8 DEF In, Out
    <3>2. Over(s) \in BOOLEAN /\ Over(s)' \in BOOLEAN
      BY DEF Over
    <3> QED
      BY <3>1, <3>2, <1>9
  <2> QED
    BY <2>1, <2>2, <2>3
<1>12. ClosedInv' => Promise!Pair(c, a)
  <2>1. connection'[c] = a /\ connection'[a] = c
    BY <1>1, <1>2
  <2> QED
    BY <2>1, <1>7, <1>8, <1>9, <1>11, PairPromised
<1> QED
  BY <1>10, <1>12

(* A destructor ends a pair, if its socket is still the end of one, and    *)
(* whoever is left then, and can still be used, was told.                  *)
LEMMA HangUpSeen ==
  ASSUME TypeOK, TypeOK', ArgInv, Shape, SeenInv, ClosedInv, NEW s \in Socket, HangUp(s)
  PROVE  /\ SeenInv'
         /\ ClosedInv' => UNCHANGED Promise!vars \/ \E r \in Stream : Promise!End(r)
<1> USE KindsDiffer
<1>0. \A r \in Client \cup Accepted \cup Listener : r \in Socket
  BY DEF Socket
<1>k. Kinds /\ Mutual /\ Living
  BY DEF Shape
<1>1. ~Strong(s) /\ Alive(s) /\ s # NoSocket
  BY DEF HangUp, Alive
<1>2. /\ UNCHANGED <<open, connected>>
      /\ life'[s] = "hung up" /\ \A r \in Socket : r # s => life'[r] = life[r]
  BY DEF HangUp, TypeOK
<1>3. PICK y \in Socket \cup {NoSocket} :
        /\ \A r \in Socket :
             /\ r = y => /\ connection'[r] = NoSocket /\ connection[r] = s /\ connection[s] = r
                         /\ Alive(r) /\ r # s /\ inClosed'[r] /\ outClosed'[r]
             /\ r # y => /\ connection'[r] = connection[r]
                         /\ inClosed'[r] = inClosed[r] /\ outClosed'[r] = outClosed[r]
        /\ \A u \in Thread : ~(pc[u] = "link" /\ with[u] = y)
        /\ \A r \in Socket : Strong(r) /\ connection[r] = s => r = y
        /\ \E S : \A u \in Thread : Moves(u, S)
  <2>0. ASSUME NEW r \in Socket, Strong(r), connection[r] = s
        PROVE  connection[s] = r
    <3>1. ~Linking(r)
      BY <2>0, <1>1 DEF Linking, Strong, Holds
    <3>2. Alive(r)
      BY <2>0 DEF Shape, Living, Alive
    <3> QED
      BY <2>0, <3>1, <3>2, <1>1, <1>k DEF Mutual, Alive
  <2>1. CASE Lock(connection[s]) = NoSocket
    <3>1. UNCHANGED <<connection, inClosed, outClosed>>
      BY <2>1 DEF HangUp
    <3>2. \A u \in Thread : Moves(u, {})
      BY <2>1, DestroyMoves
    <3>3. \A r \in Socket : ~(Strong(r) /\ connection[r] = s)
      BY <2>0, <2>1, <1>0 DEF Lock
    <3>4. \A u \in Thread : ~(pc[u] = "link" /\ with[u] = NoSocket)
      BY <1>0 DEF ArgInv, Arguments
    <3>5. \A r \in Socket : r # NoSocket
      OBVIOUS
    <3> QED
      BY <3>1, <3>2, <3>3, <3>4, <3>5
  <2>2. CASE Lock(connection[s]) # NoSocket
    <3> DEFINE y == connection[s]
    <3>1. /\ y \in Socket /\ connection[y] = s /\ y # s /\ Alive(y) /\ Free(y)
          /\ connection' = [connection EXCEPT ![y] = NoSocket]
          /\ CloseDirections(y, TRUE, TRUE)
          /\ \A u \in Thread : Moves(u, {y})
      BY <2>2, HangUpFacts
    <3>2. \A r \in Socket : /\ r = y => connection'[r] = NoSocket /\ inClosed'[r] /\ outClosed'[r]
                            /\ r # y => /\ connection'[r] = connection[r]
                                        /\ inClosed'[r] = inClosed[r] /\ outClosed'[r] = outClosed[r]
      BY <3>1 DEF TypeOK, CloseDirections
    <3>3. \A r \in Socket : Strong(r) /\ connection[r] = s => r = y
      BY <2>0
    <3>4. connection[s] = y
      OBVIOUS
    <3> HIDE DEF y
    <3> QED
      BY <3>1, <3>2, <3>3, <3>4 DEF Free
  <2> QED
    BY <2>1, <2>2
<1>4. \A r \in Socket : connection'[r] # NoSocket => connection'[r] = connection[r] /\ r # y
  BY <1>3
<1>5. \A u \in Thread : /\ pc'[u] = "link" <=> pc[u] = "link"
                        /\ on'[u] = on[u] /\ with'[u] = with[u]
  BY <1>3 DEF Moves
<1>6. \A u \in Thread : pc[u] = "link" => /\ with[u] \in Socket /\ with[u] # y
                                          /\ connection'[with[u]] = connection[with[u]]
  BY <1>0, <1>3 DEF ArgInv, Arguments
<1>7. \A r \in Socket : Strong(r)' => Strong(r)
  <2>1. \A r \in Socket, u \in Thread : Holds(u, r)' => Holds(u, r)
    BY <1>5, <1>6 DEF Holds
  <2> QED
    BY <2>1, <1>2 DEF Strong
<1> DEFINE ends == IF Paired(s) THEN {s, connection[s]} ELSE {s}
<1>8. ASSUME NEW r \in Stream \ {s} PROVE Met(r)' <=> Met(r)
  <2>1. CASE r \in Accepted
    BY <2>1, <1>2 DEF Met
  <2>2. CASE r \notin Accepted
    <3>1. r # NoSocket
      BY <1>0 DEF Stream
    <3>2. \A b \in Accepted : connection'[b] = r <=> connection[b] = r
      BY <3>1, <1>0, <1>3
    <3> QED
      BY <2>2, <3>2 DEF Met
  <2> QED
    BY <2>1, <2>2
<1>9. y \in Socket => y \in ends
  BY <1>1, <1>3 DEF Paired, Alive
<1>10. ASSUME NEW r \in Stream \ ends
       PROVE  /\ Paired(r)' <=> Paired(r)
              /\ Paired(r) => /\ connection[r] \in Socket /\ connection[r] # y
                              /\ connection'[r] = connection[r]
  <2>1. r \in Socket /\ r # s /\ r # y /\ r # NoSocket /\ connection'[r] = connection[r] /\ life'[r] = life[r]
    BY <1>0, <1>2, <1>3, <1>9 DEF Stream
  <2>2. connection[r] \in Socket \cup {NoSocket}
    BY <2>1 DEF TypeOK
  <2>3. Paired(r) => connection[r] # s /\ connection[r] # y
    BY <2>1, <1>1, <1>3 DEF Paired, Alive
  <2>4. ASSUME Paired(r) PROVE Paired(r)'
    <3>1. /\ connection[r] # NoSocket /\ connection[connection[r]] = r
          /\ life[r] = "alive" /\ life[connection[r]] = "alive"
      BY <2>4 DEF Paired
    <3>2. connection'[connection[r]] = r /\ life'[connection[r]] = "alive"
      BY <3>1, <2>2, <2>3, <2>4, <1>2, <1>3
    <3> QED
      BY <2>1, <3>1, <3>2 DEF Paired
  <2>5. ASSUME Paired(r)' PROVE Paired(r)
    <3>1. connection[r] \in Socket /\ connection'[connection[r]] = r /\ life'[connection[r]] = "alive"
      BY <2>1, <2>2, <2>5 DEF Paired
    <3>2. connection[connection[r]] = r /\ connection[r] # s
      BY <3>1, <2>1, <1>2, <1>4
    <3> QED
      BY <2>1, <2>5, <3>1, <3>2, <1>2 DEF Paired
  <2> QED
    BY <2>1, <2>2, <2>3, <2>4, <2>5 DEF Paired
<1>11. ASSUME NEW r \in Stream \ ends PROVE Over(r)' <=> Over(r)
  <2>1. r # s /\ life'[r] = life[r]
    BY <1>0, <1>2 DEF Stream
  <2> QED
    BY <2>1, <1>8, <1>10 DEF Over
<1>12. ASSUME NEW r \in Stream \ ends PROVE In(r)' = In(r) /\ Out(r)' = Out(r)
  <2>1. r \in Socket /\ r # y
    BY <1>0, <1>9 DEF Stream
  <2>2. CASE Paired(r)
    BY <2>1, <2>2, <1>3, <1>10 DEF In, Out
  <2>3. CASE ~Paired(r)
    <3>1. In(r) = Over(r) /\ Out(r) = Over(r) /\ In(r)' = Over(r)' /\ Out(r)' = Over(r)'
      BY <2>3, <1>10 DEF In, Out
    <3>2. Over(r) \in BOOLEAN /\ Over(r)' \in BOOLEAN
      BY DEF Over
    <3> QED
      BY <3>1, <3>2, <1>11
  <2> QED
    BY <2>2, <2>3
<1>13. SeenInv'
  <2>1. ASSUME NEW b \in Accepted
        PROVE  /\ connection'[b] # NoSocket => connected'[b]
               /\ connected'[b] => life'[b] # "unborn"
               /\ ~connected'[b] => ~inClosed'[b] /\ ~outClosed'[b]
    <3>1. connected'[b] = connected[b] /\ b \in Socket /\ (life'[b] = "unborn" => life[b] = "unborn")
      BY <1>0, <1>2
    <3>2. b = y => connected[b]
      BY <3>1, <1>1, <1>3 DEF SeenInv
    <3>3. /\ connection[b] # NoSocket => connected[b]
          /\ connected[b] => life[b] # "unborn"
          /\ ~connected[b] => ~inClosed[b] /\ ~outClosed[b]
      BY DEF SeenInv
    <3>4. b # y => /\ connection'[b] = connection[b]
                   /\ inClosed'[b] = inClosed[b] /\ outClosed'[b] = outClosed[b]
      BY <3>1, <1>3
    <3>5. CASE b = y
      BY <3>1, <3>2, <3>3, <3>5
    <3>6. CASE b # y
      BY <3>1, <3>3, <3>4, <3>6
    <3> QED
      BY <3>5, <3>6
  <2>2. \A u \in Thread : pc'[u] = "link" => ~connected'[connection'[with'[u]]]
    <3> SUFFICES ASSUME NEW u \in Thread, pc'[u] = "link" PROVE ~connected'[connection'[with'[u]]]
      OBVIOUS
    <3>1. pc[u] = "link" /\ with'[u] = with[u] /\ connection'[with[u]] = connection[with[u]]
      BY <1>5, <1>6
    <3> QED
      BY <3>1, <1>2 DEF SeenInv
  <2>3. ASSUME NEW r \in Stream, (Strong(r) /\ Met(r) /\ ~Paired(r))'
        PROVE  inClosed'[r] /\ outClosed'[r]
    <3>1. r \in Socket /\ Strong(r) /\ r # s
      BY <2>3, <1>0, <1>1, <1>7 DEF Stream
    <3>2. Met(r)
      BY <2>3, <3>1, <1>8
    <3>3. CASE r = y
      BY <3>1, <3>3, <1>3
    <3>4. CASE r # y
      <4>1. r \notin ends
        <5> SUFFICES ASSUME Paired(s), r = connection[s] PROVE FALSE
          BY <3>1
        <5>1. connection[r] = s
          BY DEF Paired
        <5> QED
          BY <5>1, <3>1, <3>4, <1>3
      <4>2. ~Paired(r)
        BY <2>3, <4>1, <1>10
      <4> QED
        BY <3>1, <3>2, <3>4, <4>2, <1>3 DEF SeenInv
    <3> QED
      BY <3>3, <3>4
  <2> QED
    BY <2>1, <2>2, <2>3 DEF SeenInv
<1>14. CASE s \in Listener
  <2>1. ~Paired(s) /\ \A r \in Stream : r \notin ends
    BY <1>14, <1>k DEF Kinds, Paired, Stream
  <2> QED
    BY <2>1, <1>10, <1>11, <1>12, <1>13, SeenBy
<1>15. CASE s \notin Listener
  <2>1. s \in Stream
    BY <1>15 DEF Stream, Socket
  <2>2. Paired(s) => /\ connection[s] \in Socket /\ connection[s] \in Stream /\ connection[s] # s
                     /\ connection[connection[s]] = s /\ Met(connection[s])
                     /\ life[connection[s]] = "alive"
    <3> SUFFICES ASSUME Paired(s)
                 PROVE  /\ connection[s] \in Socket /\ connection[s] \in Stream /\ connection[s] # s
                        /\ connection[connection[s]] = s /\ Met(connection[s])
                        /\ life[connection[s]] = "alive"
      OBVIOUS
    <3>1. life[connection[s]] = "alive"
      BY DEF Paired
    <3> QED
      BY <2>1, <3>1, <1>k, PairedFacts
  <2>3. ends \in SUBSET Stream
    BY <2>1, <2>2
  <2>4. ~Paired(s)' /\ Over(s)'
    BY <1>2 DEF Paired, Over
  <2>5. ASSUME NEW r \in ends, r # s PROVE ~Paired(r)' /\ Over(r)'
    <3>1. /\ r \in Socket /\ r \in Stream /\ connection[r] = s /\ Met(r)'
          /\ life'[r] = "alive"
      BY <2>2, <2>5, <1>2, <1>8
    <3>2. ~Paired(r)'
      <4>1. connection'[r] # NoSocket => connection'[r] = s
        BY <3>1, <1>4
      <4> QED
        BY <4>1, <1>2 DEF Paired
    <3> QED
      BY <3>1, <3>2 DEF Over
  <2> HIDE DEF ends
  <2>6. ClosedInv' => Promise!End(s)
    <3>1. ends = IF Paired(s) THEN {s, connection[s]} ELSE {s}
      BY DEF ends
    <3> QED
      BY <2>1, <2>3, <2>4, <2>5, <3>1, <1>10, <1>11, <1>12, EndPromised
  <2> QED
    BY <2>1, <2>6, <1>13
<1> QED
  BY <1>14, <1>15

(* Every step of the sockets is one that the promise allows. *)
LEMMA SeenStep ==
  ASSUME OneListener, Inv, SeenInv, ClosedInv, [Next]_vars
  PROVE  SeenInv' /\ (ClosedInv' => [Promise!Next]_Promise!vars)
<1>0. /\ TypeOK /\ TypeOK' /\ ArgInv /\ HoldsEnds /\ Shape /\ Clean
      /\ Kinds /\ Living /\ Mutual
  BY TypeStep DEF Inv, Shape
<1>u. Unseen => SeenInv' /\ (ClosedInv' => UNCHANGED Promise!vars)
  BY <1>0, UnseenSeen
<1>1. ASSUME NEW t \in Thread, Starts(t)
      PROVE  SeenInv' /\ (ClosedInv' => [Promise!Next]_Promise!vars)
  <2>1. CASE \E s \in Socket, how \in How : Shutdown(t, s, how)
    <3>1. PICK s \in Socket, how \in How : Shutdown(t, s, how)
      BY <2>1
    <3>2. /\ SeenInv'
          /\ ClosedInv' => \E r \in Stream, i, o \in BOOLEAN : Promise!Shutdown(r, i, o)
      BY <3>1, <1>0, ShutdownSeen
    <3> QED
      BY <3>2 DEF Promise!Next, Promise!Socket, Stream
  <2>2. CASE \/ \E c \in Client, l \in Listener : Connect(t, c, l)
             \/ \E l \in Listener : Accept(t, l)
             \/ \E s \in Socket : Write(t, s)
    BY <2>2, <1>0, <1>u, ThreadUnseen
  <2>3. CASE \E s \in Socket : Close(t, s)
    BY <2>3, <1>0, <1>u, StillUnseen
  <2> QED
    BY <1>1, <2>1, <2>2, <2>3 DEF Starts
<1>2. ASSUME NEW t \in Thread, Continues(t) \/ Stir(t) \/ Interrupt(t)
      PROVE  SeenInv' /\ (ClosedInv' => [Promise!Next]_Promise!vars)
  <2>1. CASE \/ Claim(t) \/ Queue(t) \/ ConnectWait(t) \/ ConnectWoken(t)
             \/ Stir(t) \/ Interrupt(t) \/ Look(t)
    BY <2>1, <1>0, <1>u, ThreadUnseen
  <2>2. CASE \E a \in Accepted : Pair(t, a)
    <3>1. PICK a \in Accepted : Pair(t, a)
      BY <2>2
    <3> QED
      BY <3>1, <1>0, PairSeen
  <2>3. CASE Link(t)
    <3>1. /\ SeenInv'
          /\ ClosedInv' => \E c \in Client, a \in Accepted : Promise!Pair(c, a)
      BY <2>3, <1>0, LinkSeen
    <3> QED
      BY <3>1 DEF Promise!Next
  <2>4. CASE ShutdownPeer(t)
    BY <2>4, <1>0, ShutdownPeerSeen
  <2> QED
    BY <1>2, <2>1, <2>2, <2>3, <2>4 DEF Continues
<1>3. ASSUME NEW s \in Socket, Destroys(s)
      PROVE  SeenInv' /\ (ClosedInv' => [Promise!Next]_Promise!vars)
  <2>1. CASE HangUp(s)
    <3>1. /\ SeenInv'
          /\ ClosedInv' => UNCHANGED Promise!vars \/ \E r \in Stream : Promise!End(r)
      BY <2>1, <1>0, HangUpSeen
    <3> QED
      BY <3>1 DEF Promise!Next, Promise!Socket, Stream
  <2>2. CASE LeaveQueue(s) \/ Drain(s)
    BY <2>2, <1>0, <1>u, StillUnseen
  <2> QED
    BY <1>3, <2>1, <2>2 DEF Destroys
<1>4. CASE UNCHANGED vars
  BY <1>4, <1>0, <1>u, StillUnseen
<1> QED
  BY <1>1, <1>2, <1>3, <1>4 DEF Next

\* no socket has met another yet
LEMMA SeenInit ==
  ASSUME Init
  PROVE  SeenInv /\ Promise!Init
<1> USE KindsDiffer
<1>0. /\ \A s \in Socket : /\ connection[s] = NoSocket /\ connected[s] = FALSE
                           /\ inClosed[s] = FALSE /\ outClosed[s] = FALSE
      /\ \A t \in Thread : pc[t] = "user"
      /\ \A s \in Stream : s \in Socket /\ s # NoSocket
      /\ \A a \in Accepted : a \in Socket
  BY DEF Init, Stream, Socket
<1>1. \A s \in Stream : life[s] \in {"unborn", "alive"}
  BY <1>0 DEF Init
<1>2. \A s \in Stream : ~Met(s) /\ ~Paired(s)
  BY <1>0 DEF Met, Paired
<1>3. \A s \in Stream : ~Over(s)
  BY <1>1, <1>2 DEF Over
<1>4. \A s \in Stream : Closed(s, inClosed, outClosed) = FALSE /\ Closed(s, outClosed, inClosed) = FALSE
  <2> SUFFICES ASSUME NEW s \in Stream
               PROVE  Closed(s, inClosed, outClosed) = FALSE /\ Closed(s, outClosed, inClosed) = FALSE
    OBVIOUS
  <2>1. Over(s) = FALSE
    BY <1>3 DEF Over
  <2> QED
    BY <2>1, <1>0, <1>2 DEF Closed
<1>5. SeenInv
  BY <1>0, <1>2 DEF SeenInv
<1>6. Promise!Socket = Stream
  BY DEF Promise!Socket, Stream
<1>7. Promise!Init
  BY <1>2, <1>3, <1>4, <1>6 DEF Promise!Init
<1> QED
  BY <1>5, <1>7

(* With one listener and one connecting thread per socket, connect,        *)
(* accept, shutdown and the destructor, with the steps they take under one *)
(* lock after another, implement pairs that come together once, are closed *)
(* in a direction for both ends at once, and end as one.                   *)
THEOREM PairsImplemented ==
  ASSUME OneListener, OneConnector
  PROVE  Spec => ImplementsPairs
<1>1. Init => SeenInv /\ Promise!Init
  BY SeenInit
<1>2. Inv /\ SeenInv => ClosedInv
  BY ClosedIs DEF Inv, Shape
<1>3. Inv /\ SeenInv /\ ClosedInv /\ [Next]_vars => SeenInv' /\ (ClosedInv' => [Promise!Next]_Promise!vars)
  BY SeenStep
<1>4. Spec => []Inv
  BY InvCorrect
<1> QED
  BY <1>1, <1>2, <1>3, <1>4, PTL DEF Spec, ImplementsPairs, Promise!Spec
=============================================================================
