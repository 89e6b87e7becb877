-------------------------------- MODULE Poll ---------------------------------
(***************************************************************************)
(* Waiting for readiness in the multi-threaded build: internal_poll        *)
(* (source/kernel/kpoll.cpp), which poll, select and epoll_wait share, the *)
(* parents of a condition (source/util/synchronization.cpp), and the       *)
(* objects that signal them: eventfd (kevent.cpp), signalfd (ksignal.cpp)  *)
(* and connected unix sockets (kunixsocket.cpp).                           *)
(*                                                                         *)
(* A poller makes the condition of its thread a parent of the condition of *)
(* every object it polls, looks at the objects, and sleeps.  Whoever       *)
(* changes an object holds its lock, walks the parent slots of its         *)
(* condition and, for each parent, takes the parent's lock and notifies.   *)
(***************************************************************************)
EXTENDS Integers, FiniteSets

CONSTANTS
  Thread,
  Event, SignalFd, Socket,  \* the objects, by kind
  Peer,        \* the other end of a socket
  Limit,       \* largest level of an object; bounds the bytes in a socket
  MaxParents,  \* parent slots of a condition
  Polls,       \* sets of requests each thread may poll
  Calls,       \* other calls each thread may make
  Timed,       \* threads whose polls a timeout or a signal may end
  Renumbered,  \* threads whose descriptors others close, or reuse, while they poll
  InOrder,     \* parentCount is never loaded before the change is stored
  NoThread, NoCall

Object == Event \cup SignalFd \cup Socket
Request == [obj : Object, want : {"in", "out"}]
Call == [op : {"read", "write", "post", "close"}, obj : Object,
         table : BOOLEAN, blocks : BOOLEAN]

ASSUME PollAssumption ==
  /\ Event \cap SignalFd = {} /\ Event \cap Socket = {} /\ SignalFd \cap Socket = {}
  /\ Peer \in [Socket -> Socket]
  /\ \A s \in Socket : Peer[s] # s /\ Peer[Peer[s]] = s
  /\ Limit \in Nat \ {0}
  /\ MaxParents \in Nat \ {0}
  /\ Polls \in [Thread -> SUBSET SUBSET Request]
  /\ \A t \in Thread : \A S \in Polls[t] :
       S # {} /\ \A r \in S : r.want = "in" \/ r.obj \notin SignalFd
  /\ Calls \in [Thread -> SUBSET Call]
  /\ \A t \in Thread : \A c \in Calls[t] :
       /\ c.op = "post" => c.obj \in SignalFd
       /\ c.obj \in SignalFd => c.op \in {"post", "read"} /\ ~c.blocks
       /\ c.op = "read" => ~c.table
       /\ c.op = "post" => c.table
       /\ c.op = "close" => c.obj \in Socket /\ ~c.table
  /\ Timed \subseteq Thread /\ Renumbered \subseteq Thread
  /\ InOrder \in BOOLEAN
  /\ NoThread \notin Thread
  /\ NoCall \notin Call

VARIABLES
  level,     \* counter, bytes to receive, or whether a signal is pending
  hungUp,    \* inClosed and outClosed of a socket whose peer is destroyed
  dead,      \* sockets whose last descriptor is closed
  early,     \* objects last changed by a call that was early to look for parents,
             \* and saw none where there is one (for the properties)
  parents,   \* BoxedWineCondition::parents of each object's lockCond
  pollLock,  \* holder of the mutex of each thread's pollCond
  fdsLock,   \* holder of KProcess::fdsMutex
  objLock,   \* holder of the mutex of each lockCond
  pc,        \* where each thread is
  now,       \* requests of its poll, with the objects its descriptors lead to now
  polled,    \* those it registered in this turn of its loop
  todo,      \* those it has still to register or to look at
  found,     \* whether it found one ready
  call,      \* its read, write, signal or close
  walk       \* its walk over parent slots: next slot, parent, why

vars == <<level, hungUp, dead, early, parents, pollLock, fdsLock, objLock, pc,
          now, polled, todo, found, call, walk>>
objects == <<level, hungUp, dead, early>>
polling == <<now, polled, todo, found>>

Slot == 1 .. MaxParents
Walk == [slot : 1 .. MaxParents + 2, parent : Thread \cup {NoThread}, resuming : BOOLEAN]
NoWalk == [slot |-> 1, parent |-> NoThread, resuming |-> FALSE]

Init ==
  /\ level = [o \in Object |-> 0]
  /\ hungUp = [o \in Object |-> FALSE]
  /\ dead = {}
  /\ early = {}
  /\ parents = [o \in Object |-> [s \in Slot |-> NoThread]]
  /\ pollLock = [t \in Thread |-> NoThread]
  /\ fdsLock = NoThread
  /\ objLock = [o \in Object |-> NoThread]
  /\ pc = [t \in Thread |-> "user"]
  /\ now = [t \in Thread |-> {}]
  /\ polled = [t \in Thread |-> {}]
  /\ todo = [t \in Thread |-> {}]
  /\ found = [t \in Thread |-> FALSE]
  /\ call = [t \in Thread |-> NoCall]
  /\ walk = [t \in Thread |-> NoWalk]

Goto(t, l) == pc' = [pc EXCEPT ![t] = l]

-----------------------------------------------------------------------------
(* Parent slots *)

HasParent(o, t) == \E s \in Slot : parents[o][s] = t
Full(o, t) == ~HasParent(o, t) /\ \A s \in Slot : parents[o][s] # NoThread
FirstFree(o) ==
  CHOOSE s \in Slot : parents[o][s] = NoThread /\ \A u \in 1 .. s - 1 : parents[o][u] # NoThread

\* mutant of AddParent: it is not tested whether the thread is there
AddParentAgain(o, t) ==
  IF \A s \in Slot : parents[o][s] # NoThread THEN parents[o]
                                             ELSE [parents[o] EXCEPT ![FirstFree(o)] = t]

\* addParentCondition and removeParentCondition
AddParent(o, t) ==
  IF HasParent(o, t) THEN parents[o] ELSE [parents[o] EXCEPT ![FirstFree(o)] = t]
RemoveParent(o, t) ==
  [s \in Slot |-> IF parents[o][s] = t THEN NoThread ELSE parents[o][s]]

(* waitForEvents: POLLERR is always asked for, so the object's own         *)
(* condition gets a parent; a socket polled for writing adds one to its    *)
(* peer's.                                                                 *)
Reaches(r) == {r.obj} \cup IF r.want = "out" /\ r.obj \in Socket THEN {Peer[r.obj]} ELSE {}
Conds(r) == Reaches(r) \ dead

\* isReadReady, isWriteReady, and isOpen for POLLHUP
Ready(r) ==
  \/ hungUp[r.obj]
  \/ r.want = "in" /\ level[r.obj] > 0
  \/ r.want = "out" /\ r.obj \in Event /\ level[r.obj] < Limit
  \/ r.want = "out" /\ r.obj \in Socket /\ Peer[r.obj] \notin dead

-----------------------------------------------------------------------------
(* internal_poll *)

PollPC == {"poll", "table", "register", "look", "looked", "asleep", "woken",
           "clear", "return", "panic"}
InPoll(t) == pc[t] \in PollPC
Asked(t) == UNION Polls[t]

BeginPoll(t, S) ==
  /\ pc[t] = "user"
  /\ now' = [now EXCEPT ![t] = S]
  /\ Goto(t, "poll")
  /\ UNCHANGED <<objects, parents, pollLock, fdsLock, objLock, polled, todo, found,
                 call, walk>>

(* Another thread of the process closes a descriptor of the poll, and may  *)
(* get its number for something else.  What it led to has more descriptors. *)
Renumber(t, r) ==
  /\ t \in Renumbered
  /\ InPoll(t)
  /\ fdsLock = NoThread
  /\ \E N \in {{}} \cup {{q} : q \in {q \in Asked(t) : q.want = r.want /\ q.obj \notin dead}} :
       now' = [now EXCEPT ![t] = (@ \ {r}) \cup N]
  /\ UNCHANGED <<objects, parents, pollLock, fdsLock, objLock, pc, polled, todo, found,
                 call, walk>>

LockPoll(t) ==
  /\ pc[t] = "poll"
  /\ pollLock[t] = NoThread
  /\ pollLock' = [pollLock EXCEPT ![t] = t]
  /\ Goto(t, "table")
  /\ UNCHANGED <<objects, parents, fdsLock, objLock, polling, call, walk>>

LockTable(t) ==
  /\ pc[t] = "table"
  /\ fdsLock = NoThread
  /\ fdsLock' = t
  /\ polled' = [polled EXCEPT ![t] = now[t]]
  /\ todo' = [todo EXCEPT ![t] = now[t]]
  /\ found' = [found EXCEPT ![t] = FALSE]
  /\ Goto(t, IF now[t] = {} THEN "looked" ELSE "register")
  /\ UNCHANGED <<objects, parents, pollLock, objLock, now, call, walk>>

Advance(t, r, l) == \* the loop over the requests ends, and the next begins
  IF todo[t] = {r} THEN todo' = [todo EXCEPT ![t] = polled[t]] /\ Goto(t, l)
                   ELSE todo' = [todo EXCEPT ![t] = @ \ {r}] /\ UNCHANGED pc

\* a descriptor that was closed is skipped; no free slot is a panic
Register(t, r) ==
  /\ pc[t] = "register"
  /\ r \in todo[t]
  /\ IF r.obj \in dead
       THEN UNCHANGED parents /\ Advance(t, r, "look")
       ELSE IF \E o \in Conds(r) : Full(o, t)
         THEN Goto(t, "panic") /\ UNCHANGED <<parents, todo>>
         ELSE /\ parents' = [o \in Object |-> IF o \in Conds(r) THEN AddParent(o, t)
                                                                 ELSE parents[o]]
              /\ Advance(t, r, "look")
  /\ UNCHANGED <<objects, pollLock, fdsLock, objLock, now, polled, found, call, walk>>

Look(t, r) ==
  /\ pc[t] = "look"
  /\ r \in todo[t]
  /\ found' = [found EXCEPT ![t] = @ \/ (r.obj \notin dead /\ Ready(r))]
  /\ Advance(t, r, "looked")
  /\ UNCHANGED <<objects, parents, pollLock, fdsLock, objLock, now, polled, call, walk>>

(* With nothing ready the thread sleeps, unless its timeout is over.  The  *)
(* condition's mutex is released by the wait.                              *)
Looked(t) ==
  /\ pc[t] = "looked"
  /\ fdsLock' = NoThread
  /\ \/ /\ found[t] \/ t \in Timed
        /\ Goto(t, "return")
        /\ UNCHANGED pollLock
     \/ /\ ~found[t]
        /\ Goto(t, "asleep")
        /\ pollLock' = [pollLock EXCEPT ![t] = NoThread]
  /\ UNCHANGED <<objects, parents, objLock, polling, call, walk>>

Expire(t) ==
  /\ pc[t] = "asleep"
  /\ t \in Timed
  /\ Goto(t, "woken")
  /\ UNCHANGED <<objects, parents, pollLock, fdsLock, objLock, polling, call, walk>>

Rewake(t) ==
  /\ pc[t] = "woken"
  /\ pollLock[t] = NoThread
  /\ pollLock' = [pollLock EXCEPT ![t] = t]
  /\ Goto(t, "clear")
  /\ UNCHANGED <<objects, parents, fdsLock, objLock, polling, call, walk>>

(* clearPollData: waitForEvents with no events, which drops the parent of  *)
(* the object's own condition.  It looks the descriptors up again: what    *)
(* was registered under a number that leads elsewhere is left behind.      *)
Unregister(t) ==
  parents' = [o \in Object |->
    IF \E r \in now[t] : r.obj = o /\ o \notin dead
      THEN RemoveParent(o, t) ELSE parents[o]]

(* A poll that found something, or whose time is over, returns; one that   *)
(* was woken looks again, unless it was woken for a signal handler.        *)
ClearPoll(t) ==
  /\ pc[t] \in {"return", "clear"}
  /\ fdsLock = NoThread
  /\ Unregister(t)
  /\ pollLock' = [pollLock EXCEPT ![t] = NoThread]
  /\ \/ /\ pc[t] = "return" \/ t \in Timed
        /\ Goto(t, "user")
        /\ now' = [now EXCEPT ![t] = {}]
     \/ /\ pc[t] = "clear"
        /\ Goto(t, "poll")
        /\ UNCHANGED now
  /\ polled' = [polled EXCEPT ![t] = {}]
  /\ todo' = [todo EXCEPT ![t] = {}]
  /\ found' = [found EXCEPT ![t] = FALSE]
  /\ UNCHANGED <<objects, fdsLock, objLock, call, walk>>

-----------------------------------------------------------------------------
(* Reads, writes, signals and closes *)

(* The object whose condition a call locks: a socket is written to, and   *)
(* hung up on, from the other end.                                         *)
Target(c) == IF c.obj \in Socket /\ c.op # "read" THEN Peer[c.obj] ELSE c.obj

\* a descriptor, or a reference a call has taken, keeps the socket
InUse(s) ==
  \E t \in Thread :
    /\ call[t] # NoCall
    /\ \/ call[t].obj = s
       \/ Target(call[t]) = s /\ (call[t].op = "write" \/ pc[t] = "signal")

\* a call on a broken pipe returns at once
Broken(c) == c.obj \in Socket /\ Peer[c.obj] \in dead /\ ~hungUp[c.obj]

Accepts(c) ==
  CASE c.op = "close" -> fdsLock = NoThread /\ ~InUse(c.obj)
    [] c.op = "read"  -> ~Broken(c)
    [] c.op = "write" /\ c.obj \in Socket ->
         Peer[c.obj] \notin dead /\ ~hungUp[c.obj] /\ level[Peer[c.obj]] < Limit
    [] OTHER -> TRUE

(* A signal is pending before the signalfd is looked for; sendfile and the *)
(* search for a signalfd hold the descriptor table; the last close of a    *)
(* socket empties its entry first.                                         *)
BeginCall(t, c) ==
  /\ pc[t] = "user"
  /\ c.obj \notin dead
  /\ Accepts(c)
  /\ call' = [call EXCEPT ![t] = c]
  /\ level' = IF c.op = "post" THEN [level EXCEPT ![c.obj] = 1] ELSE level
  /\ dead' = IF c.op = "close" THEN dead \cup {c.obj} ELSE dead
  /\ Goto(t, IF c.table THEN "locktable" ELSE "lock")
  /\ UNCHANGED <<hungUp, early, parents, pollLock, fdsLock, objLock, polling, walk>>

TakeTable(t) ==
  /\ pc[t] = "locktable"
  /\ fdsLock = NoThread
  /\ fdsLock' = t
  /\ Goto(t, "lock")
  /\ UNCHANGED <<objects, parents, pollLock, objLock, polling, call, walk>>

\* the lock, free or kept over a wait
Enters(t, o) ==
  /\ pc[t] = "lock"
  /\ Target(call[t]) = o
  /\ objLock[o] \in {NoThread, t}
  /\ o \in SignalFd => call[t].op = "post"

(* signal tests the plain counter parentCount without the mutex that       *)
(* guards it: nothing keeps the load after the store of what the call      *)
(* changes, which a poller loads without a lock too.                       *)
LoadEarly(t, o) ==
  /\ ~InOrder
  /\ Enters(t, o)
  /\ call[t].op \in {"read", "write", "close"}
  /\ o \notin dead
  /\ \A s \in Slot : parents[o][s] = NoThread
  /\ objLock' = [objLock EXCEPT ![o] = t]
  /\ walk' = [walk EXCEPT ![t].slot = MaxParents + 1]
  /\ UNCHANGED <<objects, parents, pollLock, fdsLock, pc, polling, call>>

Change(t, o) ==
  /\ objLock' = [objLock EXCEPT ![o] = t]
  /\ early' = IF walk[t].slot = 1 \/ \A s \in Slot : parents[o][s] = NoThread
                THEN early \ {o} ELSE early \cup {o}
  /\ Goto(t, "signal")
  /\ UNCHANGED <<dead, parents, pollLock, fdsLock, polling, call, walk>>

Leave(t, o) ==
  /\ objLock' = [objLock EXCEPT ![o] = NoThread]
  /\ fdsLock' = IF fdsLock = t THEN NoThread ELSE fdsLock
  /\ call' = [call EXCEPT ![t] = NoCall]
  /\ Goto(t, "user")
  /\ walk' = [walk EXCEPT ![t] = NoWalk]
  /\ UNCHANGED <<objects, parents, pollLock, polling>>

\* mutant of Write: the counter is not tested for overflow
WriteOver(t, o) ==
  /\ Enters(t, o)
  /\ call[t].op = "write"
  /\ level' = [level EXCEPT ![o] = @ + 1]
  /\ UNCHANGED hungUp
  /\ Change(t, o)

Write(t, o) ==
  /\ Enters(t, o)
  /\ call[t].op = "write"
  /\ level[o] < Limit
  /\ level' = [level EXCEPT ![o] = @ + 1]
  /\ UNCHANGED hungUp
  /\ Change(t, o)

\* mutant of Read: what was read is not signalled
ReadQuietly(t, o) ==
  /\ Enters(t, o)
  /\ call[t].op = "read"
  /\ level[o] > 0
  /\ level' = [level EXCEPT ![o] = 0]
  /\ objLock' = [objLock EXCEPT ![o] = NoThread]
  /\ call' = [call EXCEPT ![t] = NoCall]
  /\ walk' = [walk EXCEPT ![t] = NoWalk]
  /\ Goto(t, "user")
  /\ UNCHANGED <<hungUp, dead, early, parents, pollLock, fdsLock, polling>>

\* an eventfd is reset, a socket gives up what is asked for
Read(t, o) ==
  /\ Enters(t, o)
  /\ call[t].op = "read"
  /\ level[o] > 0
  /\ \E n \in 1 .. level[o] :
       /\ o \in Event => n = level[o]
       /\ level' = [level EXCEPT ![o] = @ - n]
  /\ UNCHANGED hungUp
  /\ Change(t, o)

\* mutant of Post: only a thread that reads the signalfd is looked for
PostQuietly(t, o) ==
  /\ Enters(t, o)
  /\ call[t].op = "post"
  /\ Leave(t, o)

Post(t, o) ==
  /\ Enters(t, o)
  /\ call[t].op = "post"
  /\ UNCHANGED <<level, hungUp>>
  /\ Change(t, o)

\* a signalfd that does not block: what is pending has a mutex of its own
TakeSignals(t) ==
  /\ pc[t] = "lock"
  /\ call[t].op = "read"
  /\ call[t].obj \in SignalFd
  /\ level' = [level EXCEPT ![call[t].obj] = 0]
  /\ call' = [call EXCEPT ![t] = NoCall]
  /\ Goto(t, "user")
  /\ UNCHANGED <<hungUp, dead, early, parents, pollLock, fdsLock, objLock, polling, walk>>

\* mutant of HangUp: the destructor signals its own condition only
HangUpSilently(t, o) ==
  /\ Enters(t, o)
  /\ call[t].op = "close"
  /\ hungUp' = [hungUp EXCEPT ![o] = TRUE]
  /\ walk' = [walk EXCEPT ![t] = NoWalk]
  /\ Goto(t, "ownsignal")
  /\ UNCHANGED <<level, dead, early, parents, pollLock, fdsLock, objLock, polling, call>>

\* the destructor of a connected socket
HangUp(t, o) ==
  /\ Enters(t, o)
  /\ call[t].op = "close"
  /\ o \notin dead
  /\ hungUp' = [hungUp EXCEPT ![o] = TRUE]
  /\ UNCHANGED level
  /\ Change(t, o)

\* nothing to read, or no room in a counter
Stuck(t, o) ==
  \/ call[t].op = "read" /\ level[o] = 0
  \/ call[t].op = "write" /\ o \in Event /\ level[o] = Limit

\* EAGAIN, or the end of the stream
GiveUp(t, o) ==
  /\ Enters(t, o)
  /\ Stuck(t, o)
  /\ ~call[t].blocks \/ hungUp[o]
  /\ Leave(t, o)

Block(t, o) ==
  /\ Enters(t, o)
  /\ Stuck(t, o)
  /\ call[t].blocks /\ ~hungUp[o]
  /\ objLock' = [objLock EXCEPT ![o] = NoThread]
  /\ walk' = [walk EXCEPT ![t] = NoWalk]
  /\ Goto(t, "blocked")
  /\ UNCHANGED <<objects, parents, pollLock, fdsLock, polling, call>>

\* BoxedWineCondition::wait signals the parents once it has the lock again
Resume(t, o) ==
  /\ pc[t] = "notified"
  /\ Target(call[t]) = o
  /\ objLock[o] = NoThread
  /\ objLock' = [objLock EXCEPT ![o] = t]
  /\ walk' = [walk EXCEPT ![t] = [NoWalk EXCEPT !.resuming = TRUE]]
  /\ Goto(t, "signal")
  /\ UNCHANGED <<objects, parents, pollLock, fdsLock, polling, call>>

-----------------------------------------------------------------------------
(* BoxedWineCondition::signal and signalAll *)

Walking(t) == pc[t] \in {"signal", "ownsignal"}
Walked(t) == IF pc[t] = "ownsignal" THEN call[t].obj ELSE Target(call[t])
\* sockets, and waits that end, signal every parent, the others the first
SignalsAll(t) == walk[t].resuming \/ Walked(t) \in Socket

PickParent(t) ==
  /\ Walking(t)
  /\ walk[t].parent = NoThread
  /\ walk[t].slot \in Slot
  /\ LET w == walk[t]
         q == parents[Walked(t)][w.slot]
     IN walk' = [walk EXCEPT ![t] =
          [w EXCEPT !.slot = IF q = NoThread THEN w.slot + 1 ELSE w.slot, !.parent = q]]
  /\ UNCHANGED <<objects, parents, pollLock, fdsLock, objLock, pc, polling, call>>

SignalParent(t) ==
  LET q == walk[t].parent IN
  /\ Walking(t)
  /\ q # NoThread
  /\ pollLock[q] = NoThread
  /\ pc' = IF pc[q] = "asleep" THEN [pc EXCEPT ![q] = "woken"] ELSE pc
  /\ walk' = [walk EXCEPT ![t] =
       [walk[t] EXCEPT !.slot = IF SignalsAll(t) THEN walk[t].slot + 1 ELSE MaxParents + 1,
                       !.parent = NoThread]]
  /\ UNCHANGED <<objects, parents, pollLock, fdsLock, objLock, polling, call>>

Blocked(o) == {u \in Thread : pc[u] = "blocked" /\ Target(call[u]) = o}

\* mutant of NotifyOwn: the threads that wait for the object are left alone
NotifyNone(t, o) == UNCHANGED pc

NotifyOwn(t, o) ==
  IF SignalsAll(t) THEN pc' = [u \in Thread |-> IF u \in Blocked(o) THEN "notified" ELSE pc[u]]
  ELSE IF Blocked(o) = {} THEN UNCHANGED pc
  ELSE \E u \in Blocked(o) : pc' = [pc EXCEPT ![u] = "notified"]

WalkDone(t) == Walking(t) /\ walk[t].parent = NoThread /\ walk[t].slot \notin Slot

\* the object's own waiters, with the lock still held
Notify(t) ==
  /\ WalkDone(t)
  /\ pc[t] = "signal"
  /\ ~walk[t].resuming
  /\ walk[t].slot = MaxParents + 1
  /\ NotifyOwn(t, Walked(t))
  /\ walk' = [walk EXCEPT ![t].slot = MaxParents + 2]
  /\ UNCHANGED <<objects, parents, pollLock, fdsLock, objLock, polling, call>>

EndSignal(t) ==
  /\ WalkDone(t)
  /\ pc[t] = "signal"
  /\ call[t].op # "close"
  /\ walk[t].slot = MaxParents + 2
  /\ Leave(t, Walked(t))

\* the wait is over: the condition is tested again under the lock
EndResume(t) ==
  /\ WalkDone(t)
  /\ walk[t].resuming
  /\ Goto(t, "lock")
  /\ walk' = [walk EXCEPT ![t] = NoWalk]
  /\ UNCHANGED <<objects, parents, pollLock, fdsLock, objLock, polling, call>>

(* The destructor goes on to its own condition, without its lock; it skips *)
(* a peer that is destroyed too.                                           *)
OwnSignal(t) ==
  /\ \/ WalkDone(t) /\ pc[t] = "signal" /\ walk[t].slot = MaxParents + 2
     \/ pc[t] = "lock" /\ Target(call[t]) \in dead
  /\ call[t].op = "close"
  /\ objLock' = IF pc[t] = "signal" THEN [objLock EXCEPT ![Target(call[t])] = NoThread]
                                    ELSE objLock
  /\ walk' = [walk EXCEPT ![t] = NoWalk]
  /\ Goto(t, "ownsignal")
  /\ UNCHANGED <<objects, parents, pollLock, fdsLock, polling, call>>

EndOwnSignal(t) ==
  /\ WalkDone(t)
  /\ pc[t] = "ownsignal"
  /\ call' = [call EXCEPT ![t] = NoCall]
  /\ walk' = [walk EXCEPT ![t] = NoWalk]
  /\ Goto(t, "user")
  /\ UNCHANGED <<objects, parents, pollLock, fdsLock, objLock, polling>>

-----------------------------------------------------------------------------
PollStep(t) ==
  \/ LockPoll(t) \/ LockTable(t)
  \/ \E r \in Request : Register(t, r) \/ Look(t, r)
  \/ Looked(t) \/ Rewake(t) \/ ClearPoll(t)
CallStep(t) ==
  \/ TakeTable(t) \/ TakeSignals(t)
  \/ \E o \in Object :
       \/ LoadEarly(t, o) \/ Write(t, o) \/ Read(t, o) \/ Post(t, o) \/ HangUp(t, o)
       \/ GiveUp(t, o) \/ Block(t, o) \/ Resume(t, o)
  \/ PickParent(t) \/ SignalParent(t) \/ Notify(t) \/ EndSignal(t)
  \/ EndResume(t) \/ OwnSignal(t) \/ EndOwnSignal(t)

Panicked == \E t \in Thread : pc[t] = "panic"

Next ==
  /\ ~Panicked
  /\ \E t \in Thread :
       \/ \E S \in Polls[t] : BeginPoll(t, S)
       \/ \E c \in Calls[t] : BeginCall(t, c)
       \/ \E r \in now[t] : Renumber(t, r)
       \/ Expire(t) \/ PollStep(t) \/ CallStep(t)

Spec == Init /\ [][Next]_vars

(* Host threads keep running; guest calls are never owed.                  *)
Fairness == \A t \in Thread : WF_vars(~Panicked /\ PollStep(t))
                              /\ WF_vars(~Panicked /\ CallStep(t))

(* Mutexes that starve nobody: whoever wants one that is free time and     *)
(* again gets it.                                                          *)
LockFairness == \A t \in Thread : SF_vars(~Panicked /\ PollStep(t))
                                  /\ SF_vars(~Panicked /\ CallStep(t))

FairLockSpec == Spec /\ LockFairness
FairSpec == Spec /\ Fairness

-----------------------------------------------------------------------------
(* Properties *)

PC == PollPC \cup {"user", "locktable", "lock", "signal", "ownsignal", "blocked", "notified"}

(* Everything is typed; levels stay within their limit. *)
TypeOK ==
  /\ level \in [Object -> 0 .. Limit]
  /\ hungUp \in [Object -> BOOLEAN]
  /\ dead \subseteq Socket
  /\ early \subseteq Object
  /\ parents \in [Object -> [Slot -> Thread \cup {NoThread}]]
  /\ pollLock \in [Thread -> Thread \cup {NoThread}]
  /\ fdsLock \in Thread \cup {NoThread}
  /\ objLock \in [Object -> Thread \cup {NoThread}]
  /\ pc \in [Thread -> PC]
  /\ now \in [Thread -> SUBSET Request]
  /\ polled \in [Thread -> SUBSET Request]
  /\ todo \in [Thread -> SUBSET Request]
  /\ found \in [Thread -> BOOLEAN]
  /\ call \in [Thread -> Call \cup {NoCall}]
  /\ walk \in [Thread -> Walk]

Alert(t) == \E r \in now[t] : r.obj \notin dead /\ Ready(r)

\* threads that may ever hold a parent slot of o
Pollers(o) == {t \in Thread : \E r \in Asked(t) : o \in Reaches(r)}

(* A walk that has still to notify t: t is its next parent, or in one of   *)
(* the slots it will come to; or a signal whose walk has yet to begin.     *)
WillSignal(u, t) ==
  \/ Walking(u) /\ walk[u].parent = t
  \/ /\ Walking(u)
     /\ walk[u].parent = NoThread
     /\ \E s \in walk[u].slot .. MaxParents :
          /\ parents[Walked(u)][s] = t
          /\ \/ SignalsAll(u)
             \/ \A i \in walk[u].slot .. s - 1 : parents[Walked(u)][i] \in {NoThread, t}
  \/ /\ Walking(u)
     /\ walk[u].parent # NoThread
     /\ SignalsAll(u)
     /\ \E s \in walk[u].slot + 1 .. MaxParents : parents[Walked(u)][s] = t
  \/ /\ pc[u] \in {"locktable", "lock"}
     /\ call[u].op = "post"
     /\ HasParent(call[u].obj, t)

(* poll registers with every object "before we check the data so that we   *)
(* don't miss one": a poller does not sleep over an object that is ready,  *)
(* unless someone is on the way to wake it.  That is so of every socket,   *)
(* and of an eventfd or a signalfd that no other thread ever polls (signal *)
(* stops at the first parent), if the call that changed it last looked for *)
(* parents after the change.                                               *)
NothingMissed ==
  \A t \in Thread : \A r \in polled[t] :
    /\ pc[t] = "asleep"
    /\ r.obj \notin dead /\ Ready(r)
    /\ r.obj \in Socket \/ Pollers(r.obj) = {t}
    /\ r.obj \notin early
    => \E u \in Thread : WillSignal(u, t)

(* "ran out of parent slots" is a panic.  Polls do leave slots behind, at  *)
(* the peer of a socket they poll for writing, and at an object whose      *)
(* descriptor is closed or reused before clearPollData looks it up.  But a *)
(* thread that polls again finds the slot it left: it takes more threads   *)
(* than slots that poll one object, or the other end of it, at any time.   *)
SlotPerThread ==
  Panicked => \E o \in Object : Cardinality(Pollers(o)) > MaxParents

(* A poll on something that stays ready returns.                           *)
PollReturns ==
  \A t \in Thread : InPoll(t) /\ Alert(t) ~> ~InPoll(t) \/ ~Alert(t)

(* One thread blocked in a read of an eventfd and one in a write share a   *)
(* condition and notify_one: each is woken when it could go on, whichever  *)
(* calls that do not block come in between.  (With two that block in reads *)
(* this fails, see the README.  Nobody polls the eventfd here: a thread    *)
(* that polls again and again may keep a writer from the poller's lock.)   *)
BlockedWakes ==
  \A t \in Thread, o \in Event :
    (t \in Blocked(o) /\ ~Stuck(t, o)) ~> (t \notin Blocked(o) \/ Stuck(t, o))

-----------------------------------------------------------------------------
(* Statements that fail; the README says how *)

(* No poller at all is asleep over an object that is ready, unless someone *)
(* is on the way to wake it.                                               *)
PollersWoken ==
  \A t \in Thread :
    pc[t] = "asleep" /\ (\E r \in polled[t] : r.obj \notin dead /\ Ready(r))
      => \E u \in Thread : WillSignal(u, t)

(* Parent slots belong to threads that are inside poll.                    *)
SlotsInUse ==
  \A o \in Object \ dead, s \in Slot :
    parents[o][s] # NoThread => InPoll(parents[o][s])

(* "ran out of parent slots" takes more pollers at a time than slots.      *)
SlotsSuffice ==
  Panicked => Cardinality({t \in Thread : InPoll(t)}) > MaxParents
=============================================================================
