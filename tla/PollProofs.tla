----------------------------- MODULE PollProofs ------------------------------
(***************************************************************************)
(* Theorems about Poll, for any number of threads, objects and slots: its  *)
(* types; that a thread takes one parent slot of an object at most,        *)
(* however often a poll of it leaves one behind, so that a panic takes     *)
(* more pollers than slots; and that no poller sleeps over a ready socket, or over      *)
(* anything else that it alone polls, while nobody is about to signal it.  *)
(***************************************************************************)
EXTENDS Poll, FiniteSetTheorems, WellFoundedInduction, TLAPS

-----------------------------------------------------------------------------
(* The conjuncts of the inductive invariant *)

\* what a thread polls is what it may poll
Polling(t) ==
  /\ todo[t] \subseteq polled[t]
  /\ now[t] \subseteq Asked(t) /\ polled[t] \subseteq Asked(t)
PolledInv == \A t \in Thread : Polling(t)

\* threads that are in a call
CallPC == {"locktable", "lock", "signal", "ownsignal", "blocked", "notified"}

(* A parent that a walk has picked is in one of its slots, and outside a   *)
(* walk there is none; whoever is in a call is in one it may make.         *)
Fits(t) ==
  /\ walk[t].parent # NoThread => walk[t].slot \in Slot /\ Walking(t)
  /\ pc[t] \in CallPC => call[t] \in Calls[t]
WalkInv == \A t \in Thread : Fits(t)

-----------------------------------------------------------------------------
(* Types *)

(* The initial state is typed, and no walk has picked a parent. *)
LEMMA InitType == Init => TypeOK /\ WalkInv
<1> SUFFICES ASSUME Init PROVE TypeOK /\ WalkInv
  OBVIOUS
<1>1. NoWalk \in Walk
  BY PollAssumption DEF NoWalk, Walk
<1>2. TypeOK
  BY <1>1, PollAssumption DEF Init, TypeOK, PC, PollPC, Slot
<1>3. WalkInv
  BY <1>2 DEF Init, WalkInv, Fits, NoWalk, CallPC
<1>4. QED
  BY <1>2, <1>3

(* What the updates of a walk are. *)
LEMMA WalkTypes ==
  /\ NoWalk \in Walk
  /\ [NoWalk EXCEPT !.resuming = TRUE] \in Walk
  /\ \A w \in Walk : \A s \in 1 .. MaxParents + 2 :
       [w EXCEPT !.slot = s] \in Walk
  /\ \A w \in Walk : \A q \in Thread \cup {NoThread} : \A s \in 1 .. MaxParents + 2 :
       [w EXCEPT !.slot = s, !.parent = q] \in Walk
<1> DEFINE D == 1 .. MaxParents + 2
<1>1. 1 \in D
  BY PollAssumption
<1> HIDE DEF D
<1>2. Walk = [slot : D, parent : Thread \cup {NoThread}, resuming : BOOLEAN]
  BY DEF Walk, D
<1>3. NoWalk \in Walk /\ [NoWalk EXCEPT !.resuming = TRUE] \in Walk
  BY <1>1, <1>2 DEF NoWalk
<1>4. \A w \in Walk : \A s \in D : [w EXCEPT !.slot = s] \in Walk
  BY <1>2
<1>5. \A w \in Walk : \A q \in Thread \cup {NoThread} : \A s \in D :
        [w EXCEPT !.slot = s, !.parent = q] \in Walk
  BY <1>2
<1>6. QED
  BY <1>3, <1>4, <1>5 DEF D

(* Registering keeps the slots typed. *)
LEMMA SlotTypes ==
  ASSUME TypeOK, NEW t \in Thread, NEW o \in Object
  PROVE  /\ AddParent(o, t) \in [Slot -> Thread \cup {NoThread}]
         /\ RemoveParent(o, t) \in [Slot -> Thread \cup {NoThread}]
<1> DEFINE P == parents[o]
<1>1. P \in [Slot -> Thread \cup {NoThread}]
  BY DEF TypeOK
<1>2. \A x : [P EXCEPT ![x] = t] \in [Slot -> Thread \cup {NoThread}]
  BY <1>1
<1>3. AddParent(o, t) \in [Slot -> Thread \cup {NoThread}]
  <2>1. AddParent(o, t) = P \/ AddParent(o, t) = [P EXCEPT ![FirstFree(o)] = t]
    BY DEF AddParent
  <2>2. QED
    BY <1>1, <1>2, <2>1
<1>4. RemoveParent(o, t) \in [Slot -> Thread \cup {NoThread}]
  BY <1>1 DEF RemoveParent
<1>5. QED
  BY <1>3, <1>4

(* The end of a loop over the requests keeps them typed. *)
LEMMA AdvanceType ==
  ASSUME TypeOK, NEW t \in Thread, NEW r \in Request, NEW l \in PC, Advance(t, r, l)
  PROVE  todo' \in [Thread -> SUBSET Request] /\ pc' \in [Thread -> PC]
<1>1. polled[t] \in SUBSET Request /\ todo[t] \ {r} \in SUBSET Request
  BY DEF TypeOK
<1>2. todo' \in [Thread -> SUBSET Request]
  BY <1>1 DEF TypeOK, Advance
<1>3. pc' \in [Thread -> PC]
  BY DEF TypeOK, Advance, Goto
<1>4. QED
  BY <1>2, <1>3

(* The steps of a poller keep the types. *)
LEMMA PollType ==
  ASSUME TypeOK, NEW t \in Thread,
         \/ \E S \in Polls[t] : BeginPoll(t, S)
         \/ Expire(t) \/ PollStep(t)
  PROVE  TypeOK'
<1> USE PollAssumption DEF Goto, objects, polling, TypeOK
<1>0. {"user", "poll", "table", "register", "look", "looked", "asleep",
       "woken", "clear", "return", "panic"} \subseteq PC
  BY DEF PC, PollPC
<1>1. ASSUME NEW S \in Polls[t], BeginPoll(t, S) PROVE TypeOK'
  <2>1. S \in SUBSET Request
    OBVIOUS
  <2>2. QED
    BY <1>0, <1>1, <2>1 DEF BeginPoll
<1>2. CASE LockPoll(t)
  BY <1>0, <1>2 DEF LockPoll
<1>3. CASE LockTable(t)
  BY <1>0, <1>3 DEF LockTable
<1>4. ASSUME NEW r \in Request, Register(t, r) PROVE TypeOK'
  <2>1. parents' \in [Object -> [Slot -> Thread \cup {NoThread}]]
    <3>1. \/ UNCHANGED parents
          \/ parents' = [o \in Object |-> IF o \in Conds(r) THEN AddParent(o, t)
                                                            ELSE parents[o]]
      BY <1>4 DEF Register
    <3>2. \A o \in Object : AddParent(o, t) \in [Slot -> Thread \cup {NoThread}]
      BY SlotTypes
    <3>3. \A o \in Object : parents[o] \in [Slot -> Thread \cup {NoThread}]
      OBVIOUS
    <3>4. CASE UNCHANGED parents
      BY <3>4
    <3>5. CASE parents' = [o \in Object |-> IF o \in Conds(r) THEN AddParent(o, t)
                                                              ELSE parents[o]]
      <4> HIDE DEF TypeOK
      <4>1. QED
        BY <3>2, <3>3, <3>5
    <3>6. QED
      BY <3>1, <3>4, <3>5
  <2>2. todo' \in [Thread -> SUBSET Request] /\ pc' \in [Thread -> PC]
    <3>1. \/ Advance(t, r, "look")
          \/ Goto(t, "panic") /\ UNCHANGED todo
      BY <1>4 DEF Register
    <3>2. CASE Advance(t, r, "look")
      BY <1>0, <3>2, AdvanceType
    <3>3. CASE Goto(t, "panic") /\ UNCHANGED todo
      BY <1>0, <3>3
    <3>4. QED
      BY <3>1, <3>2, <3>3
  <2>3. QED
    BY <1>4, <2>1, <2>2 DEF Register
<1>5. ASSUME NEW r \in Request, Look(t, r) PROVE TypeOK'
  <2>1. todo' \in [Thread -> SUBSET Request] /\ pc' \in [Thread -> PC]
    BY <1>0, <1>5, AdvanceType DEF Look
  <2>2. found' \in [Thread -> BOOLEAN]
    <3>1. (found[t] \/ (r.obj \notin dead /\ Ready(r))) \in BOOLEAN
      OBVIOUS
    <3>2. QED
      BY <1>5, <3>1 DEF Look
  <2>3. QED
    BY <1>5, <2>1, <2>2 DEF Look
<1>6. CASE Looked(t)
  <2>1. pc' \in [Thread -> PC]
    BY <1>0, <1>6 DEF Looked
  <2>2. pollLock' \in [Thread -> Thread \cup {NoThread}]
    <3>1. UNCHANGED pollLock \/ pollLock' = [pollLock EXCEPT ![t] = NoThread]
      BY <1>6 DEF Looked
    <3>2. pollLock \in [Thread -> Thread \cup {NoThread}]
      OBVIOUS
    <3> HIDE DEF TypeOK
    <3>3. QED
      BY <3>1, <3>2
  <2>3. QED
    BY <1>6, <2>1, <2>2 DEF Looked
<1>7. CASE Expire(t)
  BY <1>0, <1>7 DEF Expire
<1>8. CASE Rewake(t)
  BY <1>0, <1>8 DEF Rewake
<1>9. CASE ClearPoll(t)
  <2>1. parents' \in [Object -> [Slot -> Thread \cup {NoThread}]]
    BY <1>9, SlotTypes DEF ClearPoll, Unregister
  <2>2. pc' \in [Thread -> PC]
    BY <1>0, <1>9 DEF ClearPoll
  <2>3. polled' \in [Thread -> SUBSET Request] /\ now' \in [Thread -> SUBSET Request]
    BY <1>9 DEF ClearPoll
  <2>4. todo' \in [Thread -> SUBSET Request] /\ found' \in [Thread -> BOOLEAN]
    BY <1>9 DEF ClearPoll
  <2>5. QED
    BY <1>9, <2>1, <2>2, <2>3, <2>4 DEF ClearPoll
<1>10. QED
  BY <1>1, <1>2, <1>3, <1>4, <1>5, <1>6, <1>7, <1>8, <1>9 DEF PollStep

(* A call locks the condition of an object. *)
LEMMA TargetObject == ASSUME NEW c \in Call PROVE Target(c) \in Object
  BY PollAssumption DEF Target, Call, Object

(* So do the steps of a call before it signals. *)
LEMMA CallType ==
  ASSUME TypeOK, NEW t \in Thread,
         \/ \E c \in Calls[t] : BeginCall(t, c)
         \/ TakeTable(t) \/ TakeSignals(t)
         \/ \E o \in Object :
              \/ LoadEarly(t, o) \/ Write(t, o) \/ Read(t, o) \/ Post(t, o)
              \/ HangUp(t, o) \/ GiveUp(t, o) \/ Block(t, o) \/ Resume(t, o)
  PROVE  TypeOK'
<1> USE PollAssumption DEF Goto, objects, polling, TypeOK
<1>0. {"user", "lock", "locktable", "signal", "blocked"} \subseteq PC
  BY DEF PC, PollPC
<1>w. NoWalk \in Walk /\ [NoWalk EXCEPT !.resuming = TRUE] \in Walk
      /\ [walk[t] EXCEPT !.slot = MaxParents + 1] \in Walk
  <2>1. MaxParents + 1 \in 1 .. MaxParents + 2 /\ walk[t] \in Walk
    OBVIOUS
  <2>2. QED
    BY <2>1, WalkTypes
<1>1. ASSUME NEW c \in Calls[t], BeginCall(t, c) PROVE TypeOK'
  <2>1. c \in Call
    OBVIOUS
  <2>2. dead' \subseteq Socket
    BY <1>1, <2>1 DEF BeginCall
  <2>3. level' \in [Object -> 0 .. Limit]
    <3>1. 1 \in 0 .. Limit
      OBVIOUS
    <3>2. QED
      BY <1>1, <3>1 DEF BeginCall
  <2>4. pc' \in [Thread -> PC]
    BY <1>0, <1>1 DEF BeginCall
  <2>5. QED
    BY <1>1, <2>1, <2>2, <2>3, <2>4 DEF BeginCall
<1>2. CASE TakeTable(t)
  BY <1>0, <1>2 DEF TakeTable
<1>3. CASE TakeSignals(t)
  <2>1. level' \in [Object -> 0 .. Limit]
    <3>1. 0 \in 0 .. Limit
      OBVIOUS
    <3>2. QED
      BY <1>3, <3>1 DEF TakeSignals
  <2>2. QED
    BY <1>0, <1>3, <2>1 DEF TakeSignals
<1>4. ASSUME NEW o \in Object, LoadEarly(t, o) PROVE TypeOK'
  <2>1. walk' \in [Thread -> Walk]
    BY <1>4, <1>w DEF LoadEarly
  <2>2. QED
    BY <1>4, <2>1 DEF LoadEarly
<1>5. ASSUME NEW o \in Object, Write(t, o) PROVE TypeOK'
  BY <1>0, <1>5 DEF Write, Change
<1>6. ASSUME NEW o \in Object, Read(t, o) PROVE TypeOK'
  BY <1>0, <1>6 DEF Read, Change
<1>7. ASSUME NEW o \in Object, Post(t, o) PROVE TypeOK'
  BY <1>0, <1>7 DEF Post, Change
<1>8. ASSUME NEW o \in Object, HangUp(t, o) PROVE TypeOK'
  BY <1>0, <1>8 DEF HangUp, Change
<1>9. ASSUME NEW o \in Object, GiveUp(t, o) PROVE TypeOK'
  BY <1>0, <1>w, <1>9 DEF GiveUp, Leave
<1>10. ASSUME NEW o \in Object, Block(t, o) PROVE TypeOK'
  BY <1>0, <1>w, <1>10 DEF Block
<1>11. ASSUME NEW o \in Object, Resume(t, o) PROVE TypeOK'
  BY <1>0, <1>w, <1>11 DEF Resume
<1>12. QED
  BY <1>1, <1>2, <1>3, <1>4, <1>5, <1>6, <1>7, <1>8, <1>9, <1>10, <1>11

(* And the steps of a walk, whose slot stays in bounds. *)
LEMMA SignalType ==
  ASSUME TypeOK, WalkInv, NEW t \in Thread,
         \/ PickParent(t) \/ SignalParent(t) \/ Notify(t) \/ EndSignal(t)
         \/ EndResume(t) \/ OwnSignal(t) \/ EndOwnSignal(t)
  PROVE  TypeOK'
<1> USE PollAssumption DEF Goto, objects, polling, TypeOK
<1>0. {"user", "lock", "notified", "woken", "ownsignal"} \subseteq PC
  BY DEF PC, PollPC
<1>w. NoWalk \in Walk
  BY WalkTypes
<1>s. \A n \in Slot : n + 1 \in 1 .. MaxParents + 2
  BY DEF Slot
<1>m. MaxParents + 1 \in 1 .. MaxParents + 2 /\ MaxParents + 2 \in 1 .. MaxParents + 2
  OBVIOUS
<1>1. CASE PickParent(t)
  <2>1. Walked(t) \in Object
    <3>1. call[t] \in Call
      BY <1>1 DEF PickParent, Walking, WalkInv, Fits, CallPC
    <3>2. call[t].obj \in Object
      BY <3>1 DEF Call
    <3>3. QED
      BY <3>1, <3>2, TargetObject DEF Walked
  <2> DEFINE q == parents[Walked(t)][walk[t].slot]
  <2>2. walk[t].slot \in Slot
    BY <1>1 DEF PickParent
  <2>3. q \in Thread \cup {NoThread}
    BY <2>1, <2>2
  <2> DEFINE n == IF q = NoThread THEN walk[t].slot + 1 ELSE walk[t].slot
             w == [walk[t] EXCEPT !.slot = n, !.parent = q]
  <2>4. w \in Walk
    <3>1. n \in 1 .. MaxParents + 2
      BY <2>2, <1>s DEF Slot
    <3>2. walk[t] \in Walk
      OBVIOUS
    <3> HIDE DEF n, q, TypeOK
    <3>3. QED
      BY <2>3, <3>1, <3>2, WalkTypes
  <2>5. walk' = [walk EXCEPT ![t] = w]
    BY <1>1 DEF PickParent
  <2> HIDE DEF w
  <2>6. walk' \in [Thread -> Walk]
    BY <2>4, <2>5
  <2>7. QED
    BY <1>1, <2>6 DEF PickParent
<1>2. CASE SignalParent(t)
  <2>1. walk[t].slot \in Slot
    BY <1>2 DEF SignalParent, WalkInv, Fits
  <2> DEFINE n == IF SignalsAll(t) THEN walk[t].slot + 1 ELSE MaxParents + 1
             w == [walk[t] EXCEPT !.slot = n, !.parent = NoThread]
  <2>2. n \in 1 .. MaxParents + 2
    BY <2>1, <1>s, <1>m
  <2>3. w \in Walk
    <3>1. walk[t] \in Walk
      OBVIOUS
    <3>2. QED
      BY <2>2, <3>1, WalkTypes
  <2>4. walk' = [walk EXCEPT ![t] = w]
    BY <1>2 DEF SignalParent
  <2> HIDE DEF w
  <2>5. walk' \in [Thread -> Walk]
    BY <2>3, <2>4
  <2>6. pc' \in [Thread -> PC]
    BY <1>0, <1>2 DEF SignalParent
  <2>7. QED
    BY <1>2, <2>5, <2>6 DEF SignalParent
<1>3. CASE Notify(t)
  <2>1. walk' \in [Thread -> Walk]
    <3>1. [walk[t] EXCEPT !.slot = MaxParents + 2] \in Walk
      BY <1>m, WalkTypes
    <3>2. QED
      BY <1>3, <3>1 DEF Notify
  <2>2. pc' \in [Thread -> PC]
    <3>1. NotifyOwn(t, Walked(t))
      BY <1>3 DEF Notify
    <3>2. pc \in [Thread -> PC]
      OBVIOUS
    <3> HIDE DEF TypeOK
    <3>3. QED
      BY <1>0, <3>1, <3>2 DEF NotifyOwn
  <2>3. QED
    BY <1>3, <2>1, <2>2 DEF Notify
<1>4. CASE EndSignal(t)
  BY <1>0, <1>w, <1>4 DEF EndSignal, Leave
<1>5. CASE EndResume(t)
  BY <1>0, <1>w, <1>5 DEF EndResume
<1>6. CASE OwnSignal(t)
  BY <1>0, <1>w, <1>6 DEF OwnSignal
<1>7. CASE EndOwnSignal(t)
  BY <1>0, <1>w, <1>7 DEF EndOwnSignal
<1>8. QED
  BY <1>1, <1>2, <1>3, <1>4, <1>5, <1>6, <1>7

(* A descriptor that leads elsewhere changes nothing but where the poll's  *)
(* descriptors lead.                                                       *)
LEMMA RenumberKeeps ==
  ASSUME TypeOK, NEW t \in Thread, NEW r \in now[t], Renumber(t, r)
  PROVE  /\ TypeOK'
         /\ PolledInv => PolledInv'
         /\ UNCHANGED <<objects, parents, pollLock, pc, polled, todo, found, call, walk>>
<1>1. PICK N \in SUBSET Asked(t) : now' = [now EXCEPT ![t] = (@ \ {r}) \cup N]
  <2>1. PICK N \in {{}} \cup {{q} : q \in {q \in Asked(t) : q.want = r.want /\ q.obj \notin dead}} :
          now' = [now EXCEPT ![t] = (@ \ {r}) \cup N]
    BY DEF Renumber
  <2>2. QED
    BY <2>1
<1>2. Asked(t) \subseteq Request
  BY PollAssumption DEF Asked
<1>3. UNCHANGED <<objects, parents, pollLock, fdsLock, objLock, pc, polled, todo, found,
                  call, walk>>
  BY DEF Renumber
<1>4. now' \in [Thread -> SUBSET Request]
  BY <1>1, <1>2 DEF TypeOK
<1>5. PolledInv => PolledInv'
  BY <1>1, <1>3 DEF PolledInv, Polling, TypeOK, Asked
<1>6. QED
  BY <1>3, <1>4, <1>5 DEF TypeOK, objects

-----------------------------------------------------------------------------
(* One step *)

ThreadStep(t) ==
  \/ \E S \in Polls[t] : BeginPoll(t, S)
  \/ \E c \in Calls[t] : BeginCall(t, c)
  \/ Expire(t) \/ PollStep(t) \/ CallStep(t)

(* What a step of one thread does to the others: it may wake them.         *)
Others(t) ==
  \A u \in Thread \ {t} :
    /\ walk'[u] = walk[u] /\ call'[u] = call[u] /\ pollLock'[u] = pollLock[u]
    /\ now'[u] = now[u] /\ polled'[u] = polled[u] /\ todo'[u] = todo[u]
    /\ found'[u] = found[u]
    /\ \/ pc'[u] = pc[u]
       \/ pc[u] = "asleep" /\ pc'[u] = "woken"
       \/ pc[u] = "blocked" /\ pc'[u] = "notified"

(* No step reaches further into another thread. *)
LEMMA OthersKeep ==
  ASSUME TypeOK, NEW t \in Thread, ThreadStep(t)
  PROVE  Others(t)
<1> USE DEF TypeOK, Goto, polling, Others
<1>1. ASSUME NEW S \in Polls[t], BeginPoll(t, S) PROVE Others(t)
  BY <1>1 DEF BeginPoll
<1>2. ASSUME NEW c \in Calls[t], BeginCall(t, c) PROVE Others(t)
  BY <1>2 DEF BeginCall
<1>3. CASE Expire(t)
  BY <1>3 DEF Expire
<1>4. CASE LockPoll(t)
  BY <1>4 DEF LockPoll
<1>5. CASE LockTable(t)
  BY <1>5 DEF LockTable
<1>6. ASSUME NEW r \in Request, Register(t, r) PROVE Others(t)
  BY <1>6 DEF Register, Advance
<1>7. ASSUME NEW r \in Request, Look(t, r) PROVE Others(t)
  BY <1>7 DEF Look, Advance
<1>8. CASE Looked(t)
  BY <1>8 DEF Looked
<1>9. CASE Rewake(t)
  BY <1>9 DEF Rewake
<1>10. CASE ClearPoll(t)
  BY <1>10 DEF ClearPoll
<1>11. CASE TakeTable(t) \/ TakeSignals(t)
  BY <1>11 DEF TakeTable, TakeSignals
<1>12. ASSUME NEW o \in Object, LoadEarly(t, o) PROVE Others(t)
  BY <1>12 DEF LoadEarly
<1>13. ASSUME NEW o \in Object, Write(t, o) \/ Read(t, o) \/ Post(t, o) \/ HangUp(t, o)
       PROVE  Others(t)
  BY <1>13 DEF Write, Read, Post, HangUp, Change
<1>14. ASSUME NEW o \in Object, GiveUp(t, o) \/ Block(t, o) \/ Resume(t, o)
       PROVE  Others(t)
  BY <1>14 DEF GiveUp, Block, Resume, Leave
<1>15. CASE PickParent(t)
  BY <1>15 DEF PickParent
<1>16. CASE SignalParent(t)
  BY <1>16 DEF SignalParent
<1>17. CASE Notify(t)
  <2>1. \A u \in Thread : pc'[u] = pc[u] \/ (pc[u] = "blocked" /\ pc'[u] = "notified")
    <3> DEFINE B == Blocked(Walked(t))
    <3>1. B \subseteq Thread /\ \A u \in B : pc[u] = "blocked"
      BY DEF Blocked
    <3>2. \/ pc' = [u \in Thread |-> IF u \in B THEN "notified" ELSE pc[u]]
          \/ pc' = pc
          \/ \E u \in B : pc' = [pc EXCEPT ![u] = "notified"]
      BY <1>17 DEF Notify, NotifyOwn
    <3> HIDE DEF B
    <3>3. pc \in [Thread -> PC]
      OBVIOUS
    <3> HIDE DEF TypeOK
    <3>4. CASE pc' = [u \in Thread |-> IF u \in B THEN "notified" ELSE pc[u]]
      BY <3>1, <3>4
    <3>5. CASE pc' = pc
      BY <3>5
    <3>6. ASSUME NEW v \in B, pc' = [pc EXCEPT ![v] = "notified"]
          PROVE  \A u \in Thread : pc'[u] = pc[u] \/ (pc[u] = "blocked" /\ pc'[u] = "notified")
      BY <3>1, <3>3, <3>6
    <3>7. QED
      BY <3>2, <3>4, <3>5, <3>6
  <2>2. QED
    BY <1>17, <2>1 DEF Notify
<1>18. CASE EndSignal(t) \/ EndResume(t) \/ OwnSignal(t) \/ EndOwnSignal(t)
  BY <1>18 DEF EndSignal, EndResume, OwnSignal, EndOwnSignal, Leave
<1>19. QED
  BY <1>1, <1>2, <1>3, <1>4, <1>5, <1>6, <1>7, <1>8, <1>9, <1>10, <1>11, <1>12,
     <1>13, <1>14, <1>15, <1>16, <1>17, <1>18 DEF ThreadStep, PollStep, CallStep

(* A step keeps the walk of its thread in order, and so those of all. *)
LEMMA FitsStep ==
  ASSUME TypeOK, WalkInv, NEW t \in Thread, ThreadStep(t)
  PROVE  Fits(t)'
<1>0. Fits(t)
  BY DEF WalkInv
<1> USE PollAssumption, <1>0 DEF TypeOK, Goto, Fits, Walking, CallPC
<1>1. ASSUME NEW S \in Polls[t], BeginPoll(t, S) PROVE Fits(t)'
  BY <1>1 DEF BeginPoll
<1>2. ASSUME NEW c \in Calls[t], BeginCall(t, c) PROVE Fits(t)'
  BY <1>2 DEF BeginCall
<1>3. CASE Expire(t)
  BY <1>3 DEF Expire
<1>4. CASE LockPoll(t)
  BY <1>4 DEF LockPoll
<1>5. CASE LockTable(t)
  BY <1>5 DEF LockTable
<1>6. ASSUME NEW r \in Request, Register(t, r) PROVE Fits(t)'
  BY <1>6 DEF Register, Advance
<1>7. ASSUME NEW r \in Request, Look(t, r) PROVE Fits(t)'
  BY <1>7 DEF Look, Advance
<1>8. CASE Looked(t)
  BY <1>8 DEF Looked
<1>9. CASE Rewake(t)
  BY <1>9 DEF Rewake
<1>10. CASE ClearPoll(t)
  BY <1>10 DEF ClearPoll
<1>11. CASE TakeTable(t) \/ TakeSignals(t)
  BY <1>11 DEF TakeTable, TakeSignals
<1>12. ASSUME NEW o \in Object, LoadEarly(t, o) PROVE Fits(t)'
  BY <1>12 DEF LoadEarly, Enters
<1>13. ASSUME NEW o \in Object, Write(t, o) \/ Read(t, o) \/ Post(t, o) \/ HangUp(t, o)
       PROVE  Fits(t)'
  BY <1>13 DEF Write, Read, Post, HangUp, Change, Enters
<1>14. ASSUME NEW o \in Object, GiveUp(t, o) \/ Block(t, o) \/ Resume(t, o)
       PROVE  Fits(t)'
  BY <1>14 DEF GiveUp, Block, Resume, Leave, Enters, NoWalk
<1>15. CASE PickParent(t)
  <2>1. walk'[t].parent # NoThread => walk'[t].slot = walk[t].slot
    BY <1>15 DEF PickParent, Walk
  <2>2. walk[t].slot \in Slot /\ Walking(t) /\ UNCHANGED <<pc, call>>
    BY <1>15 DEF PickParent
  <2>3. QED
    BY <2>1, <2>2
<1>16. CASE SignalParent(t)
  <2>1. walk'[t].parent = NoThread
    BY <1>16 DEF SignalParent, Walk
  <2>2. pc'[t] = pc[t] /\ UNCHANGED call
    BY <1>16 DEF SignalParent
  <2>3. QED
    BY <2>1, <2>2
<1>17. CASE Notify(t)
  <2>1. walk'[t].parent = NoThread
    BY <1>17 DEF Notify, WalkDone
  <2>2. pc'[t] = pc[t] /\ UNCHANGED call
    <3>1. NotifyOwn(t, Walked(t)) /\ t \notin Blocked(Walked(t))
      BY <1>17 DEF Notify, Blocked
    <3>2. QED
      BY <1>17, <3>1 DEF NotifyOwn, Notify
  <2>3. QED
    BY <2>1, <2>2
<1>18. CASE EndSignal(t) \/ EndResume(t) \/ OwnSignal(t) \/ EndOwnSignal(t)
  BY <1>18 DEF EndSignal, EndResume, OwnSignal, EndOwnSignal, Leave, WalkDone, NoWalk
<1>19. QED
  BY <1>1, <1>2, <1>3, <1>4, <1>5, <1>6, <1>7, <1>8, <1>9, <1>10, <1>11, <1>12,
     <1>13, <1>14, <1>15, <1>16, <1>17, <1>18 DEF ThreadStep, PollStep, CallStep

(* The same of every thread. *)
LEMMA WalkStep ==
  ASSUME TypeOK, WalkInv, NEW t \in Thread, ThreadStep(t)
  PROVE  WalkInv'
<1>1. ASSUME NEW u \in Thread PROVE Fits(u)'
  <2>1. CASE u = t
    BY <2>1, FitsStep
  <2>2. CASE u # t
    <3>1. Others(t) /\ Fits(u)
      BY OthersKeep DEF WalkInv
    <3>2. QED
      BY <2>2, <3>1 DEF Others, Fits, Walking, CallPC
  <2>3. QED
    BY <2>1, <2>2
<1>2. QED
  BY <1>1 DEF WalkInv

(* Every step keeps the types. *)
LEMMA TypeStep ==
  ASSUME TypeOK, WalkInv, NEW t \in Thread, ThreadStep(t)
  PROVE  TypeOK'
BY PollType, CallType, SignalType DEF ThreadStep, PollStep, CallStep

(* Every reachable state is typed: levels stay within their limits and a   *)
(* walk over parent slots within the slots.                                *)
THEOREM TypeCorrect == Spec => []TypeOK
<1>1. Init => TypeOK /\ WalkInv
  BY InitType
<1>2. TypeOK /\ WalkInv /\ [Next]_vars => TypeOK' /\ WalkInv'
  <2> SUFFICES ASSUME TypeOK, WalkInv, [Next]_vars PROVE TypeOK' /\ WalkInv'
    OBVIOUS
  <2>1. CASE Next
    <3>1. PICK t \in Thread : ThreadStep(t) \/ \E r \in now[t] : Renumber(t, r)
      BY <2>1 DEF Next, ThreadStep
    <3>2. CASE ThreadStep(t)
      BY <3>2, TypeStep, WalkStep
    <3>3. ASSUME NEW r \in now[t], Renumber(t, r) PROVE TypeOK' /\ WalkInv'
      BY <3>3, RenumberKeeps DEF WalkInv, Fits, Walking
    <3>4. QED
      BY <3>1, <3>2, <3>3
  <2>2. CASE UNCHANGED vars
    BY <2>2 DEF vars, TypeOK, WalkInv, Fits, Walking
  <2>3. QED
    BY <2>1, <2>2
<1>3. QED
  BY <1>1, <1>2, PTL DEF Spec

-----------------------------------------------------------------------------
(* What a thread polls, and the slots it takes *)

(* A thread polls what it may poll, whatever its descriptors lead to.      *)
LEMMA PollingStep ==
  ASSUME TypeOK, PolledInv, NEW t \in Thread, ThreadStep(t)
  PROVE  Polling(t)'
<1>0. Polling(t)
  BY DEF PolledInv
<1> USE <1>0 DEF TypeOK, Goto, Polling, polling, Asked
<1>1. ASSUME NEW S \in Polls[t], BeginPoll(t, S) PROVE Polling(t)'
  BY <1>1 DEF BeginPoll
<1>2. ASSUME NEW c \in Calls[t], BeginCall(t, c) PROVE Polling(t)'
  BY <1>2 DEF BeginCall
<1>3. CASE Expire(t)
  BY <1>3 DEF Expire
<1>4. CASE LockPoll(t)
  BY <1>4 DEF LockPoll
<1>5. CASE LockTable(t)
  BY <1>5 DEF LockTable
<1>6. ASSUME NEW r \in Request, Register(t, r) PROVE Polling(t)'
  BY <1>6 DEF Register, Advance
<1>7. ASSUME NEW r \in Request, Look(t, r) PROVE Polling(t)'
  BY <1>7 DEF Look, Advance
<1>8. CASE Looked(t)
  BY <1>8 DEF Looked
<1>9. CASE Rewake(t)
  BY <1>9 DEF Rewake
<1>10. CASE ClearPoll(t)
  BY <1>10 DEF ClearPoll
<1>11. CASE TakeTable(t) \/ TakeSignals(t)
  BY <1>11 DEF TakeTable, TakeSignals
<1>12. ASSUME NEW o \in Object, LoadEarly(t, o) PROVE Polling(t)'
  BY <1>12 DEF LoadEarly
<1>13. ASSUME NEW o \in Object, Write(t, o) \/ Read(t, o) \/ Post(t, o) \/ HangUp(t, o)
       PROVE  Polling(t)'
  BY <1>13 DEF Write, Read, Post, HangUp, Change, Enters
<1>14. ASSUME NEW o \in Object, GiveUp(t, o) \/ Block(t, o) \/ Resume(t, o)
       PROVE  Polling(t)'
  BY <1>14 DEF GiveUp, Block, Resume, Leave, Enters
<1>15. CASE PickParent(t)
  BY <1>15 DEF PickParent
<1>16. CASE SignalParent(t)
  <2>1. pc'[t] = pc[t]
    BY <1>16 DEF SignalParent, Walking
  <2>2. QED
    BY <1>16, <2>1 DEF SignalParent
<1>17. CASE Notify(t)
  <2>1. pc'[t] = pc[t]
    <3>1. NotifyOwn(t, Walked(t)) /\ t \notin Blocked(Walked(t))
      BY <1>17 DEF Notify, Blocked
    <3>2. QED
      BY <3>1 DEF NotifyOwn
  <2>2. QED
    BY <1>17, <2>1 DEF Notify
<1>18. CASE EndSignal(t) \/ EndResume(t) \/ OwnSignal(t) \/ EndOwnSignal(t)
  BY <1>18 DEF EndSignal, EndResume, OwnSignal, EndOwnSignal, Leave, WalkDone, Walking
<1>19. QED
  BY <1>1, <1>2, <1>3, <1>4, <1>5, <1>6, <1>7, <1>8, <1>9, <1>10, <1>11, <1>12,
     <1>13, <1>14, <1>15, <1>16, <1>17, <1>18 DEF ThreadStep, PollStep, CallStep

(* The same of every thread. *)
LEMMA PolledStep ==
  ASSUME TypeOK, PolledInv, NEW t \in Thread, ThreadStep(t)
  PROVE  PolledInv'
<1>1. ASSUME NEW u \in Thread PROVE Polling(u)'
  <2>1. CASE u = t
    BY <2>1, PollingStep
  <2>2. CASE u # t
    <3>1. Others(t) /\ Polling(u)
      BY OthersKeep DEF PolledInv
    <3>2. QED
      BY <2>2, <3>1 DEF Others, Polling, Asked
  <2>3. QED
    BY <2>1, <2>2
<1>2. QED
  BY <1>1 DEF PolledInv

(* What becomes of the slots: registering adds the thread to the objects   *)
(* of the request, the end of a poll takes it out of some, and nothing     *)
(* else touches them.                                                      *)
LEMMA ParentSteps ==
  ASSUME TypeOK, NEW t \in Thread, ThreadStep(t)
  PROVE  \/ UNCHANGED parents /\ dead \subseteq dead'
         \/ \E r \in todo[t] :
              /\ r.obj \notin dead
              /\ \A o \in Conds(r) : ~Full(o, t)
              /\ UNCHANGED dead
              /\ parents' = [o \in Object |-> IF o \in Conds(r) THEN AddParent(o, t)
                                                                ELSE parents[o]]
         \/ pc[t] \in {"return", "clear"} /\ Unregister(t) /\ UNCHANGED dead
<1> USE DEF TypeOK, objects, polling
<1>1. ASSUME NEW r \in Request, Register(t, r)
      PROVE  UNCHANGED dead
             /\ \/ UNCHANGED parents
                \/ /\ r \in todo[t] /\ r.obj \notin dead
                   /\ \A o \in Conds(r) : ~Full(o, t)
                   /\ parents' = [o \in Object |-> IF o \in Conds(r) THEN AddParent(o, t)
                                                                     ELSE parents[o]]
  BY <1>1 DEF Register
<1>2. CASE ClearPoll(t)
  BY <1>2 DEF ClearPoll
<1>3. ASSUME \E S \in Polls[t] : BeginPoll(t, S)
      PROVE  UNCHANGED <<parents, dead>>
  BY <1>3 DEF BeginPoll
<1>4. ASSUME NEW c \in Calls[t], BeginCall(t, c)
      PROVE  UNCHANGED parents /\ dead \subseteq dead'
  BY <1>4 DEF BeginCall
<1>5. ASSUME \/ Expire(t) \/ LockPoll(t) \/ LockTable(t) \/ Looked(t) \/ Rewake(t)
             \/ \E r \in Request : Look(t, r)
             \/ TakeTable(t) \/ TakeSignals(t)
      PROVE  UNCHANGED <<parents, dead>>
  BY <1>5 DEF Expire, LockPoll, LockTable, Looked, Rewake, Look, TakeTable, TakeSignals
<1>6. ASSUME \E o \in Object :
               \/ LoadEarly(t, o) \/ Write(t, o) \/ Read(t, o) \/ Post(t, o) \/ HangUp(t, o)
               \/ GiveUp(t, o) \/ Block(t, o) \/ Resume(t, o)
      PROVE  UNCHANGED <<parents, dead>>
  BY <1>6 DEF LoadEarly, Write, Read, Post, HangUp, Change, GiveUp, Block, Resume, Leave
<1>7. ASSUME \/ PickParent(t) \/ SignalParent(t) \/ Notify(t) \/ EndSignal(t)
             \/ EndResume(t) \/ OwnSignal(t) \/ EndOwnSignal(t)
      PROVE  UNCHANGED <<parents, dead>>
  BY <1>7 DEF PickParent, SignalParent, Notify, EndSignal, EndResume, OwnSignal,
              EndOwnSignal, Leave
<1>8. QED
  BY <1>1, <1>2, <1>3, <1>4, <1>5, <1>6, <1>7 DEF ThreadStep, PollStep, CallStep

(* With a free slot and a thread that is not there, the first free slot is *)
(* one, and it is free.                                                    *)
LEMMA FirstFreeIsFree ==
  ASSUME NEW o \in Object, NEW t \in Thread, ~HasParent(o, t), ~Full(o, t)
  PROVE  FirstFree(o) \in Slot /\ parents[o][FirstFree(o)] = NoThread
<1> DEFINE T == {s \in Slot : parents[o][s] = NoThread}
<1>1. T # {} /\ T \subseteq Nat
  BY PollAssumption DEF Full, Slot
<1>2. \E s \in T : \A u \in T : <<u, s>> \notin OpToRel(<, Nat)
  <2> HIDE DEF T
  <2>1. QED
    BY <1>1, NatLessThanWellFounded, WFMin
<1>3. PICK s \in T : \A u \in T : ~(u < s)
  BY <1>1, <1>2 DEF OpToRel
<1>4. \A u \in 1 .. s - 1 : parents[o][u] # NoThread
  BY <1>3, PollAssumption DEF Slot
<1>5. s \in Slot /\ parents[o][s] = NoThread
  BY <1>3
<1>6. QED
  BY <1>4, <1>5 DEF FirstFree

(* Registering fills free slots only, and then has one; a thread that had  *)
(* one takes no other, and a thread that had none takes one.               *)
LEMMA AddParentSlots ==
  ASSUME TypeOK, NEW o \in Object, NEW t \in Thread, ~Full(o, t)
  PROVE  /\ \A s \in Slot : \/ AddParent(o, t)[s] = parents[o][s]
                            \/ parents[o][s] = NoThread /\ AddParent(o, t)[s] = t
         /\ \E s \in Slot : AddParent(o, t)[s] = t
         /\ \/ AddParent(o, t) = parents[o]
            \/ /\ ~HasParent(o, t)
               /\ \E f \in Slot : AddParent(o, t) = [parents[o] EXCEPT ![f] = t]
<1>1. parents[o] \in [Slot -> Thread \cup {NoThread}]
  BY DEF TypeOK
<1>2. CASE HasParent(o, t)
  BY <1>2 DEF AddParent, HasParent
<1>3. CASE ~HasParent(o, t)
  <2>1. FirstFree(o) \in Slot /\ parents[o][FirstFree(o)] = NoThread
    BY <1>3, FirstFreeIsFree
  <2>2. AddParent(o, t) = [parents[o] EXCEPT ![FirstFree(o)] = t]
    BY <1>3 DEF AddParent
  <2>3. QED
    BY <1>1, <1>3, <2>1, <2>2
<1>4. QED
  BY <1>2, <1>3

(* The slots of an object after a step: a thread that registers takes a    *)
(* free one of an object it may poll, or of the peer of a socket it may    *)
(* poll; one that ends its poll gives up its own.                          *)
LEMMA SlotStep ==
  ASSUME TypeOK, PolledInv, NEW t \in Thread, ThreadStep(t),
         NEW o \in Object, NEW s \in Slot
  PROVE  \/ parents'[o][s] = parents[o][s]
         \/ parents[o][s] = NoThread /\ parents'[o][s] = t /\ t \in Pollers(o)
         \/ /\ parents[o][s] = t /\ parents'[o][s] = NoThread
            /\ pc[t] \in {"return", "clear"}
<1>1. CASE UNCHANGED parents
  BY <1>1
<1>2. ASSUME NEW r \in todo[t], \A p \in Conds(r) : ~Full(p, t),
             parents' = [p \in Object |-> IF p \in Conds(r) THEN AddParent(p, t)
                                                            ELSE parents[p]],
             o \in Conds(r)
      PROVE  \/ parents'[o][s] = parents[o][s]
             \/ parents[o][s] = NoThread /\ parents'[o][s] = t /\ t \in Pollers(o)
  <2>1. parents'[o] = AddParent(o, t)
    BY <1>2
  <2>2. t \in Pollers(o)
    BY <1>2 DEF PolledInv, Polling, Pollers, Conds
  <2>3. QED
    BY <1>2, <2>1, <2>2, AddParentSlots
<1>3. CASE pc[t] \in {"return", "clear"} /\ Unregister(t)
  <2>1. parents'[o] = parents[o] \/ parents'[o] = RemoveParent(o, t)
    BY <1>3 DEF Unregister
  <2>2. QED
    BY <1>3, <2>1 DEF RemoveParent
<1>4. ASSUME NEW r \in todo[t],
             parents' = [p \in Object |-> IF p \in Conds(r) THEN AddParent(p, t)
                                                            ELSE parents[p]],
             o \notin Conds(r)
      PROVE  parents'[o][s] = parents[o][s]
  BY <1>4
<1>5. QED
  BY <1>1, <1>2, <1>3, <1>4, ParentSteps

(* The slots of an object belong to threads that may poll it, or the other *)
(* end of it, and no two to one of them; a thread that panics found them   *)
(* taken by others.                                                        *)
AskedInv ==
  \A o \in Object, s \in Slot :
    parents[o][s] # NoThread => parents[o][s] \in Pollers(o)

OneSlotInv ==
  \A o \in Object : \A r, s \in Slot :
    parents[o][r] # NoThread /\ parents[o][r] = parents[o][s] => r = s

PanicInv ==
  \A t \in Thread : pc[t] = "panic" => \E o \in Object : Full(o, t) /\ t \in Pollers(o)

(* Nobody but those who may poll an object gets a slot of it. *)
LEMMA AskedStep ==
  ASSUME TypeOK, PolledInv, AskedInv, NEW t \in Thread, ThreadStep(t)
  PROVE  AskedInv'
<1> SUFFICES ASSUME NEW o \in Object, NEW s \in Slot, parents'[o][s] # NoThread
             PROVE  parents'[o][s] \in Pollers(o)
  BY DEF AskedInv, Pollers, Asked
<1>1. QED
  BY SlotStep DEF AskedInv

(* A thread that polls again finds the slot it left. *)
LEMMA OneSlotStep ==
  ASSUME TypeOK, OneSlotInv, NEW t \in Thread, ThreadStep(t)
  PROVE  OneSlotInv'
<1> SUFFICES ASSUME NEW o \in Object, NEW i \in Slot, NEW j \in Slot,
                    parents'[o][i] # NoThread, parents'[o][i] = parents'[o][j]
             PROVE  i = j
  BY DEF OneSlotInv
<1>1. parents[o][i] # NoThread /\ parents[o][i] = parents[o][j] => i = j
  BY DEF OneSlotInv
<1>2. CASE UNCHANGED parents
  BY <1>1, <1>2
<1>3. ASSUME NEW r \in todo[t], \A p \in Conds(r) : ~Full(p, t),
             parents' = [p \in Object |-> IF p \in Conds(r) THEN AddParent(p, t)
                                                            ELSE parents[p]]
      PROVE  i = j
  <2>1. CASE parents'[o] = parents[o]
    BY <1>1, <2>1
  <2>2. ASSUME ~HasParent(o, t), NEW f \in Slot, parents'[o] = [parents[o] EXCEPT ![f] = t]
        PROVE  i = j
    <3>1. parents[o] \in [Slot -> Thread \cup {NoThread}]
      BY DEF TypeOK
    <3>2. parents[o][i] # t /\ parents[o][j] # t
      BY <2>2 DEF HasParent
    <3>3. QED
      BY <1>1, <2>2, <3>1, <3>2
  <2>3. QED
    BY <1>3, <2>1, <2>2, AddParentSlots
<1>4. CASE Unregister(t)
  <2>1. parents'[o] = parents[o] \/ parents'[o] = RemoveParent(o, t)
    BY <1>4 DEF Unregister
  <2>2. QED
    BY <1>1, <2>1 DEF RemoveParent
<1>5. QED
  BY <1>2, <1>3, <1>4, ParentSteps

(* A panic is of a thread that registers, while the slots are taken.       *)
LEMMA PanicStep ==
  ASSUME TypeOK, PolledInv, ~Panicked, NEW t \in Thread, ThreadStep(t)
  PROVE  PanicInv'
<1> SUFFICES ASSUME NEW u \in Thread, pc'[u] = "panic"
             PROVE  \E o \in Object : Full(o, u)' /\ u \in Pollers(o)
  BY DEF PanicInv, Pollers, Asked
<1>1. pc[u] # "panic"
  BY DEF Panicked
<1>2. u = t
  BY <1>1, OthersKeep DEF Others
<1>3. ASSUME NEW r \in Request, Register(t, r)
      PROVE  \E o \in Object : Full(o, t)' /\ t \in Pollers(o)
  <2>1. ~Advance(t, r, "look")
    BY <1>1, <1>2 DEF Advance, Goto, TypeOK
  <2>2. PICK o \in Conds(r) : Full(o, t)
    BY <1>3, <2>1 DEF Register
  <2>3. UNCHANGED parents /\ r \in todo[t]
    BY <1>3, <2>1, <2>2 DEF Register
  <2>4. o \in Object
    BY PollAssumption DEF Conds, Reaches, Request, Object
  <2>5. t \in Pollers(o)
    BY <2>3 DEF Pollers, PolledInv, Polling, Conds
  <2>6. Full(o, t)'
    BY <2>2, <2>3 DEF Full, HasParent
  <2>7. QED
    BY <2>4, <2>5, <2>6
<1>4. ASSUME \/ \E S \in Polls[t] : BeginPoll(t, S)
             \/ \E c \in Calls[t] : BeginCall(t, c)
             \/ Expire(t) \/ LockPoll(t) \/ LockTable(t) \/ Looked(t) \/ Rewake(t)
             \/ ClearPoll(t) \/ TakeTable(t) \/ TakeSignals(t)
             \/ \E r \in Request : Look(t, r)
      PROVE  FALSE
  BY <1>1, <1>2, <1>4 DEF BeginPoll, BeginCall, Expire, LockPoll, LockTable, Looked,
     Rewake, ClearPoll, TakeTable, TakeSignals, Look, Advance, Goto, TypeOK
<1>5. ASSUME \E o \in Object :
               \/ LoadEarly(t, o) \/ Write(t, o) \/ Read(t, o) \/ Post(t, o) \/ HangUp(t, o)
               \/ GiveUp(t, o) \/ Block(t, o) \/ Resume(t, o)
      PROVE  FALSE
  BY <1>1, <1>2, <1>5 DEF LoadEarly, Write, Read, Post, HangUp, Change, GiveUp, Block,
     Resume, Leave, Goto, TypeOK
<1>6. ASSUME \/ PickParent(t) \/ SignalParent(t) \/ EndSignal(t)
             \/ EndResume(t) \/ OwnSignal(t) \/ EndOwnSignal(t)
      PROVE  FALSE
  BY <1>1, <1>2, <1>6 DEF PickParent, SignalParent, EndSignal, EndResume, OwnSignal,
     EndOwnSignal, Leave, Goto, TypeOK
<1>7. ASSUME Notify(t) PROVE FALSE
  <2>1. NotifyOwn(t, Walked(t)) /\ t \notin Blocked(Walked(t))
    BY <1>7 DEF Notify, Blocked
  <2>2. pc'[t] = pc[t]
    BY <2>1 DEF NotifyOwn, TypeOK
  <2>3. QED
    BY <1>1, <1>2, <2>2
<1>8. QED
  BY <1>2, <1>3, <1>4, <1>5, <1>6, <1>7 DEF ThreadStep, PollStep, CallStep

(* "ran out of parent slots" takes more threads that poll an object, or    *)
(* the other end of it, than it has slots: whatever polls leave behind, at *)
(* peers and under descriptors that were closed or reused, does not add    *)
(* up.                                                                     *)
THEOREM SlotPerThreadCorrect ==
  ASSUME IsFiniteSet(Thread)
  PROVE  Spec => []SlotPerThread
<1> DEFINE SlotsInv == /\ TypeOK /\ WalkInv /\ PolledInv
                       /\ AskedInv /\ OneSlotInv /\ PanicInv
<1>1. Init => SlotsInv
  <2> SUFFICES ASSUME Init PROVE SlotsInv
    OBVIOUS
  <2>1. PolledInv
    BY DEF Init, PolledInv, Polling
  <2>2. AskedInv /\ OneSlotInv /\ PanicInv
    BY DEF Init, AskedInv, OneSlotInv, PanicInv
  <2>3. QED
    BY <2>1, <2>2, InitType
<1>2. SlotsInv /\ [Next]_vars => SlotsInv'
  <2> SUFFICES ASSUME SlotsInv, [Next]_vars PROVE SlotsInv'
    OBVIOUS
  <2>1. ASSUME UNCHANGED <<parents, pc, call, walk>>
        PROVE  WalkInv' /\ AskedInv' /\ OneSlotInv' /\ PanicInv'
    BY <2>1 DEF WalkInv, Fits, Walking, AskedInv, OneSlotInv, PanicInv, Full, HasParent,
                Pollers, Asked
  <2>2. CASE Next
    <3>1. PICK t \in Thread : ThreadStep(t) \/ \E r \in now[t] : Renumber(t, r)
      BY <2>2 DEF Next, ThreadStep
    <3>2. CASE ThreadStep(t)
      <4>1. ~Panicked
        BY <2>2 DEF Next
      <4>2. TypeOK' /\ WalkInv'
        BY <3>2, TypeStep, WalkStep
      <4>3. PolledInv' /\ AskedInv'
        BY <3>2, PolledStep, AskedStep
      <4>4. OneSlotInv' /\ PanicInv'
        BY <3>2, <4>1, OneSlotStep, PanicStep
      <4>5. QED
        BY <4>2, <4>3, <4>4
    <3>3. ASSUME NEW r \in now[t], Renumber(t, r) PROVE SlotsInv'
      BY <2>1, <3>3, RenumberKeeps
    <3>4. QED
      BY <3>1, <3>2, <3>3
  <2>3. CASE UNCHANGED vars
    <3>1. TypeOK' /\ PolledInv'
      BY <2>3 DEF vars, TypeOK, PolledInv, Polling, Asked
    <3>2. QED
      BY <2>1, <2>3, <3>1 DEF vars
  <2>4. QED
    BY <2>2, <2>3
<1>3. SlotsInv => SlotPerThread
  <2> SUFFICES ASSUME SlotsInv, Panicked
               PROVE  \E o \in Object : Cardinality(Pollers(o)) > MaxParents
    BY DEF SlotPerThread
  <2>1. PICK t \in Thread, o \in Object : Full(o, t) /\ t \in Pollers(o)
    BY DEF Panicked, PanicInv
  <2> DEFINE P == Pollers(o)
             Q == P \ {t}
  <2>2. parents[o] \in [Slot -> Thread \cup {NoThread}]
    BY DEF TypeOK
  <2>3. \A s \in Slot : parents[o][s] \in Q
    BY <2>1, <2>2 DEF AskedInv, Full, HasParent
  <2>4. parents[o] \in [Slot -> Q]
    BY <2>2, <2>3
  <2>5. IsFiniteSet(P) /\ t \in P
    <3>1. P \subseteq Thread
      BY DEF Pollers
    <3>2. QED
      BY <2>1, <3>1, FS_Subset
  <2>6. /\ IsFiniteSet(Q) /\ Cardinality(Q) = Cardinality(P) - 1
        /\ Cardinality(P) \in Nat
    <3> HIDE DEF P
    <3>1. QED
      BY <2>5, FS_RemoveElement, FS_CardinalityType
  <2>7. IsFiniteSet(Slot) /\ Cardinality(Slot) = MaxParents /\ MaxParents \in Nat
    BY FS_Interval, PollAssumption DEF Slot
  <2>8. \A i, j \in Slot : parents[o][i] = parents[o][j] => i = j
    <3>1. \A i \in Slot : parents[o][i] # NoThread
      BY <2>1 DEF Full
    <3>2. QED
      BY <3>1 DEF OneSlotInv
  <2> HIDE DEF P, Q
  <2>9. ~(Cardinality(Q) < Cardinality(Slot))
    BY <2>4, <2>6, <2>7, <2>8, FS_PigeonHole
  <2>10. Cardinality(P) > MaxParents
    BY <2>6, <2>7, <2>9
  <2>11. QED
    BY <2>10 DEF P
<1>4. QED
  BY <1>1, <1>2, <1>3, PTL DEF Spec

-----------------------------------------------------------------------------
(* No poller misses an object that becomes ready *)

(* The conjuncts of its inductive invariant *)

(* A poller holds its lock until it sleeps.  Outside a walk nothing is     *)
(* left of one, except that a call may have been early to look for         *)
(* parents.                                                                *)
Early(t) ==
  /\ pc[t] = "lock"
  /\ call[t].op \in {"read", "write", "close"} /\ call[t].obj \notin SignalFd
  /\ walk[t] = [NoWalk EXCEPT !.slot = MaxParents + 1]
Holding(t) ==
  /\ pc[t] \in {"look", "looked", "register", "table"} => pollLock[t] = t
  /\ pc[t] = "asleep" => ~found[t]
  /\ ~Walking(t) => walk[t] = NoWalk \/ Early(t)
HoldsInv == \A t \in Thread : Holding(t)

\* the requests a poller has registered, and those it has looked at
Registered(t) ==
  IF pc[t] = "register" THEN polled[t] \ todo[t]
  ELSE IF pc[t] \in {"look", "looked", "asleep"} THEN polled[t] ELSE {}
LookedAt(t) ==
  IF pc[t] = "look" THEN polled[t] \ todo[t]
  ELSE IF pc[t] \in {"looked", "asleep"} THEN polled[t] ELSE {}

RegisteredInv ==
  \A t \in Thread : \A r \in Registered(t) : r.obj \notin dead => HasParent(r.obj, t)

\* the last change of an object reaches t: every parent is told, or t is the only one
Sole(o, t) == o \in Socket \/ Pollers(o) = {t}
\* a walk over the slots of o that has still to notify t
Toward(u, t, o) == WillSignal(u, t) /\ Walked(u) = o

\* what a poller has seen not ready, and is ready now, is about to be signalled
Covered(t, o) == found[t] \/ \E u \in Thread : Toward(u, t, o)
CoveredInv ==
  \A t \in Thread : \A r \in LookedAt(t) :
    r.obj \notin dead /\ Ready(r) /\ r.obj \notin early /\ Sole(r.obj, t) => Covered(t, r.obj)

BaseInv == TypeOK /\ WalkInv /\ PolledInv /\ HoldsInv /\ AskedInv
MissInv == BaseInv /\ RegisteredInv /\ CoveredInv

-----------------------------------------------------------------------------
(* Locks, and what is registered *)

(* A poller keeps its lock until it sleeps, and a thread that is not in a  *)
(* walk has none.                                                          *)
LEMMA HoldingStep ==
  ASSUME BaseInv, NEW t \in Thread, ThreadStep(t)
  PROVE  Holding(t)'
<1>0. Holding(t) /\ Fits(t)
  BY DEF BaseInv, HoldsInv, WalkInv
<1> USE <1>0 DEF BaseInv, TypeOK, Goto, Holding, Early, Walking, polling
<1>1. ASSUME NEW S \in Polls[t], BeginPoll(t, S) PROVE Holding(t)'
  BY <1>1 DEF BeginPoll
<1>2. ASSUME NEW c \in Calls[t], BeginCall(t, c) PROVE Holding(t)'
  BY <1>2 DEF BeginCall
<1>3. CASE Expire(t)
  BY <1>3 DEF Expire
<1>4. CASE LockPoll(t)
  BY <1>4 DEF LockPoll
<1>5. CASE LockTable(t)
  BY <1>5 DEF LockTable
<1>6. ASSUME NEW r \in Request, Register(t, r) PROVE Holding(t)'
  BY <1>6 DEF Register, Advance
<1>7. ASSUME NEW r \in Request, Look(t, r) PROVE Holding(t)'
  BY <1>7 DEF Look, Advance
<1>8. CASE Looked(t)
  BY <1>8 DEF Looked
<1>9. CASE Rewake(t)
  BY <1>9 DEF Rewake
<1>10. CASE ClearPoll(t)
  BY <1>10 DEF ClearPoll
<1>11. CASE TakeTable(t) \/ TakeSignals(t)
  BY <1>11 DEF TakeTable, TakeSignals
<1>12. ASSUME NEW o \in Object, LoadEarly(t, o) PROVE Holding(t)'
  <2>1. /\ pc[t] = "lock" /\ call[t].op \in {"read", "write", "close"}
        /\ UNCHANGED <<pc, call>> /\ walk' = [walk EXCEPT ![t].slot = MaxParents + 1]
    BY <1>12 DEF LoadEarly, Enters
  <2>2. call[t].obj \notin SignalFd
    BY <1>12, PollAssumption DEF LoadEarly, Enters, Target
  <2>3. walk'[t] = [NoWalk EXCEPT !.slot = MaxParents + 1]
    BY <2>1 DEF NoWalk
  <2>4. QED
    BY <2>1, <2>2, <2>3
<1>13. ASSUME NEW o \in Object, Write(t, o) \/ Read(t, o) \/ Post(t, o) \/ HangUp(t, o)
       PROVE  Holding(t)'
  BY <1>13 DEF Write, Read, Post, HangUp, Change, Enters
<1>14. ASSUME NEW o \in Object, GiveUp(t, o) \/ Block(t, o) \/ Resume(t, o)
       PROVE  Holding(t)'
  BY <1>14 DEF GiveUp, Block, Resume, Leave, Enters
<1>15. CASE PickParent(t)
  BY <1>15 DEF PickParent
<1>16. CASE SignalParent(t)
  <2>1. pc'[t] = pc[t]
    BY <1>16 DEF SignalParent
  <2>2. QED
    BY <1>16, <2>1 DEF SignalParent
<1>17. CASE Notify(t)
  <2>1. pc'[t] = pc[t]
    <3>1. NotifyOwn(t, Walked(t)) /\ t \notin Blocked(Walked(t))
      BY <1>17 DEF Notify, Blocked
    <3>2. QED
      BY <3>1 DEF NotifyOwn
  <2>2. QED
    BY <1>17, <2>1 DEF Notify
<1>18. CASE EndSignal(t) \/ EndResume(t) \/ OwnSignal(t) \/ EndOwnSignal(t)
  BY <1>18 DEF EndSignal, EndResume, OwnSignal, EndOwnSignal, Leave, WalkDone
<1>19. QED
  BY <1>1, <1>2, <1>3, <1>4, <1>5, <1>6, <1>7, <1>8, <1>9, <1>10,
     <1>11, <1>12, <1>13, <1>14, <1>15, <1>16, <1>17, <1>18
     DEF ThreadStep, PollStep, CallStep

(* The same of every thread. *)
LEMMA HoldsStep ==
  ASSUME BaseInv, NEW t \in Thread, ThreadStep(t)
  PROVE  HoldsInv'
<1>1. ASSUME NEW u \in Thread PROVE Holding(u)'
  <2>1. CASE u = t
    BY <2>1, HoldingStep
  <2>2. CASE u # t
    <3>1. Others(t) /\ Holding(u)
      BY OthersKeep DEF BaseInv, HoldsInv
    <3>2. QED
      BY <2>2, <3>1 DEF Others, Holding, Early, Walking
  <2>3. QED
    BY <2>1, <2>2
<1>2. QED
  BY <1>1 DEF HoldsInv

(* Types, walks, polls, locks and slots together. *)
LEMMA BaseStep ==
  ASSUME BaseInv, NEW t \in Thread, ThreadStep(t)
  PROVE  BaseInv'
<1> USE DEF BaseInv
<1>1. TypeOK' /\ WalkInv'
  BY TypeStep, WalkStep
<1>2. PolledInv' /\ HoldsInv'
  BY PolledStep, HoldsStep
<1>3. AskedInv'
  BY AskedStep
<1>4. QED
  BY <1>1, <1>2, <1>3

(* Only a poller's own steps add to what it has registered, or looked at.  *)
LEMMA OwnProgress ==
  ASSUME BaseInv, NEW t \in Thread, ThreadStep(t)
  PROVE  \/ Registered(t)' = {} /\ LookedAt(t)' = {}
         \/ \E r \in todo[t] : Register(t, r) /\ Registered(t)' \subseteq Registered(t) \cup {r}
                               /\ LookedAt(t)' = {}
         \/ \E r \in todo[t] : Look(t, r) /\ Registered(t)' = Registered(t)
                               /\ LookedAt(t)' \subseteq LookedAt(t) \cup {r}
         \/ Looked(t) /\ ~found[t] /\ Registered(t)' = Registered(t) /\ LookedAt(t)' = LookedAt(t)
<1> USE DEF BaseInv, TypeOK, Goto, Registered, LookedAt
<1>1. ASSUME NEW r \in Request, Register(t, r)
      PROVE  \/ Registered(t)' = {} /\ LookedAt(t)' = {}
             \/ r \in todo[t] /\ Registered(t)' \subseteq Registered(t) \cup {r} /\ LookedAt(t)' = {}
  <2>1. pc[t] = "register" /\ r \in todo[t] /\ UNCHANGED polled
    BY <1>1 DEF Register
  <2>2. CASE pc' = [pc EXCEPT ![t] = "panic"]
    BY <2>2
  <2>3. CASE Advance(t, r, "look")
    BY <2>1, <2>3 DEF Advance
  <2>4. QED
    BY <1>1, <2>2, <2>3 DEF Register
<1>2. ASSUME NEW r \in Request, Look(t, r)
      PROVE  /\ r \in todo[t] /\ Registered(t)' = Registered(t)
             /\ LookedAt(t)' \subseteq LookedAt(t) \cup {r}
  BY <1>2 DEF Look, Advance
<1>3. CASE Looked(t)
  BY <1>3 DEF Looked, polling
<1>4. CASE pc'[t] \notin {"register", "look", "looked", "asleep"}
  BY <1>4
<1>5. CASE LockTable(t)
  BY <1>5 DEF LockTable
<1>6. ASSUME NEW S \in Polls[t], BeginPoll(t, S)
      PROVE  pc'[t] \notin {"register", "look", "looked", "asleep"}
  BY <1>6 DEF BeginPoll
<1>7. ASSUME \/ Expire(t) \/ LockPoll(t) \/ Rewake(t) \/ ClearPoll(t)
             \/ \E c \in Calls[t] : BeginCall(t, c)
             \/ TakeTable(t) \/ TakeSignals(t)
      PROVE  pc'[t] \notin {"register", "look", "looked", "asleep"}
  BY <1>7 DEF Expire, LockPoll, Rewake, ClearPoll, BeginCall, TakeTable, TakeSignals
<1>8. ASSUME \E o \in Object :
               \/ LoadEarly(t, o) \/ Write(t, o) \/ Read(t, o) \/ Post(t, o) \/ HangUp(t, o)
               \/ GiveUp(t, o) \/ Block(t, o) \/ Resume(t, o)
      PROVE  pc'[t] \notin {"register", "look", "looked", "asleep"}
  BY <1>8 DEF LoadEarly, Write, Read, Post, HangUp, Change, GiveUp, Block, Resume,
              Leave, Enters
<1>9. CASE PickParent(t) \/ SignalParent(t) \/ EndSignal(t) \/ EndResume(t)
           \/ OwnSignal(t) \/ EndOwnSignal(t)
  <2>1. pc'[t] \notin {"register", "look", "looked", "asleep"}
    BY <1>9 DEF PickParent, SignalParent, EndSignal, EndResume, OwnSignal,
                EndOwnSignal, Leave, Walking
  <2>2. QED
    BY <1>4, <2>1
<1>10. CASE Notify(t)
  <2>1. NotifyOwn(t, Walked(t)) /\ t \notin Blocked(Walked(t)) /\ pc[t] = "signal"
    BY <1>10 DEF Notify, Blocked
  <2>2. pc'[t] = "signal"
    BY <2>1 DEF NotifyOwn
  <2>3. QED
    BY <1>4, <2>2
<1>11. QED
  BY <1>1, <1>2, <1>3, <1>4, <1>5, <1>6, <1>7, <1>8, <1>9, <1>10
     DEF ThreadStep, PollStep, CallStep

(* Another thread's step never adds to them; it may wake the poller.       *)
LEMMA OthersProgress ==
  ASSUME BaseInv, NEW t \in Thread, ThreadStep(t), NEW u \in Thread, u # t
  PROVE  Registered(u)' \subseteq Registered(u) /\ LookedAt(u)' \subseteq LookedAt(u)
         /\ found'[u] = found[u]
<1>1. Others(t)
  BY OthersKeep DEF BaseInv
<1>2. QED
  BY <1>1 DEF Others, Registered, LookedAt

\* a closed socket stays closed
LEMMA DeadGrows ==
  ASSUME NEW t \in Thread, TypeOK, ThreadStep(t)
  PROVE  dead \subseteq dead'
BY ParentSteps

(* Whoever has registered with an object keeps its slot. *)
LEMMA RegisteredStep ==
  ASSUME BaseInv, RegisteredInv, NEW t \in Thread, ThreadStep(t)
  PROVE  RegisteredInv'
<1> SUFFICES ASSUME NEW u \in Thread, NEW r \in Registered(u)', r.obj \notin dead'
             PROVE  HasParent(r.obj, u)'
  BY DEF RegisteredInv
<1> USE DEF BaseInv
<1>1. r.obj \notin dead
  BY DeadGrows
<1>2. r \in Request /\ r.obj \in Object
  <2>1. polled' \in [Thread -> SUBSET Request]
    BY TypeStep DEF TypeOK
  <2>2. QED
    BY <2>1 DEF Registered, Request
<1>3. CASE r \in Registered(u)
  <2>1. PICK s \in Slot : parents[r.obj][s] = u
    BY <1>1, <1>3 DEF RegisteredInv, HasParent
  <2>2. u # t \/ pc[t] \notin {"return", "clear"}
    BY <1>3 DEF Registered
  <2>3. parents'[r.obj][s] = u
    BY <1>2, <2>1, <2>2, SlotStep, PollAssumption
  <2>4. QED
    BY <2>3 DEF HasParent
<1>4. CASE r \notin Registered(u)
  <2>1. u = t
    BY <1>4, OthersProgress
  <2>2. Register(t, r)
    BY <1>4, <2>1, OwnProgress
  <2>3. HasParent(r.obj, t)'
    <3>1. r.obj \in Conds(r)
      BY <1>1 DEF Conds, Reaches
    <3>2. CASE pc' = [pc EXCEPT ![t] = "panic"]
      BY <1>4, <2>1, <3>2 DEF Registered, TypeOK
    <3>3. CASE ~Full(r.obj, t) /\ parents'[r.obj] = AddParent(r.obj, t)
      BY <1>2, <3>3, AddParentSlots DEF HasParent
    <3>4. QED
      BY <1>1, <1>2, <2>2, <3>1, <3>2, <3>3 DEF Register, Goto
  <2>4. QED
    BY <2>1, <2>3
<1>5. QED
  BY <1>3, <1>4

-----------------------------------------------------------------------------
(* Signals on their way *)

(* A walk goes over the slots of an object, and one that signals only the  *)
(* first parent over those of an eventfd or a signalfd.                    *)
LEMMA WalkedObject ==
  ASSUME BaseInv, NEW u \in Thread, pc[u] \in CallPC
  PROVE  /\ call[u] \in Call /\ call[u] \in Calls[u]
         /\ Walked(u) \in Object /\ call[u].obj \in Object
         /\ ~SignalsAll(u) => Walked(u) \in Event \cup SignalFd
<1>1. call[u] \in Call /\ call[u] \in Calls[u]
  BY PollAssumption DEF BaseInv, WalkInv, Fits
<1>2. call[u].obj \in Object
  BY <1>1 DEF Call
<1>3. Walked(u) \in Object
  BY <1>1, <1>2, TargetObject DEF Walked
<1>4. QED
  BY <1>1, <1>2, <1>3 DEF SignalsAll, Object

(* Of an object with one poller, whoever holds a slot holds them all.      *)
LEMMA OneHolder ==
  ASSUME BaseInv, NEW x \in Thread, NEW o \in Object, o \notin Socket, Sole(o, x),
         NEW i \in Slot
  PROVE  parents[o][i] \in {NoThread, x}
BY DEF BaseInv, AskedInv, Sole

(* Signals of other threads stay on their way, whatever a step does to the *)
(* slots they pass.                                                        *)
LEMMA SignalKept ==
  ASSUME BaseInv, BaseInv', NEW t \in Thread, ThreadStep(t),
         NEW u \in Thread, u # t, NEW x \in Thread, NEW o \in Object, Sole(o, x),
         Toward(u, x, o), x # t \/ UNCHANGED parents
  PROVE  Toward(u, x, o)'
<1>1. Others(t)
  BY OthersKeep DEF BaseInv
<1>2. pc[u] \in {"signal", "ownsignal", "locktable", "lock"}
  BY DEF Toward, WillSignal, Walking
<1>3. pc'[u] = pc[u] /\ walk'[u] = walk[u] /\ call'[u] = call[u]
  BY <1>1, <1>2 DEF Others
<1>4. /\ Walking(u)' = Walking(u) /\ Walked(u)' = o /\ Walked(u) = o
      /\ SignalsAll(u)' = SignalsAll(u)
  BY <1>3 DEF Walking, Walked, SignalsAll, Toward
<1>5. call[u].obj \in Object /\ (~SignalsAll(u) => o \notin Socket)
  BY <1>2, <1>4, WalkedObject DEF CallPC, SignalsAll
<1>6. \A p \in Object, s \in Slot : parents[p][s] = x => parents'[p][s] = x
  BY SlotStep, PollAssumption DEF BaseInv
<1>7. \A p \in Object : HasParent(p, x) => HasParent(p, x)'
  BY <1>6 DEF HasParent
<1>8. CASE Walking(u) /\ walk[u].parent = x
  BY <1>3, <1>4, <1>8 DEF WillSignal, Toward
<1>9. ASSUME Walking(u), walk[u].parent = NoThread,
             NEW s \in walk[u].slot .. MaxParents, parents[o][s] = x
      PROVE  Toward(u, x, o)'
  <2>1. walk[u].slot \in Nat \ {0}
    BY DEF BaseInv, TypeOK, Walk
  <2>2. s \in Slot /\ \A i \in walk[u].slot .. s - 1 : i \in Slot
    BY <2>1, PollAssumption DEF Slot
  <2>3. parents'[o][s] = x
    BY <1>6, <1>9, <2>2
  <2>4. o \notin Socket => \A i \in Slot : parents'[o][i] \in {NoThread, x}
    BY DEF BaseInv, AskedInv, Sole, Pollers, Asked
  <2>5. \/ SignalsAll(u)
        \/ \A i \in walk[u].slot .. s - 1 : parents'[o][i] \in {NoThread, x}
    BY <1>5, <2>2, <2>4
  <2>6. QED
    BY <1>3, <1>4, <1>9, <2>3, <2>5 DEF WillSignal, Toward
<1>10. ASSUME Walking(u), walk[u].parent # NoThread, SignalsAll(u),
              NEW s \in walk[u].slot + 1 .. MaxParents, parents[o][s] = x
       PROVE  Toward(u, x, o)'
  <2>1. walk[u].slot \in Nat \ {0}
    BY DEF BaseInv, TypeOK, Walk
  <2>2. s \in Slot
    BY <2>1, PollAssumption DEF Slot
  <2>3. parents'[o][s] = x
    BY <1>6, <1>10, <2>2
  <2>4. QED
    BY <1>3, <1>4, <1>10, <2>3 DEF WillSignal, Toward
<1>11. CASE pc[u] \in {"locktable", "lock"} /\ call[u].op = "post" /\ HasParent(call[u].obj, x)
  BY <1>3, <1>4, <1>5, <1>7, <1>11 DEF WillSignal, Toward
<1>12. QED
  BY <1>4, <1>8, <1>9, <1>10, <1>11 DEF WillSignal, Toward

(* A walk that begins will come to every thread that has a slot.           *)
LEMMA WalkBegins ==
  ASSUME BaseInv, NEW t \in Thread, NEW x \in Thread, NEW o \in Object, Sole(o, x),
         pc[t] \in CallPC, HasParent(o, x),
         pc'[t] = "signal", walk'[t] = NoWalk, call'[t] = call[t], Target(call[t]) = o,
         UNCHANGED parents
  PROVE  Toward(t, x, o)'
<1>1. Walked(t)' = o /\ Walking(t)'
  BY DEF Walked, Walking
<1>2. PICK s \in Slot : parents[o][s] = x
  BY DEF HasParent
<1>3. walk'[t].parent = NoThread /\ walk'[t].slot = 1
  BY DEF NoWalk
<1>4. o \in Socket => SignalsAll(t)'
  BY <1>1 DEF SignalsAll
<1>5. o \notin Socket => \A i \in Slot : parents[o][i] \in {NoThread, x}
  BY OneHolder
<1>6. s \in 1 .. MaxParents /\ \A i \in 1 .. s - 1 : i \in Slot
  BY PollAssumption DEF Slot
<1>7. QED
  BY <1>1, <1>2, <1>3, <1>4, <1>5, <1>6 DEF WillSignal, Toward

(* A thread's own signals stay on their way until it has woken their       *)
(* poller.                                                                 *)
LEMMA OwnKept ==
  ASSUME BaseInv, NEW t \in Thread, ThreadStep(t),
         NEW x \in Thread, x # t, NEW o \in Object, Sole(o, x),
         Toward(t, x, o), LookedAt(x)' # {}
  PROVE  Toward(t, x, o)'
<1> USE DEF BaseInv, TypeOK, Goto
<1>0. pc[t] \in {"signal", "ownsignal", "locktable", "lock"}
  BY DEF WillSignal, Walking, Toward
<1>w. /\ walk[t] \in Walk /\ walk[t].slot \in 1 .. MaxParents + 2
      /\ MaxParents \in Nat \ {0}
  BY PollAssumption DEF Walk
<1>c. /\ call[t] \in Call /\ call[t] \in Calls[t] /\ Walked(t) \in Object
      /\ call[t].op = "post" => Target(call[t]) = call[t].obj
  <2>1. call[t] \in Call /\ call[t] \in Calls[t] /\ Walked(t) \in Object
    BY <1>0, WalkedObject DEF CallPC
  <2>2. call[t].op = "post" => call[t].obj \in SignalFd
    BY <2>1, PollAssumption
  <2>3. QED
    BY <2>1, <2>2, PollAssumption DEF Target
<1>1. CASE PollStep(t) \/ Expire(t) \/ \E S \in Polls[t] : BeginPoll(t, S)
  BY <1>0, <1>1 DEF PollStep, LockPoll, LockTable, Register, Look, Looked, Rewake,
                    ClearPoll, Expire, BeginPoll
<1>2. ASSUME NEW c \in Calls[t], BeginCall(t, c) PROVE FALSE
  BY <1>0, <1>2 DEF BeginCall
<1>3. CASE TakeTable(t)
  BY <1>3 DEF TakeTable, Toward, WillSignal, Walking, Walked, HasParent
<1>4. CASE pc[t] = "lock"
  <2>1. call[t].op = "post" /\ HasParent(call[t].obj, x)
    BY <1>4 DEF WillSignal, Walking, Toward
  <2>2. PICK p \in Object : Post(t, p)
    BY <1>4, <2>1 DEF ThreadStep, PollStep, CallStep, BeginPoll, BeginCall, Expire,
       LockPoll, LockTable, Register, Look, Looked, Rewake, ClearPoll, TakeTable,
       TakeSignals, LoadEarly, Write, Read, HangUp, GiveUp, Block, Stuck, Resume,
       PickParent, SignalParent, Notify, EndSignal, EndResume, OwnSignal,
       EndOwnSignal, WalkDone, Walking
  <2>3. Target(call[t]) = p /\ p = call[t].obj /\ p = o
    BY <1>4, <1>c, <2>1, <2>2 DEF Post, Enters, Toward, Walked
  <2>4. walk[t] = NoWalk
    BY <1>4, <2>1 DEF HoldsInv, Holding, Early, Walking
  <2>5. pc'[t] = "signal" /\ UNCHANGED <<walk, call, parents>>
    BY <2>2 DEF Post, Change
  <2>6. pc[t] \in CallPC
    BY <1>4 DEF CallPC
  <2>7. QED
    BY <2>1, <2>3, <2>4, <2>5, <2>6, WalkBegins
<1>5. ASSUME WalkDone(t) PROVE FALSE
  BY <1>5, <1>w, PollAssumption DEF WalkDone, Toward, WillSignal, Walking, Slot
<1>6. CASE PickParent(t)
  <2> DEFINE k == walk[t].slot
             P == parents[Walked(t)]
  <2>1. /\ Walking(t) /\ walk[t].parent = NoThread /\ k \in Slot
        /\ UNCHANGED <<parents, pc, call>>
        /\ walk'[t].parent = P[k] /\ walk'[t].resuming = walk[t].resuming
        /\ walk'[t].slot = IF P[k] = NoThread THEN k + 1 ELSE k
    BY <1>6, <1>w DEF PickParent, Walk
  <2>2. Walking(t)' /\ Walked(t)' = Walked(t) /\ SignalsAll(t)' = SignalsAll(t)
    BY <2>1 DEF Walking, Walked, SignalsAll
  <2>3. PICK s \in k .. MaxParents :
          P[s] = x /\ (SignalsAll(t) \/ \A i \in k .. s - 1 : P[i] \in {NoThread, x})
    BY <2>1, PollAssumption DEF WillSignal, Walking, Toward
  <2>4. k \in Nat /\ s \in Nat /\ k <= s
    BY <1>w
  <2>5. CASE P[k] = x
    BY <2>1, <2>2, <2>5 DEF WillSignal, Toward
  <2>6. CASE P[k] = NoThread
    <3> HIDE DEF k, P, BaseInv, TypeOK
    <3>1. s # k
      BY <2>3, <2>6, PollAssumption
    <3>2. s \in k + 1 .. MaxParents
      BY <1>w, <2>3, <2>4, <3>1
    <3>3. SignalsAll(t) \/ \A i \in k + 1 .. s - 1 : P[i] \in {NoThread, x}
      BY <2>3, <2>4
    <3>4. walk'[t].parent = NoThread /\ walk'[t].slot = k + 1
      BY <2>1, <2>6
    <3>5. UNCHANGED parents /\ P = parents[Walked(t)]
      BY <2>1 DEF P
    <3>6. \E i \in walk'[t].slot .. MaxParents :
            /\ parents'[Walked(t)][i] = x
            /\ \/ SignalsAll(t)
               \/ \A j \in walk'[t].slot .. i - 1 : parents'[Walked(t)][j] \in {NoThread, x}
      BY <2>3, <3>2, <3>3, <3>4, <3>5
    <3>7. QED
      BY <2>2, <3>4, <3>6 DEF WillSignal, Toward
  <2>7. CASE P[k] \notin {NoThread, x}
    <3>0. s # k
      BY <2>3, <2>7
    <3>1. s \in k + 1 .. MaxParents /\ k \in k .. s - 1
      <4> HIDE DEF k, P, BaseInv, TypeOK
      <4>1. QED
        BY <1>w, <2>3, <2>4, <3>0
    <3>2. SignalsAll(t)
      BY <2>3, <2>7, <3>1
    <3>3. QED
      BY <2>1, <2>2, <2>3, <2>7, <3>1, <3>2 DEF WillSignal, Toward
  <2>8. QED
    BY <2>5, <2>6, <2>7
<1>7. CASE SignalParent(t)
  <2> DEFINE q == walk[t].parent
  <2>1. /\ Walking(t) /\ q # NoThread /\ q \in Thread /\ pollLock[q] = NoThread
        /\ pc' = IF pc[q] = "asleep" THEN [pc EXCEPT ![q] = "woken"] ELSE pc
        /\ UNCHANGED <<parents, polling, call>>
    BY <1>7, <1>w DEF SignalParent, Walk
  <2>2. /\ walk'[t].parent = NoThread /\ walk'[t].resuming = walk[t].resuming
        /\ SignalsAll(t) => walk'[t].slot = walk[t].slot + 1
    BY <1>7, <1>w DEF SignalParent, Walk
  <2>3. pc'[t] = pc[t]
    BY <2>1 DEF Walking
  <2>4. Walking(t)' /\ Walked(t)' = Walked(t) /\ SignalsAll(t)' = SignalsAll(t)
    BY <2>1, <2>2, <2>3 DEF Walking, Walked, SignalsAll
  <2>5. CASE q = x
    <3>1. pc[x] \notin {"look", "looked"}
      BY <2>1, <2>5, PollAssumption DEF HoldsInv, Holding
    <3>2. pc'[x] \notin {"look", "looked", "asleep"}
      BY <2>1, <2>5, <3>1
    <3>3. QED
      BY <3>2 DEF LookedAt
  <2>6. CASE q # x
    <3>1. SignalsAll(t) /\ \E s \in walk[t].slot + 1 .. MaxParents : parents[Walked(t)][s] = x
      BY <2>1, <2>6 DEF WillSignal, Walking, Toward
    <3>2. QED
      BY <2>1, <2>2, <2>4, <3>1 DEF WillSignal, Toward
  <2>7. QED
    BY <2>5, <2>6
<1>8. CASE pc[t] = "locktable"
  BY <1>3, <1>8 DEF ThreadStep, PollStep, CallStep, BeginPoll, BeginCall, Expire,
     LockPoll, LockTable, Register, Look, Looked, Rewake, ClearPoll,
     TakeSignals, LoadEarly, Write, Read, Post, HangUp, GiveUp, Block, Resume, Enters,
     PickParent, SignalParent, Notify, EndSignal, EndResume, OwnSignal,
     EndOwnSignal, WalkDone, Walking
<1>9. CASE pc[t] \in {"signal", "ownsignal"}
  BY <1>1, <1>2, <1>5, <1>6, <1>7, <1>9 DEF ThreadStep, CallStep, TakeTable,
     TakeSignals, LoadEarly, Write, Read, Post, HangUp, GiveUp, Block, Resume, Enters,
     Notify, EndSignal, EndResume, OwnSignal, EndOwnSignal
<1>10. QED
  BY <1>0, <1>4, <1>8, <1>9

(* Whoever makes an object ready, or is in time to look for parents after  *)
(* a call that was not, signals the threads that registered.               *)
LEMMA ChangeSignals ==
  ASSUME BaseInv, NEW t \in Thread, ThreadStep(t),
         NEW x \in Thread, NEW r \in Request, Sole(r.obj, x), HasParent(r.obj, x),
         ~Ready(r) \/ r.obj \in early, Ready(r)', r.obj \notin early'
  PROVE  Toward(t, x, r.obj)'
<1> USE DEF BaseInv, TypeOK, Goto
<1>0. r.obj \in Object
  BY DEF Request
<1>1. CASE UNCHANGED objects
  BY <1>1 DEF objects, Ready
<1>2. ASSUME NEW c \in Calls[t], BeginCall(t, c) PROVE Toward(t, x, r.obj)'
  <2>1. c \in Call /\ c.obj \in Object
    BY PollAssumption DEF Call
  <2>2. UNCHANGED <<hungUp, early>> /\ dead \subseteq dead'
    BY <1>2 DEF BeginCall
  <2>3. c.op = "post" /\ r.obj = c.obj
    <3>1. level' = IF c.op = "post" THEN [level EXCEPT ![c.obj] = 1] ELSE level
      BY <1>2 DEF BeginCall
    <3>2. level'[r.obj] # level[r.obj]
      BY <2>2 DEF Ready
    <3>3. QED
      BY <1>0, <2>1, <3>1, <3>2
  <2>4. pc'[t] \in {"locktable", "lock"} /\ call'[t] = c /\ UNCHANGED parents
    BY <1>2 DEF BeginCall
  <2>5. Walked(t)' = r.obj
    <3>1. c.obj \in SignalFd
      BY <2>3, PollAssumption
    <3>2. Target(c) = c.obj
      BY <3>1, PollAssumption DEF Target
    <3>3. QED
      BY <2>3, <2>4, <3>2 DEF Walked
  <2>6. QED
    BY <2>3, <2>4, <2>5 DEF WillSignal, HasParent, Toward
<1>3. CASE TakeSignals(t)
  <2>1. call[t].obj \in SignalFd /\ level' = [level EXCEPT ![call[t].obj] = 0]
        /\ UNCHANGED <<hungUp, dead, early>>
    BY <1>3 DEF TakeSignals
  <2>2. call[t].obj # r.obj => level'[r.obj] = level[r.obj]
    BY <1>0, <2>1
  <2>3. call[t].obj = r.obj => level'[r.obj] = 0 /\ r.obj \notin Event
    BY <1>0, <2>1, PollAssumption DEF Object
  <2>4. QED
    BY <2>1, <2>2, <2>3 DEF Ready
<1>4. ASSUME NEW o \in Object, Write(t, o) \/ Read(t, o) \/ Post(t, o) \/ HangUp(t, o)
      PROVE  Toward(t, x, r.obj)'
  <2>1. /\ pc[t] = "lock" /\ pc'[t] = "signal" /\ Target(call[t]) = o
        /\ UNCHANGED <<walk, call, parents, dead>>
        /\ early' = IF walk[t].slot = 1 \/ \A s \in Slot : parents[o][s] = NoThread
                      THEN early \ {o} ELSE early \cup {o}
    BY <1>4 DEF Write, Read, Post, HangUp, Change, Enters
  <2>2. /\ \A p \in Object \ {o} : level'[p] = level[p] /\ hungUp'[p] = hungUp[p]
    BY <1>4 DEF Write, Read, Post, HangUp
  <2>3. r.obj = o
    BY <1>0, <2>1, <2>2 DEF Ready
  <2>4. walk[t].slot = 1
    BY <2>1, <2>3, PollAssumption DEF HasParent
  <2>5. walk[t] = NoWalk /\ pc[t] \in CallPC
    <3>1. [NoWalk EXCEPT !.slot = MaxParents + 1].slot = MaxParents + 1
      BY DEF NoWalk
    <3>2. MaxParents + 1 # 1
      BY PollAssumption
    <3>3. ~Early(t)
      BY <2>4, <3>1, <3>2 DEF Early
    <3>4. QED
      BY <2>1, <3>3 DEF HoldsInv, Holding, Walking, CallPC
  <2>6. QED
    BY <2>1, <2>3, <2>5, WalkBegins
<1>5. CASE PollStep(t) \/ Expire(t) \/ \E S \in Polls[t] : BeginPoll(t, S)
  <2>1. UNCHANGED objects
    BY <1>5 DEF PollStep, LockPoll, LockTable, Register, Look, Looked, Rewake,
                ClearPoll, Expire, BeginPoll
  <2>2. QED
    BY <1>1, <2>1
<1>6. ASSUME NEW o \in Object, LoadEarly(t, o) \/ GiveUp(t, o) \/ Block(t, o) \/ Resume(t, o)
      PROVE  Toward(t, x, r.obj)'
  BY <1>1, <1>6 DEF LoadEarly, GiveUp, Block, Resume, Leave
<1>7. CASE TakeTable(t) \/ PickParent(t) \/ SignalParent(t) \/ Notify(t) \/ EndSignal(t)
           \/ EndResume(t) \/ OwnSignal(t) \/ EndOwnSignal(t)
  BY <1>1, <1>7 DEF TakeTable, PickParent, SignalParent, Notify, EndSignal, EndResume,
                    OwnSignal, EndOwnSignal, Leave
<1>8. QED
  BY <1>2, <1>3, <1>4, <1>5, <1>6, <1>7 DEF ThreadStep, CallStep

(* So what a poller has looked at stays covered.                           *)
LEMMA CoveredStep ==
  ASSUME MissInv, NEW t \in Thread, ThreadStep(t)
  PROVE  CoveredInv'
<1> USE DEF MissInv
<1> SUFFICES ASSUME NEW x \in Thread, NEW r \in LookedAt(x)', r.obj \notin dead', Ready(r)',
                    r.obj \notin early', Sole(r.obj, x)
             PROVE  Covered(x, r.obj)'
  BY DEF CoveredInv, Sole, Pollers, Asked
<1>1. r.obj \notin dead /\ TypeOK
  BY DeadGrows DEF BaseInv
<1>b. BaseInv'
  BY BaseStep
<1>o. r \in Request /\ r.obj \in Object
  <2>1. polled' \in [Thread -> SUBSET Request]
    BY <1>b DEF BaseInv, TypeOK
  <2>2. QED
    BY <2>1 DEF LookedAt, Request
<1>2. ASSUME NEW u \in Thread, Toward(u, x, r.obj), u # t, x # t \/ UNCHANGED parents
      PROVE  Covered(x, r.obj)'
  BY <1>2, <1>b, <1>o, SignalKept DEF Covered
<1>3. CASE x = t
  <2>1. /\ ~Walking(t) /\ pc[t] \notin {"locktable", "lock"}
        /\ \/ \E q \in todo[t] : Look(t, q) /\ LookedAt(t)' \subseteq LookedAt(t) \cup {q}
           \/ Looked(t) /\ ~found[t] /\ LookedAt(t)' = LookedAt(t)
    <3>1. LookedAt(t)' # {}
      BY <1>3
    <3>2. QED
      BY <3>1, OwnProgress DEF Look, Looked, Walking
  <2>2. UNCHANGED <<parents, dead, early>> /\ Ready(r)
    BY <2>1 DEF Look, Looked, objects, Ready
  <2>3. found[t] => found'[t]
    BY <1>1, <2>1 DEF Look, Looked, polling, TypeOK
  <2>4. CASE r \in LookedAt(t)
    <3>1. found[t] \/ \E u \in Thread : Toward(u, t, r.obj)
      BY <1>1, <1>3, <2>2, <2>4 DEF CoveredInv, Covered
    <3>2. ~WillSignal(t, t)
      BY <2>1 DEF WillSignal
    <3>3. QED
      BY <1>2, <1>3, <2>2, <2>3, <3>1, <3>2 DEF Covered, Toward
  <2>5. CASE r \notin LookedAt(t)
    <3>1. Look(t, r)
      BY <1>3, <2>1, <2>5
    <3>2. found'[t]
      BY <1>1, <2>2, <3>1 DEF Look, TypeOK
    <3>3. QED
      BY <1>3, <3>2 DEF Covered
  <2>6. QED
    BY <2>4, <2>5
<1>4. CASE x # t
  <2>1. r \in LookedAt(x) /\ found'[x] = found[x]
    BY <1>4, OthersProgress
  <2>2. CASE Ready(r) /\ r.obj \notin early
    <3>1. found[x] \/ \E u \in Thread : Toward(u, x, r.obj)
      BY <1>1, <2>1, <2>2 DEF CoveredInv, Covered
    <3>2. Toward(t, x, r.obj) => Toward(t, x, r.obj)'
      BY <1>4, <1>o, OwnKept
    <3>3. QED
      BY <1>2, <1>4, <2>1, <3>1, <3>2 DEF Covered
  <2>3. CASE ~Ready(r) \/ r.obj \in early
    <3>1. r \in Registered(x)
      BY <2>1 DEF LookedAt, Registered
    <3>2. HasParent(r.obj, x)
      BY <1>1, <3>1 DEF RegisteredInv
    <3>3. QED
      BY <1>o, <2>3, <3>2, ChangeSignals DEF Covered
  <2>4. QED
    BY <2>2, <2>3
<1>5. QED
  BY <1>3, <1>4

(* poll registers "before we check the data so that we don't miss one": no *)
(* poller sleeps over a ready object unless someone is on the way to wake  *)
(* it, if the object is a socket, or one that no other thread ever polls,  *)
(* and the call that changed it last looked for parents after the change.  *)
THEOREM NothingMissedCorrect == Spec => []NothingMissed
<1>1. Init => MissInv
  <2> SUFFICES ASSUME Init PROVE MissInv
    OBVIOUS
  <2>1. PolledInv /\ HoldsInv
    BY DEF Init, PolledInv, Polling, HoldsInv, Holding
  <2>2. AskedInv
    BY DEF Init, AskedInv
  <2>3. RegisteredInv /\ CoveredInv
    BY DEF Init, RegisteredInv, Registered, CoveredInv, LookedAt
  <2>4. QED
    BY <2>1, <2>2, <2>3, InitType DEF MissInv, BaseInv
<1>2. MissInv /\ [Next]_vars => MissInv'
  <2> SUFFICES ASSUME MissInv, [Next]_vars PROVE MissInv'
    OBVIOUS
  <2>1. ASSUME TypeOK', PolledInv',
               UNCHANGED <<objects, parents, pollLock, pc, polled, todo, found, call, walk>>
        PROVE  MissInv'
    <3>1. BaseInv'
      BY <2>1 DEF MissInv, BaseInv, WalkInv, Fits, Walking, HoldsInv, Holding, Early,
                  AskedInv, Pollers, Asked
    <3>2. RegisteredInv'
      BY <2>1 DEF MissInv, RegisteredInv, Registered, HasParent, objects
    <3>3. CoveredInv'
      <4>1. ASSUME NEW u \in Thread, NEW t \in Thread, NEW o, Toward(u, t, o)
            PROVE  Toward(u, t, o)'
        BY <2>1, <4>1 DEF Toward, WillSignal, Walking, Walked, SignalsAll, HasParent
      <4>2. \A t \in Thread : LookedAt(t)' = LookedAt(t) /\ found'[t] = found[t]
        BY <2>1 DEF LookedAt
      <4>3. \A r : Ready(r)' = Ready(r)
        BY <2>1 DEF Ready, objects
      <4>4. QED
        BY <2>1, <4>1, <4>2, <4>3
           DEF MissInv, CoveredInv, Covered, Sole, Pollers, Asked, objects
    <3>4. QED
      BY <3>1, <3>2, <3>3 DEF MissInv
  <2>2. CASE Next
    <3>1. PICK t \in Thread : ThreadStep(t) \/ \E r \in now[t] : Renumber(t, r)
      BY <2>2 DEF Next, ThreadStep
    <3>2. CASE ThreadStep(t)
      BY <3>2, BaseStep, RegisteredStep, CoveredStep DEF MissInv
    <3>3. ASSUME NEW r \in now[t], Renumber(t, r) PROVE MissInv'
      BY <2>1, <3>3, RenumberKeeps DEF MissInv, BaseInv
    <3>4. QED
      BY <3>1, <3>2, <3>3
  <2>3. CASE UNCHANGED vars
    <3>1. TypeOK' /\ PolledInv'
      BY <2>3 DEF vars, MissInv, BaseInv, TypeOK, PolledInv, Polling, Asked
    <3>2. QED
      BY <2>1, <2>3, <3>1 DEF vars, objects
  <2>4. QED
    BY <2>2, <2>3
<1>3. MissInv => NothingMissed
  <2> SUFFICES ASSUME MissInv, NEW t \in Thread, pc[t] = "asleep",
                      NEW r \in polled[t], r.obj \notin dead, Ready(r),
                      Sole(r.obj, t), r.obj \notin early
               PROVE  \E u \in Thread : WillSignal(u, t)
    BY DEF NothingMissed, Sole
  <2>1. r \in LookedAt(t) /\ ~found[t]
    BY DEF LookedAt, MissInv, BaseInv, HoldsInv, Holding
  <2>2. QED
    BY <2>1 DEF MissInv, CoveredInv, Covered, Toward
<1>4. QED
  BY <1>1, <1>2, <1>3, PTL DEF Spec
=============================================================================
