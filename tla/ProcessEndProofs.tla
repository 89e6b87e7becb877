-------------------------- MODULE ProcessEndProofs --------------------------
(***************************************************************************)
(* Proofs about ProcessEnd.  Without clone (Started = Thread) exit_group   *)
(* is alone when it declares the process terminated; with it, it is not    *)
(* (see the README).                                                       *)
(***************************************************************************)
EXTENDS ProcessEnd, TLAPS

(* The initial state is typed. *)
LEMMA InitType == Init => TypeOK
<1> SUFFICES ASSUME Init PROVE TypeOK
  OBVIOUS
<1>1. pc \in [Actor -> PC]
  BY DEF Init, PC
<1>2. victim \in [Actor -> Thread \cup {NoThread}] /\ victims \in [Actor -> SUBSET Thread]
  BY DEF Init
<1>3. waiting \in [Waiter -> {"idle", "blocked", "notified", "reaped", "nochild"}]
  BY DEF Init
<1>4. QED
  BY <1>1, <1>2, <1>3, EndAssumption DEF Init, TypeOK

(* The steps of a thread inside exit and exit_group keep the types. *)
LEMMA ExitType ==
  ASSUME TypeOK, NEW t \in Thread,
         \/ \E c \in Code : Exit(t, c) \/ ExitGroup(t, c)
         \/ Ending(t)
  PROVE  TypeOK'
<1> USE EndAssumption DEF Actor, Goto, Mark, Snapshot, chase, table, TypeOK, PC,
                          Chasing
<1>1. CASE \E c \in Code : Exit(t, c)
  BY <1>1 DEF Exit
<1>2. CASE \E c \in Code : ExitGroup(t, c)
  BY <1>2 DEF ExitGroup
<1>3. CASE SetTerminated(t)
  BY <1>3 DEF SetTerminated
<1>4. CASE ClearThreads(t)
  BY <1>4 DEF ClearThreads
<1>5. CASE SetExitCode(t)
  <2>1. code[t] \in Code \cup {NoCode}
    OBVIOUS
  <2>2. QED
    BY <1>5, <2>1 DEF SetExitCode
<1>6. CASE WakeParent(t)
  BY <1>6 DEF WakeParent, Woken
<1>7. QED
  BY <1>1, <1>2, <1>3, <1>4, <1>5, <1>6 DEF Ending

(* So do execve, SIGKILL, clone, and the unwinding of the host thread. *)
LEMMA ThreadType ==
  ASSUME TypeOK, NEW t \in Thread,
         \/ Exec(t) \/ Execed(t) \/ SelfKill(t) \/ SelfKilled(t)
         \/ \E u \in Thread : Clone(t, u)
         \/ Unwind(t) \/ Unwinding(t)
  PROVE  TypeOK'
<1> USE EndAssumption DEF Actor, Goto, Mark, Snapshot, chase, table, TypeOK, PC,
                          Chasing
<1>1. CASE Exec(t)
  BY <1>1 DEF Exec
<1>2. CASE Execed(t)
  BY <1>2 DEF Execed
<1>3. CASE SelfKill(t)
  BY <1>3 DEF SelfKill
<1>4. CASE SelfKilled(t)
  BY <1>4 DEF SelfKilled
<1>5. CASE \E u \in Thread : Clone(t, u)
  BY <1>5 DEF Clone
<1>6. CASE Leave(t)
  BY <1>6 DEF Leave
<1>7. CASE Unwind(t)
  BY <1>7 DEF Unwind
<1>8. CASE Cleanup(t)
  BY <1>8 DEF Cleanup
<1>9. CASE DeleteThread(t)
  BY <1>9 DEF DeleteThread
<1>10. CASE FreeMemory(t)
  BY <1>10 DEF FreeMemory
<1>11. CASE EraseOrphan(t)
  BY <1>11 DEF EraseOrphan
<1>12. QED
  BY <1>1, <1>2, <1>3, <1>4, <1>5, <1>6, <1>7, <1>8, <1>9, <1>10, <1>11
     DEF Unwinding

(* And killAllThreads, the killer and the waiters. *)
LEMMA OthersType ==
  ASSUME TypeOK,
         \/ \E a \in Actor : ChaseNext(a)
         \/ Kill \/ KillDone
         \/ \E w \in Waiter : WaiterNext(w)
  PROVE  TypeOK'
<1> USE EndAssumption DEF Goto, Mark, Snapshot, chase, table, TypeOK, PC, Chasing
<1>1. ASSUME NEW a \in Actor, NEW v \in Thread, Pursue(a, v) PROVE TypeOK'
  BY <1>1 DEF Pursue
<1>2. ASSUME NEW a \in Actor, Caught(a) PROVE TypeOK'
  BY <1>2 DEF Caught
<1>3. CASE Kill
  BY <1>3 DEF Kill, Actor
<1>4. CASE KillDone
  BY <1>4 DEF KillDone, Actor
<1>5. ASSUME NEW w \in Waiter, Reap(w) PROVE TypeOK'
  BY <1>5 DEF Reap
<1>6. ASSUME NEW w \in Waiter, NoChild(w) \/ Block(w) \/ Interrupt(w) PROVE TypeOK'
  BY <1>6 DEF NoChild, Block, Interrupt
<1>7. QED
  BY <1>1, <1>2, <1>3, <1>4, <1>5, <1>6 DEF ChaseNext, WaiterNext

(* Every step keeps the types. *)
LEMMA TypeStep == TypeOK /\ [Next]_vars => TypeOK'
<1> SUFFICES ASSUME TypeOK, [Next]_vars PROVE TypeOK'
  OBVIOUS
<1>1. CASE UNCHANGED vars
  BY <1>1 DEF vars, chase, table, TypeOK
<1>2. CASE Next
  BY <1>2, ExitType, ThreadType, OthersType DEF Next, ThreadNext
<1>3. QED
  BY <1>1, <1>2

(* Every reachable state is typed. *)
THEOREM TypeCorrect == Spec => []TypeOK
<1>1. Init => TypeOK
  BY InitType
<1>2. TypeOK /\ [Next]_vars => TypeOK'
  BY TypeStep
<1>3. QED
  BY <1>1, <1>2, PTL DEF Spec

-----------------------------------------------------------------------------
(* One reaper *)

(* A process that was reaped is out of the table. *)
ReapedInv ==
  /\ \A w \in Waiter : waiting[w] = "reaped" => erased
  /\ ReapedOnce

(* Every step keeps the invariant that a process is reaped once. *)
LEMMA ReapedStep ==
  TypeOK /\ ReapedInv /\ [Next]_vars => ReapedInv'
<1> SUFFICES ASSUME TypeOK, ReapedInv, [Next]_vars PROVE ReapedInv'
  OBVIOUS
<1>1. ASSUME UNCHANGED waiting, erased => erased' PROVE ReapedInv'
  BY <1>1 DEF ReapedInv, ReapedOnce
<1>2. ASSUME NEW t \in Thread, WakeParent(t) PROVE ReapedInv'
  <2>1. \A w \in Waiter : waiting'[w] = "reaped" <=> waiting[w] = "reaped"
    BY <1>2 DEF WakeParent, Woken, TypeOK
  <2>2. erased => erased'
    BY <1>2 DEF WakeParent
  <2>3. QED
    BY <2>1, <2>2 DEF ReapedInv, ReapedOnce
<1>3. ASSUME NEW w \in Waiter, Reap(w) PROVE ReapedInv'
  <2>1. \A v \in Waiter : waiting[v] # "reaped"
    BY <1>3 DEF Reap, ReapedInv
  <2>2. \A v \in Waiter : waiting'[v] = "reaped" => v = w
    BY <1>3, <2>1 DEF Reap, TypeOK
  <2>3. QED
    BY <1>3, <2>2 DEF Reap, ReapedInv, ReapedOnce
<1>4. ASSUME NEW w \in Waiter, NoChild(w) \/ Block(w) \/ Interrupt(w)
      PROVE  ReapedInv'
  <2>1. \A v \in Waiter : waiting'[v] = "reaped" => waiting[v] = "reaped"
    BY <1>4 DEF NoChild, Block, Interrupt, TypeOK
  <2>2. UNCHANGED erased
    BY <1>4 DEF NoChild, Block, Interrupt
  <2>3. QED
    BY <2>1, <2>2 DEF ReapedInv, ReapedOnce
<1>5. ASSUME NEW t \in Thread, ThreadNext(t), ~WakeParent(t) PROVE ReapedInv'
  <2>1. UNCHANGED waiting /\ (erased => erased')
    BY <1>5 DEF ThreadNext, Ending, Unwinding, Exit, ExitGroup, Exec, Execed,
                SelfKill, SelfKilled, Clone, SetTerminated, ClearThreads,
                SetExitCode, Leave, Unwind, Cleanup, DeleteThread, FreeMemory,
                EraseOrphan, table
  <2>2. QED
    BY <2>1, <1>1
<1>6. CASE \/ \E a \in Actor : ChaseNext(a)
           \/ Kill \/ KillDone \/ UNCHANGED vars
  BY <1>6, <1>1 DEF ChaseNext, Pursue, Caught, Kill, KillDone, table, vars
<1>7. QED
  BY <1>2, <1>3, <1>4, <1>5, <1>6 DEF Next, WaiterNext

(* A process is reaped by one waitpid only.                                *)
THEOREM ReapedOnceCorrect == Spec => []ReapedOnce
<1>1. Init => TypeOK /\ ReapedInv
  BY InitType DEF Init, ReapedInv, ReapedOnce
<1>2. TypeOK /\ ReapedInv /\ [Next]_vars => (TypeOK /\ ReapedInv)'
  BY TypeStep, ReapedStep
<1>3. ReapedInv => ReapedOnce
  BY DEF ReapedInv
<1>4. QED
  BY <1>1, <1>2, <1>3, PTL DEF Spec

-----------------------------------------------------------------------------
(* Alone at the end *)

(* A thread in guest code, or busy terminating others, is in the table; a  *)
(* thread that terminates others has on its list, or is waiting for, every *)
(* other one of the table: without clone the table only shrinks.           *)
Listed == \A t \in Thread : pc[t] \in {"run"} \cup Chasing => t \in threads

Covered == \A t \in Thread :
  pc[t] \in Chasing => threads \ {t} \subseteq victims[t] \cup {victim[t]}

Final == \A t \in Thread :
  /\ pc[t] = "ending" => terminated /\ threads \subseteq {t}
  /\ terminated => pc[t] \notin {"run"} \cup Chasing

AloneInv ==
  /\ \A t \in Thread : pc[t] # "absent"
  /\ Listed
  /\ Covered
  /\ Final

(* A step that removes no listed thread, starts none, and forgets no       *)
(* victim of a thread that goes on keeps the invariant.                    *)
LEMMA QuietStep ==
  ASSUME TypeOK, AloneInv,
         threads' \subseteq threads,
         UNCHANGED terminated,
         NEW t \in Thread,
         pc' = [pc EXCEPT ![t] = pc'[t]],
         pc'[t] \notin Chasing \cup {"absent", "run", "ending"},
         threads \ {t} \subseteq threads' \/ threads' = {},
         threads' = {} => \A u \in Thread \ {t} : pc[u] \notin {"run"} \cup Chasing,
         UNCHANGED victims, UNCHANGED victim
  PROVE  AloneInv'
<1>1. \A u \in Thread : u # t => pc'[u] = pc[u]
  BY DEF TypeOK, Actor
<1>2. (\A u \in Thread : pc[u] # "absent")'
  BY <1>1 DEF AloneInv
<1>3. Listed'
  BY <1>1 DEF AloneInv, Listed
<1>4. Covered'
  BY <1>1 DEF AloneInv, Covered
<1>5. Final'
  BY <1>1 DEF AloneInv, Final
<1>6. QED
  BY <1>2, <1>3, <1>4, <1>5 DEF AloneInv

(* exit and exit_group. *)
LEMMA ExitAlone ==
  ASSUME TypeOK, AloneInv, NEW t \in Thread,
         \/ \E c \in Code : Exit(t, c) \/ ExitGroup(t, c)
         \/ Ending(t)
  PROVE  AloneInv'
<1>1. \A u \in Thread : u # t => pc[u] \in PC /\ u \in Actor
  BY DEF TypeOK, Actor
<1>2. ASSUME Snapshot(t), Goto(t, "group"), pc[t] = "run",
             UNCHANGED <<threads, terminated, victim>>
      PROVE  AloneInv'
  <2>1. /\ \A u \in Thread : u # t => pc'[u] = pc[u] /\ victims'[u] = victims[u]
        /\ pc'[t] = "group"
        /\ victims'[t] = threads \ {t}
    BY <1>2 DEF TypeOK, Actor, Goto, Snapshot
  <2>2. t \in threads /\ ~terminated
    BY <1>2 DEF AloneInv, Listed, Final
  <2>3. QED
    BY <1>2, <2>1, <2>2 DEF AloneInv, Listed, Covered, Final
<1>3. ASSUME NEW c \in Code, Exit(t, c) PROVE AloneInv'
  <2>1. CASE Cardinality(threads) = 1
    BY <1>2, <1>3, <2>1 DEF Exit
  <2>2. CASE Cardinality(threads) # 1
    <3>1. /\ pc' = [pc EXCEPT ![t] = "leaving"]
          /\ pc'[t] = "leaving"
          /\ UNCHANGED <<threads, terminated, victims, victim>>
          /\ t \in threads
      BY <1>3, <2>2 DEF Exit, Goto, TypeOK, Actor, AloneInv, Listed
    <3>2. QED
      BY <3>1, QuietStep DEF Chasing
  <2>3. QED
    BY <2>1, <2>2
<1>4. ASSUME NEW c \in Code, ExitGroup(t, c) PROVE AloneInv'
  BY <1>2, <1>4 DEF ExitGroup
<1>5. CASE SetTerminated(t)
  <2>1. threads \ {t} \subseteq {}
    BY <1>5, EndAssumption
       DEF SetTerminated, Done, AloneInv, Covered, Chasing, TypeOK
  <2>2. \A u \in Thread : u # t => pc'[u] = pc[u] /\ pc[u] \notin {"run"} \cup Chasing
    BY <1>5, <2>1 DEF SetTerminated, Goto, AloneInv, Listed, TypeOK, Actor
  <2>3. pc'[t] = "ending" /\ terminated'
    BY <1>5 DEF SetTerminated, Goto, TypeOK, Actor
  <2>4. UNCHANGED threads
    BY <1>5 DEF SetTerminated
  <2>5. QED
    BY <2>1, <2>2, <2>3, <2>4 DEF AloneInv, Listed, Covered, Final, Chasing
<1>6. CASE ClearThreads(t)
  <2>1. \A u \in Thread : pc[u] \notin {"run"} \cup Chasing
    BY <1>6 DEF ClearThreads, AloneInv, Final
  <2>2. /\ pc' = [pc EXCEPT ![t] = "closing"]
        /\ pc'[t] = "closing"
        /\ threads' = {}
        /\ UNCHANGED <<terminated, victims, victim>>
    BY <1>6 DEF ClearThreads, Goto, TypeOK, Actor, chase
  <2>3. QED
    BY <2>1, <2>2, QuietStep DEF Chasing
<1>7. CASE SetExitCode(t) \/ WakeParent(t)
  <2>1. /\ pc' = [pc EXCEPT ![t] = pc'[t]]
        /\ pc'[t] \in {"waking", "cleanup"}
        /\ UNCHANGED <<threads, terminated, victims, victim>>
    BY <1>7 DEF SetExitCode, WakeParent, Goto, TypeOK, Actor, chase
  <2>2. pc[t] \in {"closing", "waking"}
    BY <1>7 DEF SetExitCode, WakeParent
  <2>3. threads' = {} => \A u \in Thread \ {t} : pc[u] \notin {"run"} \cup Chasing
    BY <2>1 DEF AloneInv, Listed
  <2>4. QED
    BY <2>1, <2>3, QuietStep DEF Chasing
<1>8. QED
  BY <1>3, <1>4, <1>5, <1>6, <1>7 DEF Ending

(* execve and SIGKILL of the process to itself. *)
LEMMA ExecAlone ==
  ASSUME TypeOK, AloneInv, NEW t \in Thread,
         Exec(t) \/ Execed(t) \/ SelfKill(t) \/ SelfKilled(t)
  PROVE  AloneInv'
<1>1. CASE Exec(t) \/ SelfKill(t)
  <2>1. /\ \A u \in Thread : u # t => pc'[u] = pc[u] /\ victims'[u] = victims[u]
        /\ pc'[t] \in {"exec", "selfkill"}
        /\ victims'[t] = threads \ {t}
        /\ UNCHANGED <<threads, terminated, victim>>
    BY <1>1 DEF Exec, SelfKill, TypeOK, Actor, Goto, Snapshot
  <2>2. t \in threads /\ ~terminated
    BY <1>1 DEF Exec, SelfKill, AloneInv, Listed, Final
  <2>3. QED
    BY <2>1, <2>2 DEF AloneInv, Listed, Covered, Final
<1>2. CASE Execed(t) \/ SelfKilled(t)
  <2>1. pc[t] \in Chasing /\ Done(t)
    BY <1>2 DEF Execed, SelfKilled, Chasing
  <2>2. threads = {t} /\ ~terminated
    BY <2>1, EndAssumption DEF Done, AloneInv, Covered, Listed, Final, TypeOK
  <2>3. /\ \A u \in Thread : u # t => pc'[u] = pc[u]
        /\ pc'[t] = "run"
        /\ threads' = {t}
        /\ UNCHANGED <<terminated, victims, victim>>
    BY <1>2, <2>2 DEF Execed, SelfKilled, Goto, TypeOK, Actor, chase
  <2>4. QED
    BY <2>2, <2>3 DEF AloneInv, Listed, Covered, Final, Chasing
<1>3. QED
  BY <1>1, <1>2

(* The host threads. *)
LEMMA UnwindAlone ==
  ASSUME TypeOK, AloneInv, NEW t \in Thread, Unwind(t) \/ Unwinding(t)
  PROVE  AloneInv'
<1>1. /\ pc' = [pc EXCEPT ![t] = pc'[t]]
      /\ pc'[t] \in {"cleanup", "deleting", "freeing", "erasing", "gone"}
      /\ threads' = threads \/ threads' = threads \ {t}
      /\ UNCHANGED <<terminated, victims, victim>>
  BY DEF Unwinding, Leave, Unwind, Cleanup, DeleteThread, FreeMemory,
         EraseOrphan, Goto, TypeOK, Actor, chase
<1>2. threads' = {} => \A u \in Thread \ {t} : pc[u] \notin {"run"} \cup Chasing
  BY <1>1 DEF AloneInv, Listed
<1>3. QED
  BY <1>1, <1>2, QuietStep DEF Chasing

(* killAllThreads: the visited id moves from the list to the wait. *)
LEMMA ChaseAlone ==
  ASSUME TypeOK, AloneInv, NEW a \in Actor, ChaseNext(a)
  PROVE  AloneInv'
<1>1. ASSUME NEW v \in Thread, Pursue(a, v) PROVE AloneInv'
  <2>1. \A u \in Thread :
          victims[u] \cup {victim[u]} \subseteq
            victims'[u] \cup {victim'[u]} \cup {NoThread}
    BY <1>1 DEF Pursue, TypeOK, Actor
  <2>2. UNCHANGED <<threads, pc, terminated>>
    BY <1>1 DEF Pursue
  <2>3. QED
    BY <2>1, <2>2, EndAssumption DEF AloneInv, Listed, Covered, Final, TypeOK
<1>2. CASE Caught(a)
  <2>1. \A u \in Thread : victims'[u] = victims[u]
        /\ (victim'[u] = victim[u] \/ victim[u] \notin threads)
    BY <1>2 DEF Caught, TypeOK, Actor
  <2>2. UNCHANGED <<threads, pc, terminated>>
    BY <1>2 DEF Caught
  <2>3. QED
    BY <2>1, <2>2 DEF AloneInv, Listed, Covered, Final
<1>3. QED
  BY <1>1, <1>2 DEF ChaseNext

(* The killer and the waiters touch none of it. *)
LEMMA OthersAlone ==
  ASSUME TypeOK, AloneInv,
         \/ Kill \/ KillDone
         \/ \E w \in Waiter : WaiterNext(w)
         \/ UNCHANGED vars
  PROVE  AloneInv'
<1>1. /\ \A u \in Thread : pc'[u] = pc[u] /\ victims'[u] = victims[u]
      /\ UNCHANGED <<threads, terminated, victim>>
  <2>1. CASE Kill \/ KillDone
    BY <2>1, EndAssumption
       DEF Kill, KillDone, Goto, Snapshot, TypeOK, Actor, chase
  <2>2. CASE (\E w \in Waiter : WaiterNext(w)) \/ UNCHANGED vars
    BY <2>2 DEF WaiterNext, Reap, NoChild, Block, Interrupt, vars, chase
  <2>3. QED
    BY <2>1, <2>2
<1>2. QED
  BY <1>1 DEF AloneInv, Listed, Covered, Final

(* Every step keeps the invariant that whoever empties memory is alone. *)
LEMMA AloneStep == TypeOK /\ AloneInv /\ [Next]_vars => AloneInv'
<1> SUFFICES ASSUME TypeOK, AloneInv, [Next]_vars PROVE AloneInv'
  OBVIOUS
<1>1. ASSUME NEW t \in Thread, ThreadNext(t) PROVE AloneInv'
  <2>1. ~ \E u \in Thread : Clone(t, u)
    BY DEF Clone, AloneInv
  <2>2. QED
    BY <1>1, <2>1, ExitAlone, ExecAlone, UnwindAlone DEF ThreadNext
<1>2. QED
  BY <1>1, ChaseAlone, OthersAlone DEF Next

(* In a process that starts all its threads before the first of them ends  *)
(* it, exit_group is alone when it declares the process terminated, and    *)
(* nothing runs guest code afterwards, whatever siblings exit, call        *)
(* execve, are killed or terminate each other meanwhile.                   *)
THEOREM AloneCorrect ==
  ASSUME Started = Thread
  PROVE  Spec => []AloneWhenTerminated
<1>1. Init => TypeOK /\ AloneInv
  BY InitType, EndAssumption
     DEF Init, AloneInv, Listed, Covered, Final, Actor, Chasing
<1>2. TypeOK /\ AloneInv /\ [Next]_vars => (TypeOK /\ AloneInv)'
  BY TypeStep, AloneStep
<1>3. AloneInv => AloneWhenTerminated
  BY DEF AloneInv, Final, AloneWhenTerminated
<1>4. QED
  BY <1>1, <1>2, <1>3, PTL DEF Spec

-----------------------------------------------------------------------------
(* Threads out of the table *)

(* What exit_group does past the declaration, it does after it; without    *)
(* execve nothing else empties the table.                                  *)
RemovedInv ==
  /\ \A t \in Thread : pc[t] # "exec" /\ (pc[t] = "ending" => terminated)
  /\ RemovedNotRunning

(* Every step keeps it: a thread is taken out of the table by itself, past *)
(* guest code, or when the process is terminated.                          *)
LEMMA RemovedStep ==
  ASSUME Execers = {}, TypeOK, RemovedInv, [Next]_vars
  PROVE  RemovedInv'
<1> USE DEF RemovedInv, RemovedNotRunning
<1>1. ASSUME NEW t \in Thread,
             \A u \in Thread : u # t => pc'[u] = pc[u],
             threads \ {t} \subseteq threads', terminated => terminated',
             pc'[t] # "exec", pc'[t] = "ending" => terminated',
             pc'[t] \in {"run"} \cup Chasing => t \in threads' \/ terminated'
      PROVE  RemovedInv'
  BY <1>1
<1>2. ASSUME NEW t \in Thread, NEW c \in Code, Exit(t, c) \/ ExitGroup(t, c)
      PROVE  RemovedInv'
  <2>1. /\ pc[t] = "run" /\ pc'[t] \in {"group", "leaving"}
        /\ \A u \in Thread : u # t => pc'[u] = pc[u]
        /\ UNCHANGED <<threads, terminated>>
    BY <1>2 DEF Exit, ExitGroup, Goto, TypeOK, Actor
  <2> QED
    BY <1>1, <2>1
<1>3. ASSUME NEW t \in Thread, SelfKill(t) \/ SelfKilled(t) PROVE RemovedInv'
  <2>1. /\ pc[t] \in {"run", "selfkill"} /\ pc'[t] \in {"run", "selfkill"}
        /\ \A u \in Thread : u # t => pc'[u] = pc[u]
        /\ UNCHANGED <<threads, terminated>>
    BY <1>3 DEF SelfKill, SelfKilled, Goto, TypeOK, Actor, chase
  <2> QED
    BY <1>1, <2>1 DEF Chasing
<1>4. ASSUME NEW t \in Thread, Exec(t) \/ Execed(t) PROVE RemovedInv'
  BY <1>4 DEF Exec, Execed
<1>5. ASSUME NEW t \in Thread, NEW u \in Thread, Clone(t, u) PROVE RemovedInv'
  <2>1. /\ pc'[u] = "run" /\ threads' = threads \cup {u}
        /\ \A v \in Thread : v # u => pc'[v] = pc[v]
        /\ UNCHANGED terminated
    BY <1>5 DEF Clone, Goto, TypeOK, Actor
  <2> QED
    BY <1>1, <2>1
<1>6. ASSUME NEW t \in Thread, SetTerminated(t) \/ ClearThreads(t)
      PROVE  RemovedInv'
  <2>1. /\ terminated' /\ pc'[t] \in {"ending", "closing"}
        /\ \A u \in Thread : u # t => pc'[u] = pc[u]
    BY <1>6 DEF SetTerminated, ClearThreads, Goto, TypeOK, Actor
  <2> QED
    BY <2>1
<1>7. ASSUME NEW t \in Thread,
             SetExitCode(t) \/ WakeParent(t) \/ Unwind(t) \/ Unwinding(t)
      PROVE  RemovedInv'
  <2>1. /\ pc'[t] \in {"waking", "cleanup", "deleting", "freeing", "erasing", "gone"}
        /\ \A u \in Thread : u # t => pc'[u] = pc[u]
        /\ threads \ {t} \subseteq threads' /\ UNCHANGED terminated
    BY <1>7 DEF SetExitCode, WakeParent, Unwinding, Leave, Unwind, Cleanup,
       DeleteThread, FreeMemory, EraseOrphan, Goto, TypeOK, Actor
  <2> QED
    BY <1>1, <2>1 DEF Chasing
<1>8. ASSUME \A u \in Thread : pc'[u] = pc[u], UNCHANGED <<threads, terminated>>
      PROVE  RemovedInv'
  BY <1>8
<1>9. CASE Kill \/ KillDone
  BY <1>8, <1>9, EndAssumption DEF Kill, KillDone, Goto, TypeOK, Actor
<1>10. CASE \/ \E a \in Actor : ChaseNext(a)
            \/ \E w \in Waiter : WaiterNext(w)
            \/ UNCHANGED vars
  BY <1>8, <1>10 DEF ChaseNext, Pursue, Caught, WaiterNext, Reap, NoChild, Block,
     Interrupt, vars
<1> QED
  BY <1>2, <1>3, <1>4, <1>5, <1>6, <1>7, <1>9, <1>10
  DEF Next, ThreadNext, Ending

(* With clone, exit, exit_group and SIGKILL in any number, until the       *)
(* process is declared terminated a thread in guest code is in the table,  *)
(* where exit_group and kill find it.  (execve resets the table, and loses *)
(* a thread that was cloned while it waited for the others.)               *)
THEOREM RemovedNotRunningCorrect ==
  ASSUME Execers = {}
  PROVE  Spec => []RemovedNotRunning
<1>1. Init => RemovedInv
  BY EndAssumption
  DEF Init, RemovedInv, RemovedNotRunning, Actor, Chasing
<1>2. TypeOK /\ RemovedInv /\ [Next]_vars => RemovedInv'
  BY RemovedStep
<1>3. RemovedInv => RemovedNotRunning
  BY DEF RemovedInv
<1> QED
  BY <1>1, <1>2, <1>3, TypeCorrect, PTL DEF Spec
=============================================================================
