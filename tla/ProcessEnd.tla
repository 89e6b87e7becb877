----------------------------- MODULE ProcessEnd ------------------------------
(***************************************************************************)
(* The end of a guest process in the multi-threaded build: exit,           *)
(* exit_group, execve and SIGKILL (source/kernel/kprocess.cpp), the host   *)
(* threads that unwind (normalPlatformMultiThreaded.cpp), and the parent's *)
(* waitpid (source/kernel/ksystem.cpp).                                    *)
(*                                                                         *)
(* Threads that are to end are marked (KThread::terminating) and leave     *)
(* guest code on their own; whoever marked one waits until it is out of    *)
(* KProcess::threads, and only then goes on to the next.  The module       *)
(* follows one process, with any number of threads, and the threads of     *)
(* its parent that wait for it.                                            *)
(***************************************************************************)
EXTENDS Integers, FiniteSets

CONSTANTS
  Thread,        \* threads of the process
  Started,       \* those that run at the start
  Waiter,        \* threads of the parent
  Code,          \* exit codes
  Exiters,       \* threads that may call exit
  GroupExiters,  \* threads that may call exit_group
  Execers,       \* threads that may call execve
  SelfKillers,   \* threads that may send SIGKILL to their process
  Killed,        \* whether another process sends SIGKILL
  Killer,        \* the thread that does
  ParentLives,   \* whether the parent process is in the process table
  OnlyProcess,   \* whether no other process is
  NoThread, NoCode

ASSUME EndAssumption ==
  /\ Started \subseteq Thread
  /\ Exiters \subseteq Thread
  /\ GroupExiters \subseteq Thread
  /\ Execers \subseteq Thread
  /\ SelfKillers \subseteq Thread
  /\ Killed \in BOOLEAN
  /\ ParentLives \in BOOLEAN
  /\ OnlyProcess \in BOOLEAN
  /\ ~ParentLives => Waiter = {}
  /\ OnlyProcess => ~ParentLives /\ ~Killed
  /\ Killer \notin Thread
  /\ NoThread \notin Thread
  /\ NoCode \notin Code

VARIABLES
  threads,      \* KProcess::threads, by id
  pc,           \* where each thread (and the killer) is
  terminating,  \* KThread::terminating
  victims,      \* threads an iteration of killAllThreads has still to visit
  victim,       \* the one it waits for, or NoThread
  code,         \* argument of the exit_group a thread is in
  exitCode,     \* KProcess::exitCode
  terminated,   \* KProcess::terminated
  erased,       \* the process is out of KSystem::processes
  memory,       \* KProcess::memory has not been deleted
  waiting,      \* where each waiter is in waitpid
  status        \* what its waitpid reported

vars == <<threads, pc, terminating, victims, victim, code, exitCode,
          terminated, erased, memory, waiting, status>>
table == <<erased, waiting, status>>
chase == <<victims, victim>>

Actor == Thread \cup {Killer}

\* pc of a thread that terminates others: in exit_group, execve, kill
Chasing == {"group", "exec", "selfkill", "kill"}
PC == Chasing \cup {"absent", "run", "leaving", "ending", "closing", "waking",
                    "cleanup", "deleting", "freeing", "erasing", "gone"}

Init ==
  /\ threads = Started
  /\ pc = [a \in Actor |-> IF a \in Started THEN "run" ELSE "absent"]
  /\ terminating = [t \in Thread |-> FALSE]
  /\ victims = [a \in Actor |-> {}]
  /\ victim = [a \in Actor |-> NoThread]
  /\ code = [t \in Thread |-> NoCode]
  /\ exitCode = NoCode
  /\ terminated = FALSE
  /\ erased = FALSE
  /\ memory = TRUE
  /\ waiting = [w \in Waiter |-> "idle"]
  /\ status = [w \in Waiter |-> NoCode]

Goto(a, l) == pc' = [pc EXCEPT ![a] = l]
Mark(t) == terminating' = [terminating EXCEPT ![t] = TRUE]

-----------------------------------------------------------------------------
(* killAllThreads and terminateOtherThread *)

(* iterateThreadIds copies the ids; the threads that come later are not    *)
(* among them.                                                             *)
Snapshot(a) == victims' = [victims EXCEPT ![a] = threads \ {a}]

\* mutant of Pursue: the thread is waited for and not marked
PursueUnmarked(a, v) ==
  /\ pc[a] \in Chasing
  /\ victim[a] = NoThread
  /\ v \in victims[a]
  /\ victims' = [victims EXCEPT ![a] = @ \ {v}]
  /\ victim' = [victim EXCEPT ![a] = v]
  /\ UNCHANGED <<threads, pc, terminating, code, exitCode, terminated, memory,
                 table>>

(* One id: the thread is marked if it is still in the table.               *)
Pursue(a, v) ==
  /\ pc[a] \in Chasing
  /\ victim[a] = NoThread
  /\ v \in victims[a]
  /\ victims' = [victims EXCEPT ![a] = @ \ {v}]
  /\ victim' = [victim EXCEPT ![a] = v]
  /\ IF v \in threads THEN Mark(v) ELSE UNCHANGED terminating
  /\ UNCHANGED <<threads, pc, code, exitCode, terminated, memory, table>>

\* mutant of Caught: terminateOtherThread does not wait
CaughtAtOnce(a) ==
  /\ victim[a] # NoThread
  /\ victim' = [victim EXCEPT ![a] = NoThread]
  /\ UNCHANGED <<threads, pc, terminating, victims, code, exitCode,
                 terminated, memory, table>>

(* The wait on threadRemovedCondition, which has a timeout: the table is   *)
(* looked at again and again.                                              *)
Caught(a) ==
  /\ victim[a] # NoThread
  /\ victim[a] \notin threads
  /\ victim' = [victim EXCEPT ![a] = NoThread]
  /\ UNCHANGED <<threads, pc, terminating, victims, code, exitCode,
                 terminated, memory, table>>

Done(a) == victims[a] = {} /\ victim[a] = NoThread

-----------------------------------------------------------------------------
(* exit and exit_group *)

(* The exit code is stored and the threads are counted; the last thread    *)
(* goes on as exit_group (with nobody to terminate).                       *)
Exit(t, c) ==
  /\ t \in Exiters
  /\ pc[t] = "run"
  /\ exitCode' = c
  /\ IF Cardinality(threads) = 1
       THEN Goto(t, "group") /\ code' = [code EXCEPT ![t] = c] /\ Snapshot(t)
       ELSE Goto(t, "leaving") /\ UNCHANGED <<code, victims>>
  /\ UNCHANGED <<threads, terminating, victim, terminated, memory, table>>

\* thread->cleanup takes the thread out of the table
Leave(t) ==
  /\ pc[t] = "leaving"
  /\ threads' = threads \ {t}
  /\ Mark(t)
  /\ Goto(t, "cleanup")
  /\ UNCHANGED <<chase, code, exitCode, terminated, memory, table>>

\* SIGCHLD is sent first, before the process can be reaped
ExitGroup(t, c) ==
  /\ t \in GroupExiters
  /\ pc[t] = "run"
  /\ code' = [code EXCEPT ![t] = c]
  /\ Snapshot(t)
  /\ Goto(t, "group")
  /\ UNCHANGED <<threads, terminating, victim, exitCode, terminated, memory,
                 table>>

SetTerminated(t) ==
  /\ pc[t] = "group"
  /\ Done(t)
  /\ terminated' = TRUE
  /\ Goto(t, "ending")
  /\ UNCHANGED <<threads, terminating, chase, code, exitCode, memory, table>>

\* thread->cleanup and threads.clear
ClearThreads(t) ==
  /\ pc[t] = "ending"
  /\ threads' = {}
  /\ Goto(t, "closing")
  /\ UNCHANGED <<terminating, chase, code, exitCode, terminated, memory, table>>

\* mutant of SetExitCode: the encoded wait status takes the place of the code
SetWaitStatus(t) ==
  /\ pc[t] = "closing"
  /\ exitCode' = code[t] * 256
  /\ Goto(t, "waking")
  /\ UNCHANGED <<threads, terminating, chase, code, terminated, memory, table>>

\* cleanupProcess, then the exit code
SetExitCode(t) ==
  /\ pc[t] = "closing"
  /\ exitCode' = code[t]
  /\ Goto(t, "waking")
  /\ UNCHANGED <<threads, terminating, chase, code, terminated, memory, table>>

(* The last process of the system is erased here, any other one stays for  *)
(* its parent: wakeThreadsWaitingOnProcessStateChanged.                    *)
Woken == [w \in Waiter |-> IF waiting[w] = "blocked" THEN "notified" ELSE waiting[w]]

\* mutant of WakeParent: nobody is notified
WakeNobody(t) ==
  /\ pc[t] = "waking"
  /\ erased' = (erased \/ OnlyProcess)
  /\ Mark(t)
  /\ Goto(t, "cleanup")
  /\ UNCHANGED <<threads, chase, code, exitCode, terminated, memory, waiting,
                 status>>

WakeParent(t) ==
  /\ pc[t] = "waking"
  /\ erased' = (erased \/ OnlyProcess)
  /\ waiting' = Woken
  /\ Mark(t)
  /\ Goto(t, "cleanup")
  /\ UNCHANGED <<threads, chase, code, exitCode, terminated, memory, status>>

-----------------------------------------------------------------------------
(* execve, SIGKILL and clone *)

(* onExec terminates the other threads and keeps only the caller.          *)
Exec(t) ==
  /\ t \in Execers
  /\ pc[t] = "run"
  /\ Snapshot(t)
  /\ Goto(t, "exec")
  /\ UNCHANGED <<threads, terminating, victim, code, exitCode, terminated,
                 memory, table>>

Execed(t) ==
  /\ pc[t] = "exec"
  /\ Done(t)
  /\ threads' = {t}
  /\ Goto(t, "run")
  /\ UNCHANGED <<terminating, chase, code, exitCode, terminated, memory, table>>

(* SIGKILL by another process terminates every thread, by the process      *)
(* itself all but the sender, who is marked last.                          *)
Kill ==
  /\ Killed
  /\ pc[Killer] = "absent"
  /\ ~erased
  /\ Snapshot(Killer)
  /\ Goto(Killer, "kill")
  /\ UNCHANGED <<threads, terminating, victim, code, exitCode, terminated,
                 memory, table>>

KillDone ==
  /\ pc[Killer] = "kill"
  /\ Done(Killer)
  /\ Goto(Killer, "gone")
  /\ UNCHANGED <<threads, terminating, chase, code, exitCode, terminated,
                 memory, table>>

SelfKill(t) ==
  /\ t \in SelfKillers
  /\ pc[t] = "run"
  /\ Snapshot(t)
  /\ Goto(t, "selfkill")
  /\ UNCHANGED <<threads, terminating, victim, code, exitCode, terminated,
                 memory, table>>

SelfKilled(t) ==
  /\ pc[t] = "selfkill"
  /\ Done(t)
  /\ Mark(t)
  /\ Goto(t, "run")
  /\ UNCHANGED <<threads, chase, code, exitCode, terminated, memory, table>>

\* mutant of Clone: the thread starts before it is in the table
CloneUnlisted(parent, t) ==
  /\ pc[parent] = "run"
  /\ pc[t] = "absent"
  /\ Goto(t, "run")
  /\ UNCHANGED <<threads, terminating, chase, code, exitCode, terminated,
                 memory, table>>

Clone(parent, t) ==
  /\ pc[parent] = "run"
  /\ pc[t] = "absent"
  /\ threads' = threads \cup {t}
  /\ Goto(t, "run")
  /\ UNCHANGED <<terminating, chase, code, exitCode, terminated, memory, table>>

-----------------------------------------------------------------------------
(* The host thread, after its run loop *)

Unwind(t) ==
  /\ pc[t] = "run"
  /\ terminating[t]
  /\ Goto(t, "cleanup")
  /\ UNCHANGED <<threads, terminating, chase, code, exitCode, terminated,
                 memory, table>>

\* thread->cleanup, through the memory of the process
Cleanup(t) ==
  /\ pc[t] = "cleanup"
  /\ threads' = threads \ {t}
  /\ Goto(t, "deleting")
  /\ UNCHANGED <<terminating, chase, code, exitCode, terminated, memory, table>>

\* deleteThread: cleanup again, and the last one deletes the memory
DeleteThread(t) ==
  /\ pc[t] = "deleting"
  /\ Goto(t, IF threads \ {t} = {} THEN "freeing" ELSE "erasing")
  /\ threads' = threads \ {t}
  /\ UNCHANGED <<terminating, chase, code, exitCode, terminated, memory, table>>

FreeMemory(t) ==
  /\ pc[t] = "freeing"
  /\ memory' = FALSE
  /\ Goto(t, "erasing")
  /\ UNCHANGED <<threads, terminating, chase, code, exitCode, terminated, table>>

EraseOrphan(t) ==
  /\ pc[t] = "erasing"
  /\ Goto(t, "gone")
  /\ IF ~terminated /\ threads = {} /\ ~ParentLives
       THEN erased' = TRUE
       ELSE UNCHANGED erased
  /\ UNCHANGED <<threads, terminating, chase, code, exitCode, terminated,
                 memory, waiting, status>>

-----------------------------------------------------------------------------
(* waitpid of the parent, under processesCond *)

Waits(w) == waiting[w] \in {"idle", "notified"}

\* mutant of Reap: the process stays in the table
ReapKeeping(w) ==
  /\ Waits(w)
  /\ ~erased
  /\ terminated
  /\ waiting' = [waiting EXCEPT ![w] = "reaped"]
  /\ status' = [status EXCEPT ![w] = exitCode]
  /\ UNCHANGED <<threads, pc, terminating, chase, code, exitCode, terminated,
                 erased, memory>>

Reap(w) ==
  /\ Waits(w)
  /\ ~erased
  /\ terminated
  /\ waiting' = [waiting EXCEPT ![w] = "reaped"]
  /\ status' = [status EXCEPT ![w] = exitCode]
  /\ erased' = TRUE
  /\ UNCHANGED <<threads, pc, terminating, chase, code, exitCode, terminated,
                 memory>>

NoChild(w) ==
  /\ Waits(w)
  /\ erased
  /\ waiting' = [waiting EXCEPT ![w] = "nochild"]
  /\ UNCHANGED <<threads, pc, terminating, chase, code, exitCode, terminated,
                 erased, memory, status>>

Block(w) ==
  /\ Waits(w)
  /\ ~erased
  /\ ~terminated
  /\ waiting' = [waiting EXCEPT ![w] = "blocked"]
  /\ UNCHANGED <<threads, pc, terminating, chase, code, exitCode, terminated,
                 erased, memory, status>>

\* woken for a signal of its own, the call is made again
Interrupt(w) ==
  /\ waiting[w] = "blocked"
  /\ waiting' = [waiting EXCEPT ![w] = "idle"]
  /\ UNCHANGED <<threads, pc, terminating, chase, code, exitCode, terminated,
                 erased, memory, status>>

-----------------------------------------------------------------------------
Ending(t) ==
  \/ SetTerminated(t) \/ ClearThreads(t) \/ SetExitCode(t) \/ WakeParent(t)
Unwinding(t) ==
  \/ Leave(t) \/ Cleanup(t) \/ DeleteThread(t) \/ FreeMemory(t) \/ EraseOrphan(t)

ThreadNext(t) ==
  \/ \E c \in Code : Exit(t, c) \/ ExitGroup(t, c)
  \/ Exec(t) \/ Execed(t) \/ SelfKill(t) \/ SelfKilled(t)
  \/ \E u \in Thread : Clone(t, u)
  \/ Ending(t) \/ Unwind(t) \/ Unwinding(t)

ChaseNext(a) == (\E v \in Thread : Pursue(a, v)) \/ Caught(a)
WaiterNext(w) == Reap(w) \/ NoChild(w) \/ Block(w) \/ Interrupt(w)

Next ==
  \/ \E t \in Thread : ThreadNext(t)
  \/ \E a \in Actor : ChaseNext(a)
  \/ Kill \/ KillDone
  \/ \E w \in Waiter : WaiterNext(w)

Spec == Init /\ [][Next]_vars

(* Host threads that end keep running; guest calls and signals are never   *)
(* owed.  Nor is Unwind: a thread that is marked may be asleep in a system *)
(* call, and no code sees to it that every such wait ends (Futex64 has one *)
(* that does not, and reads of eventfds and files never test the mark).    *)
Fairness ==
  /\ \A t \in Thread : WF_vars(Ending(t)) /\ WF_vars(Unwinding(t))
                       /\ WF_vars(Execed(t)) /\ WF_vars(SelfKilled(t))
  /\ \A a \in Actor : WF_vars(ChaseNext(a))
  /\ WF_vars(KillDone)
  /\ \A w \in Waiter : WF_vars(Reap(w) \/ NoChild(w) \/ Block(w))

FairSpec == Spec /\ Fairness

-----------------------------------------------------------------------------
(* Properties *)

(* Everything is typed. *)
TypeOK ==
  /\ threads \subseteq Thread
  /\ pc \in [Actor -> PC]
  /\ terminating \in [Thread -> BOOLEAN]
  /\ victims \in [Actor -> SUBSET Thread]
  /\ victim \in [Actor -> Thread \cup {NoThread}]
  /\ code \in [Thread -> Code \cup {NoCode}]
  /\ exitCode \in Code \cup {NoCode}
  /\ terminated \in BOOLEAN
  /\ erased \in BOOLEAN
  /\ memory \in BOOLEAN
  /\ waiting \in [Waiter -> {"idle", "blocked", "notified", "reaped", "nochild"}]
  /\ status \in [Waiter -> Code \cup {NoCode}]

(* exit_group declares the process terminated only when no other thread is *)
(* left in it, and from then on none runs guest code: whatever siblings    *)
(* exit, are killed or terminate each other meanwhile.  (Without clone.)   *)
AloneWhenTerminated ==
  \A t \in Thread :
    /\ pc[t] = "ending" => threads \subseteq {t}
    /\ terminated => pc[t] # "run"

(* Until the process is declared terminated, a thread that is out of its   *)
(* table, and so invisible to exit_group and kill, never runs guest code.  *)
RemovedNotRunning ==
  ~terminated =>
    \A t \in Thread : pc[t] \in {"run"} \cup Chasing => t \in threads

(* A process is reaped by one waitpid only, whoever else waits for it.     *)
ReapedOnce ==
  \A v, w \in Waiter : waiting[v] = "reaped" /\ waiting[w] = "reaped" => v = w

(* A parent that blocked in waitpid before its child terminated does not   *)
(* sleep on.                                                               *)
WaitersWake ==
  \A w \in Waiter : (terminated /\ waiting[w] = "blocked") ~> waiting[w] # "blocked"

(* A SIGKILL from another process returns if the threads that get marked   *)
(* leave guest code and their system calls, so that time and again there   *)
(* is none: it has marked every thread it waits for, whichever of them     *)
(* exit, end the group or are marked by somebody else between its copy of  *)
(* the ids and its visit.                                                  *)
MarkedLeave == []<>(\A t \in Thread : terminating[t] => pc[t] # "run")
KillReturns == MarkedLeave => (pc[Killer] = "kill" ~> pc[Killer] = "gone")

-----------------------------------------------------------------------------
(* Statements of the source that the code does not keep *)

(* exit(2): "if it's the last thread it falls through to exitgroup and     *)
(* ends the process": when every thread has exited, and none was killed,   *)
(* the process is terminated.                                              *)
LastExitEnds ==
  (\A t \in Thread : pc[t] = "gone") => terminated

(* exit_group(2) "forces process-wide termination regardless of thread     *)
(* count": it does, if the threads it marks leave.                         *)
ExitGroupEnds == MarkedLeave => \A t \in Thread : pc[t] = "group" ~> terminated

(* "on a successful reap, the encoded wait status": the code the last      *)
(* exit_group was given.                                                   *)
ReapedStatus ==
  \A w \in Waiter : waiting[w] = "reaped" =>
    \E t \in Thread : code[t] # NoCode /\ status[w] = code[t]

(* thread->cleanup "must happen before we clear memory": a thread that     *)
(* still has to clean up finds the memory of its process.                  *)
CleanupHasMemory ==
  \A t \in Thread : pc[t] \in {"cleanup", "deleting"} => memory
=============================================================================
