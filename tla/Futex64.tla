------------------------------- MODULE Futex64 -------------------------------
(***************************************************************************)
(* The futex of 64-bit guests, KThread::futex64 in                         *)
(* source/kernel/kthread.cpp, in the multi-threaded build: every guest     *)
(* thread is a host thread, the table system_futex[] is shared by all of   *)
(* them, each slot has its own condition (a std::mutex and a               *)
(* std::condition_variable), and gPendingWakeMutex (the "bucket lock")     *)
(* makes a whole WAKE atomic against the registration of a WAIT.           *)
(*                                                                         *)
(* One action is one critical section.  A WAIT registers (bucket lock),    *)
(* checks (slot lock, kept until the condition variable is waited on),     *)
(* sleeps and resumes; a WAKE takes the bucket lock and visits the slots   *)
(* one by one, each under its own lock, while waiters keep moving.         *)
(*                                                                         *)
(* Guest code is the environment: it stores to words, calls WAIT and WAKE  *)
(* (plain or BITSET), exits, and is cloned again.                          *)
(***************************************************************************)
EXTENDS Integers, FiniteSets

CONSTANTS
  Thread,            \* host/guest threads
  Proc,              \* guest processes
  ProcOf,            \* the process of each thread
  Addr,              \* futex words, by the host pointer getRamPtr returns
  Word,              \* values a word can hold
  Bit,               \* bits of a BITSET mask
  GuestWaits,        \* the WAIT calls each thread makes
  GuestWakes,        \* the WAKE calls guests make
  MaxFutexes,        \* MAX_FUTEXES, the size of system_futex[]
  MaxPendingWakes,   \* MAX_PENDING_WAKES, the size of gPendingWakes[]
  ClearTid,          \* clear_child_tid64 of each thread, or NoAddr
  Cleanups,          \* how often internalCleanup runs for one thread
  ZeroWord,          \* the word value 0 that an exiting thread stores
  Signalable,        \* the threads other threads send signals to
  Killable,          \* the threads terminateOtherThread is called for
  NoThread, NoAddr, NoSlot

(* A call: `val` is the expected word of a WAIT and how many a WAKE wakes;  *)
(* `exits` marks the WAKE of a thread that is exiting.                     *)
WaitCalls == [cmd : {"WAIT", "WAIT_BITSET"}, addr : Addr, val : Word,
              mask : SUBSET Bit, timed : BOOLEAN, exits : {FALSE}]
WakeCalls == [cmd : {"WAKE", "WAKE_BITSET"}, addr : Addr, val : Nat \ {0},
              mask : SUBSET Bit, timed : {FALSE}, exits : {FALSE}]

ExitCalls == [cmd : {"WAKE"}, addr : Addr, val : {1}, mask : {{}},
              timed : {FALSE}, exits : {TRUE}]

ASSUME FutexAssumption ==
  /\ ProcOf \in [Thread -> Proc]
  /\ ZeroWord \in Word
  /\ GuestWaits \in [Thread -> SUBSET WaitCalls]
  /\ GuestWakes \subseteq WakeCalls
  /\ MaxFutexes \in Nat \ {0}
  /\ MaxPendingWakes \in Nat \ {0}
  /\ ClearTid \in [Thread -> Addr \cup {NoAddr}]
  /\ Cleanups \in Nat \ {0}
  /\ Signalable \subseteq Thread
  /\ Killable \subseteq Thread
  /\ NoThread \notin Thread
  /\ NoAddr \notin Addr
  /\ NoSlot \notin 0 .. MaxFutexes - 1

VARIABLES
  word,         \* guest memory: the futex words
  futexes,      \* system_futex[]
  pending,      \* gPendingWakes[], as the count of every (process, address)
  bucket,       \* owner of gPendingWakeMutex while it scans, or NoThread
  scanPos,      \* the slot the bucket owner visits next
  woken,        \* `count` of the bucket owner's WAKE
  pc,           \* where each thread is
  call,         \* the futex call each thread is in
  signalled,    \* pendingSignals holds a signal a handler is installed for
  terminating,  \* KThread::terminating
  kick,         \* terminateOtherThread's progress for each thread
  kickSlot,     \* the waitingCond it read, by its slot, or NoSlot
  cleanups      \* how often internalCleanup will still run for each thread

vars == <<word, futexes, pending, bucket, scanPos, woken, pc, call,
          signalled, terminating, kick, kickSlot, cleanups>>
ending == <<terminating, kick, kickSlot, cleanups>>

Slot == 0 .. MaxFutexes - 1
Key  == Proc \X Addr
KeyOf(t) == <<ProcOf[t], call[t].addr>>

NoCall   == [cmd |-> "NONE", addr |-> NoAddr, val |-> 0, mask |-> {},
             timed |-> FALSE, exits |-> FALSE]
FreeSlot == [thread |-> NoThread, address |-> NoAddr, wake |-> FALSE,
             mask |-> {}, timed |-> FALSE]

\* pc of a thread inside WAIT, past the registration of its slot
Waiting == {"registered", "parking", "checked", "asleep", "notified"}
PC      == Waiting \cup {"user", "compared", "wakecall", "scan", "cleanup", "dead"}

KickState == {"none", "flagged", "signal", "done"}

Init ==
  /\ word = [a \in Addr |-> ZeroWord]
  /\ futexes = [s \in Slot |-> FreeSlot]
  /\ pending = [k \in Key |-> 0]
  /\ bucket = NoThread
  /\ scanPos = 0
  /\ woken = 0
  /\ pc = [t \in Thread |-> IF ClearTid[t] = NoAddr THEN "user" ELSE "dead"]
  /\ call = [t \in Thread |-> NoCall]
  /\ signalled = [t \in Thread |-> FALSE]
  /\ terminating = [t \in Thread |-> FALSE]
  /\ kick = [t \in Thread |-> "none"]
  /\ kickSlot = [t \in Thread |-> NoSlot]
  /\ cleanups = [t \in Thread |-> Cleanups]

-----------------------------------------------------------------------------
(* Helpers *)

Owns(t, s) == futexes[s].thread = t
OwnsSlot(t) == \E s \in Slot : Owns(t, s)

(* The condition of a slot is locked between a waiter's check and its wait. *)
CondFree(s) == ~ \E t \in Thread : Owns(t, s) /\ pc[t] = "checked"

(* The thread is in the table of its process, which the first              *)
(* internalCleanup takes it out of.                                        *)
Present(t) == pc[t] \notin {"cleanup", "dead"} /\ cleanups[t] >= Cleanups - 1

(* getThreadCount() of t's process *)
LiveSiblings(t) == {u \in Thread : ProcOf[u] = ProcOf[t] /\ Present(u)}

\* mutant of Notify: the signal is forgotten
NotifyNobody(s) == UNCHANGED pc

(* condition_variable::notify_one on a slot's condition: only its owner    *)
(* can be asleep there.                                                    *)
Notify(s) ==
  pc' = [t \in Thread |-> IF Owns(t, s) /\ pc[t] = "asleep"
                             THEN "notified" ELSE pc[t]]

\* mutant of LeaveWait: a return that does not call freeFutex
LeaveWaitLeaking(t, s) ==
  /\ pc' = [pc EXCEPT ![t] = "user"]
  /\ call' = [call EXCEPT ![t] = NoCall]
  /\ UNCHANGED futexes

(* freeFutex and the return from WAIT *)
LeaveWait(t, s) ==
  /\ futexes' = [futexes EXCEPT ![s].thread = NoThread, ![s].address = NoAddr]
  /\ pc' = [pc EXCEPT ![t] = "user"]
  /\ call' = [call EXCEPT ![t] = NoCall]

-----------------------------------------------------------------------------
(* WAIT *)

(* The word compare and the lone-thread test, before any lock.  The calls  *)
(* that fail them return EWOULDBLOCK and change nothing.                   *)
Compare(t, c) ==
  /\ pc[t] = "user"
  /\ word[c.addr] = c.val
  /\ Cardinality(LiveSiblings(t)) > 1
  /\ pc' = [pc EXCEPT ![t] = "compared"]
  /\ call' = [call EXCEPT ![t] = c]
  /\ UNCHANGED <<word, futexes, pending, bucket, scanPos, woken, signalled,
                 ending>>

(* Under gPendingWakeMutex, first half: consumePendingWakeLocked found a   *)
(* pending wake, WAIT returns EWOULDBLOCK.                                 *)
ConsumePending(t) ==
  /\ pc[t] = "compared"
  /\ bucket = NoThread
  /\ pending[KeyOf(t)] > 0
  /\ pending' = [pending EXCEPT ![KeyOf(t)] = @ - 1]
  /\ pc' = [pc EXCEPT ![t] = "user"]
  /\ call' = [call EXCEPT ![t] = NoCall]
  /\ UNCHANGED <<word, futexes, bucket, scanPos, woken, signalled,
                 ending>>

NewSlot(t) ==
  /\ \E s \in Slot :
       /\ futexes[s].thread = NoThread
       /\ futexes' = [futexes EXCEPT ![s] =
            [thread |-> t, address |-> call[t].addr, wake |-> FALSE,
             mask |-> {}, timed |-> call[t].timed]]
  /\ pc' = [pc EXCEPT ![t] =
              IF call[t].cmd = "WAIT_BITSET" THEN "registered" ELSE "parking"]
  /\ UNCHANGED <<word, pending, bucket, scanPos, woken, call, signalled,
                 ending>>

\* mutants of Register: outside the bucket lock, and blind to pending wakes
RegisterUnlocked(t) ==
  pc[t] = "compared" /\ pending[KeyOf(t)] = 0 /\ NewSlot(t)
RegisterBlindly(t) ==
  pc[t] = "compared" /\ bucket = NoThread /\ NewSlot(t)

(* Second half: allocFutex.  A BITSET mask is stored only after the lock   *)
(* is released (SetMask).                                                  *)
Register(t) ==
  /\ pc[t] = "compared"
  /\ bucket = NoThread
  /\ pending[KeyOf(t)] = 0
  /\ NewSlot(t)

\* mutant of SetMask: the mask of a BITSET wait is never stored
SetNoMask(t, s) ==
  /\ pc[t] = "registered"
  /\ Owns(t, s)
  /\ pc' = [pc EXCEPT ![t] = "parking"]
  /\ UNCHANGED <<word, futexes, pending, bucket, scanPos, woken, call,
                 signalled, ending>>

SetMask(t, s) ==
  /\ pc[t] = "registered"
  /\ Owns(t, s)
  /\ futexes' = [futexes EXCEPT ![s].mask = call[t].mask]
  /\ pc' = [pc EXCEPT ![t] = "parking"]
  /\ UNCHANGED <<word, pending, bucket, scanPos, woken, call, signalled,
                 ending>>

(* One turn of the wait loop, with the slot's condition locked: a signal   *)
(* is delivered first, then a wake is consumed, then a timeout is noticed; *)
(* otherwise the thread goes on to wait with the lock still held.          *)
LoopTurn(t, s) ==
  \/ /\ signalled[t]
     /\ signalled' = [signalled EXCEPT ![t] = FALSE]
     /\ LeaveWait(t, s)
  \/ /\ ~signalled[t]
     /\ futexes[s].wake \/ futexes[s].timed
     /\ LeaveWait(t, s)
     /\ UNCHANGED signalled
  \/ /\ ~signalled[t]
     /\ ~futexes[s].wake
     /\ pc' = [pc EXCEPT ![t] = "checked"]
     /\ UNCHANGED <<futexes, call, signalled>>

\* mutant of Park: the word is not read again
ParkUnchecked(t, s) ==
  /\ pc[t] = "parking"
  /\ Owns(t, s)
  /\ IF futexes[s].wake
       THEN LeaveWait(t, s) /\ UNCHANGED signalled
       ELSE LoopTurn(t, s)
  /\ UNCHANGED <<word, pending, bucket, scanPos, woken, ending>>

(* The first entry under the slot's condition: a wake that landed since    *)
(* the registration returns 0, a word that moved returns EWOULDBLOCK.      *)
Park(t, s) ==
  /\ pc[t] = "parking"
  /\ Owns(t, s)
  /\ IF futexes[s].wake \/ word[call[t].addr] # call[t].val
       THEN LeaveWait(t, s) /\ UNCHANGED signalled
       ELSE LoopTurn(t, s)
  /\ UNCHANGED <<word, pending, bucket, scanPos, woken, ending>>

(* BoxedWineCondition::wait: waitingCond is set, the lock is released and  *)
(* the thread sleeps, in one step for whoever needs the lock.              *)
Sleep(t) ==
  /\ pc[t] = "checked"
  /\ pc' = [pc EXCEPT ![t] = "asleep"]
  /\ UNCHANGED <<word, futexes, pending, bucket, scanPos, woken, call,
                 signalled, ending>>

(* A spurious wakeup or the end of a timed wait. *)
Stir(t) ==
  /\ pc[t] = "asleep"
  /\ pc' = [pc EXCEPT ![t] = "notified"]
  /\ UNCHANGED <<word, futexes, pending, bucket, scanPos, woken, call,
                 signalled, ending>>

\* mutant of Resume: terminating is not tested
ResumeRegardless(t, s) ==
  /\ pc[t] = "notified"
  /\ Owns(t, s)
  /\ LoopTurn(t, s)
  /\ UNCHANGED <<word, pending, bucket, scanPos, woken, ending>>

(* The thread has the lock again: terminating is tested, then the loop     *)
(* turns.                                                                  *)
Resume(t, s) ==
  /\ pc[t] = "notified"
  /\ Owns(t, s)
  /\ IF terminating[t]
       THEN LeaveWait(t, s) /\ UNCHANGED signalled
       ELSE LoopTurn(t, s)
  /\ UNCHANGED <<word, pending, bucket, scanPos, woken, ending>>

-----------------------------------------------------------------------------
(* WAKE *)

IssueWake(t, c) ==
  /\ pc' = [pc EXCEPT ![t] = "wakecall"]
  /\ call' = [call EXCEPT ![t] = c]

(* The two ways guests wake: a lock changes the word and then wakes, an    *)
(* alert wakes without touching the word.                                  *)
StoreThenWake(t, c, w) ==
  /\ pc[t] = "user"
  /\ word' = [word EXCEPT ![c.addr] = w]
  /\ IssueWake(t, c)
  /\ UNCHANGED <<futexes, pending, bucket, scanPos, woken, signalled,
                 ending>>

Alert(t, c) ==
  /\ pc[t] = "user"
  /\ IssueWake(t, c)
  /\ UNCHANGED <<word, futexes, pending, bucket, scanPos, woken, signalled,
                 ending>>

StartScan(t) ==
  /\ bucket' = t
  /\ scanPos' = 0
  /\ woken' = 0
  /\ pc' = [pc EXCEPT ![t] = "scan"]
  /\ UNCHANGED <<word, futexes, pending, call, signalled, ending>>

\* mutant of WakeBegin: no lock_guard
WakeBeginUnlocked(t) == pc[t] = "wakecall" /\ StartScan(t)

WakeBegin(t) ==
  /\ pc[t] = "wakecall"
  /\ bucket = NoThread
  /\ StartScan(t)

(* processCheck, addressCheck, !wake and maskCheck *)
Matches(t, s) ==
  /\ futexes[s].thread # NoThread
  /\ ProcOf[futexes[s].thread] = ProcOf[t]
  /\ futexes[s].address = call[t].addr
  /\ ~futexes[s].wake
  /\ call[t].cmd = "WAKE_BITSET" => futexes[s].mask \cap call[t].mask # {}

WakeVisit(t) ==
  /\ pc[t] = "scan"
  /\ scanPos < MaxFutexes
  /\ woken < call[t].val
  /\ CondFree(scanPos)
  /\ IF Matches(t, scanPos)
       THEN /\ futexes' = [futexes EXCEPT ![scanPos].wake = TRUE]
            /\ Notify(scanPos)
            /\ woken' = woken + 1
       ELSE UNCHANGED <<futexes, pc, woken>>
  /\ scanPos' = scanPos + 1
  /\ UNCHANGED <<word, pending, bucket, call, signalled, ending>>

(* recordPendingWakeLocked: the count of a key is capped, and a full table *)
(* gives up the record of another key.                                     *)
Recorded == {k \in Key : pending[k] > 0}

\* mutant of RecordPending: the count of a key is not capped
RecordUncapped(k) == pending' = [pending EXCEPT ![k] = @ + 1]

RecordPending(k) ==
  \/ /\ pending[k] > 0
     /\ pending' = [pending EXCEPT ![k] = IF @ < 2 THEN @ + 1 ELSE @]
  \/ /\ pending[k] = 0
     /\ Cardinality(Recorded) < MaxPendingWakes
     /\ pending' = [pending EXCEPT ![k] = 1]
  \/ /\ pending[k] = 0
     /\ Cardinality(Recorded) >= MaxPendingWakes
     /\ \E victim \in Recorded :
          pending' = [pending EXCEPT ![victim] = 0, ![k] = 1]

\* mutant of WakeEnd: a WAKE that found nobody is forgotten
WakeEndForgetful(t) ==
  /\ pc[t] = "scan"
  /\ scanPos = MaxFutexes \/ woken >= call[t].val
  /\ bucket' = NoThread
  /\ pc' = [pc EXCEPT ![t] = "user"]
  /\ call' = [call EXCEPT ![t] = NoCall]
  /\ UNCHANGED <<word, futexes, pending, scanPos, woken, signalled, ending>>

WakeEnd(t) ==
  /\ pc[t] = "scan"
  /\ scanPos = MaxFutexes \/ woken >= call[t].val
  /\ IF woken = 0 /\ call[t].cmd = "WAKE"
       THEN RecordPending(KeyOf(t))
       ELSE UNCHANGED pending
  /\ bucket' = NoThread
  /\ pc' = [pc EXCEPT ![t] = IF ~call[t].exits THEN "user"
                              ELSE IF cleanups[t] > 0 THEN "cleanup" ELSE "dead"]
  /\ call' = [call EXCEPT ![t] = NoCall]
  /\ UNCHANGED <<word, futexes, scanPos, woken, signalled, ending>>

-----------------------------------------------------------------------------
(* Signals and the end of threads *)

(* tgkill from another thread only arms pendingSignals. *)
PostSignal(t) ==
  /\ t \in Signalable
  /\ Present(t)
  /\ ~terminating[t]
  /\ signalled' = [signalled EXCEPT ![t] = TRUE]
  /\ UNCHANGED <<word, futexes, pending, bucket, scanPos, woken, pc, call,
                 ending>>

(* Delivery outside futex64, before the thread runs guest code again. *)
DeliverSignal(t) ==
  /\ pc[t] = "user"
  /\ signalled[t]
  /\ signalled' = [signalled EXCEPT ![t] = FALSE]
  /\ UNCHANGED <<word, futexes, pending, bucket, scanPos, woken, pc, call,
                 ending>>

(* internalCleanup of a thread that exits or is terminating: it zeroes     *)
(* clear_child_tid64 and wakes one joiner through futex64.  It runs again  *)
(* and again (exit, platformThread, deleteThread, ~KThread), and           *)
(* clear_child_tid64 is never reset.  A terminated thread may never reach  *)
(* the WAKE of its last store.                                             *)
ExitWake(a) == [cmd |-> "WAKE", addr |-> a, val |-> 1, mask |-> {},
                timed |-> FALSE, exits |-> TRUE]
Exits(t) ==
  \/ pc[t] \in {"user", "cleanup"}
  \/ pc[t] = "wakecall" /\ ~call[t].exits /\ terminating[t]

\* mutant of Exit: clear_child_tid64 is zeroed but nobody is woken
ExitSilently(t) ==
  /\ Exits(t)
  /\ pc' = [pc EXCEPT ![t] = "dead"]
  /\ call' = [call EXCEPT ![t] = NoCall]
  /\ word' = IF ClearTid[t] = NoAddr
               THEN word ELSE [word EXCEPT ![ClearTid[t]] = ZeroWord]
  /\ UNCHANGED <<futexes, pending, bucket, scanPos, woken, signalled, ending>>

Exit(t) ==
  /\ Exits(t)
  /\ IF ClearTid[t] = NoAddr
       THEN /\ pc' = [pc EXCEPT ![t] = "dead"]
            /\ call' = [call EXCEPT ![t] = NoCall]
            /\ UNCHANGED <<word, cleanups>>
       ELSE /\ word' = [word EXCEPT ![ClearTid[t]] = ZeroWord]
            /\ IssueWake(t, ExitWake(ClearTid[t]))
            /\ cleanups' = [cleanups EXCEPT ![t] = @ - 1]
  /\ UNCHANGED <<futexes, pending, bucket, scanPos, woken, signalled,
                 terminating, kick, kickSlot>>

(* A new thread.  Its parent stores its id in the word that its exit will  *)
(* clear; glibc reuses a stack, and that word with it, once it is zero.    *)
Clone(parent, t, w) ==
  /\ pc[parent] = "user"
  /\ ProcOf[parent] = ProcOf[t]
  /\ pc[t] = "dead"
  /\ kick[t] = "none"
  /\ pc' = [pc EXCEPT ![t] = "user"]
  /\ \/ ClearTid[t] = NoAddr /\ UNCHANGED word
     \/ /\ ClearTid[t] # NoAddr
        /\ word[ClearTid[t]] = ZeroWord
        /\ w # ZeroWord
        /\ word' = [word EXCEPT ![ClearTid[t]] = w]
  /\ signalled' = [signalled EXCEPT ![t] = FALSE]
  /\ cleanups' = [cleanups EXCEPT ![t] = Cleanups]
  /\ UNCHANGED <<futexes, pending, bucket, scanPos, woken, call,
                 terminating, kick, kickSlot>>

(* terminateOtherThread, by a thread that is not modelled: set the flag,   *)
(* read waitingCond without a lock, and signal it if it was set.           *)
TerminateFlag(t) ==
  /\ t \in Killable
  /\ Present(t)
  /\ kick[t] = "none"
  /\ terminating' = [terminating EXCEPT ![t] = TRUE]
  /\ kick' = [kick EXCEPT ![t] = "flagged"]
  /\ UNCHANGED <<word, futexes, pending, bucket, scanPos, woken, pc, call,
                 signalled, kickSlot, cleanups>>

TerminateRead(t) ==
  /\ kick[t] = "flagged"
  /\ \/ /\ pc[t] \in {"asleep", "notified"}
        /\ \E s \in Slot : Owns(t, s) /\ kickSlot' = [kickSlot EXCEPT ![t] = s]
        /\ kick' = [kick EXCEPT ![t] = "signal"]
     \/ /\ pc[t] \notin {"asleep", "notified"}
        /\ kick' = [kick EXCEPT ![t] = "done"]
        /\ UNCHANGED kickSlot
  /\ UNCHANGED <<word, futexes, pending, bucket, scanPos, woken, pc, call,
                 signalled, terminating, cleanups>>

TerminateSignal(t) ==
  /\ kick[t] = "signal"
  /\ CondFree(kickSlot[t])
  /\ Notify(kickSlot[t])
  /\ kick' = [kick EXCEPT ![t] = "done"]
  /\ kickSlot' = [kickSlot EXCEPT ![t] = NoSlot]
  /\ UNCHANGED <<word, futexes, pending, bucket, scanPos, woken, call,
                 signalled, terminating, cleanups>>

-----------------------------------------------------------------------------
Wait(t) ==
  \/ \E c \in GuestWaits[t] : Compare(t, c)
  \/ ConsumePending(t)
  \/ Register(t)
  \/ \E s \in Slot : SetMask(t, s)
  \/ \E s \in Slot : Park(t, s)
  \/ Sleep(t)
  \/ \E s \in Slot : Resume(t, s)

Wake(t) ==
  \/ \E c \in GuestWakes : Alert(t, c)
  \/ \E c \in GuestWakes, w \in Word : StoreThenWake(t, c, w)
  \/ WakeBegin(t)
  \/ WakeVisit(t)
  \/ WakeEnd(t)

Terminate(t) == TerminateFlag(t) \/ TerminateRead(t) \/ TerminateSignal(t)

Next ==
  \E t \in Thread :
    \/ Wait(t)
    \/ Wake(t)
    \/ Stir(t)
    \/ PostSignal(t)
    \/ DeliverSignal(t)
    \/ Exit(t)
    \/ \E parent \in Thread, w \in Word : Clone(parent, t, w)
    \/ Terminate(t)

Spec == Init /\ [][Next]_vars

(* A host thread that holds a lock or was notified keeps running.  Nothing *)
(* is assumed of guest code, of timers or of who wins a contended mutex.   *)
Fairness ==
  \A t \in Thread :
    /\ WF_vars(\E s \in Slot : SetMask(t, s))
    /\ WF_vars(\E s \in Slot : Park(t, s))
    /\ WF_vars(Sleep(t))
    /\ WF_vars(\E s \in Slot : Resume(t, s))
    /\ WF_vars(WakeVisit(t))
    /\ WF_vars(WakeEnd(t))
    /\ WF_vars(TerminateRead(t))
    /\ WF_vars(TerminateSignal(t))

FairSpec == Spec /\ Fairness

-----------------------------------------------------------------------------
(* Properties *)

(* Everything is typed; in particular a pending wake is never counted past *)
(* its cap and the scan stays inside the table.                            *)
SlotType == [thread : Thread \cup {NoThread}, address : Addr \cup {NoAddr},
             wake : BOOLEAN, mask : SUBSET Bit, timed : BOOLEAN]
CallType == WaitCalls \cup WakeCalls \cup ExitCalls \cup {NoCall}
TypeOK ==
  /\ word \in [Addr -> Word]
  /\ futexes \in [Slot -> SlotType]
  /\ pending \in [Key -> 0 .. 2]
  /\ bucket \in Thread \cup {NoThread}
  /\ scanPos \in 0 .. MaxFutexes
  /\ woken \in Nat
  /\ pc \in [Thread -> PC]
  /\ call \in [Thread -> CallType]
  /\ signalled \in [Thread -> BOOLEAN]
  /\ terminating \in [Thread -> BOOLEAN]
  /\ kick \in [Thread -> KickState]
  /\ kickSlot \in [Thread -> Slot \cup {NoSlot}]
  /\ cleanups \in [Thread -> Int]

(* A thread owns a slot of system_futex[] exactly while it is inside a     *)
(* WAIT it registered, and never two: no path out of futex64 leaks its     *)
(* slot, and a thread that is gone owns none although its KThread may be   *)
(* reused.                                                                 *)
SlotOwnership ==
  \A t \in Thread :
    /\ OwnsSlot(t) <=> pc[t] \in Waiting
    /\ \A s1, s2 \in Slot : Owns(t, s1) /\ Owns(t, s2) => s1 = s2

(* allocFutex never reaches its kpanic("ran out of futexes") while the     *)
(* guest has no more threads than the table has slots.                     *)
NoTableExhaustion ==
  \A t \in Thread :
    pc[t] = "compared" => \E s \in Slot : futexes[s].thread = NoThread

(* The bridge of futex64's comments: for any interleaving a waiter either  *)
(* consumes the pending wake or registers before the WAKE scans.  No       *)
(* thread is parked and not woken on a key that has a wake recorded for it.*)
NoParkOverPending ==
  \A t \in Thread, s \in Slot :
    Owns(t, s) /\ ~futexes[s].wake => pending[KeyOf(t)] = 0

(* A lock's wake is never lost, even when it races the registration: a     *)
(* thread that sleeps on a word that has moved is always about to be       *)
(* visited by the WAKE that followed the store.  (For guests whose WAKE    *)
(* wakes everyone, or that have one waiter to wake.)                       *)
AboutToVisit(u, t, s) ==
  /\ ProcOf[u] = ProcOf[t]
  /\ call[u].addr = call[t].addr
  /\ \/ pc[u] = "wakecall"
     \/ pc[u] = "scan" /\ scanPos <= s /\ woken < call[u].val
NoStaleSleeper ==
  \A t \in Thread, s \in Slot :
    /\ Owns(t, s)
    /\ ~futexes[s].wake
    /\ pc[t] \in {"checked", "asleep"}
    /\ word[call[t].addr] # call[t].val
    => \E u \in Thread : AboutToVisit(u, t, s)

(* Why the bridge holds: the inductive invariant behind SlotOwnership and  *)
(* NoParkOverPending.  A slot carries the address its owner waits on, the  *)
(* bucket lock is held exactly by the thread that scans, and a scan that   *)
(* has woken nobody has left no unwoken waiter of its key behind it.       *)
CallsMatchPC ==
  \A t \in Thread :
    /\ pc[t] \in Waiting \cup {"compared"} => call[t] \in WaitCalls
    /\ pc[t] \in {"wakecall", "scan"} => call[t] \in WakeCalls \cup ExitCalls
SlotAddress ==
  \A t \in Thread, s \in Slot : Owns(t, s) => futexes[s].address = call[t].addr
BucketOwner ==
  \A t \in Thread : pc[t] = "scan" <=> bucket = t
NothingLeftBehind ==
  \A u, t \in Thread, s \in Slot :
    /\ pc[u] = "scan"
    /\ woken = 0
    /\ call[u].cmd = "WAKE"
    /\ s < scanPos
    /\ Owns(t, s)
    /\ ~futexes[s].wake
    => KeyOf(t) # KeyOf(u)
FutexInv ==
  /\ CallsMatchPC
  /\ SlotOwnership
  /\ SlotAddress
  /\ BucketOwner
  /\ NothingLeftBehind
  /\ NoParkOverPending

(* The futex implements the bridge: every plain WAKE releases a waiter of  *)
(* its key or is banked before it returns, and no WAIT parks over a banked *)
(* one.  A WAKE owes its wake from the call to the first waiter it flags.  *)
Unwoken(t) == \E s \in Slot : Owns(t, s) /\ ~futexes[s].wake
Flagged(t) == \E s \in Slot : Owns(t, s) /\ futexes[s].wake
Owes(u) ==
  /\ call[u].cmd = "WAKE"
  /\ \/ pc[u] = "wakecall"
     \/ pc[u] = "scan" /\ woken = 0
UnwokenWaiters == {<<t, KeyOf(t)>> : t \in {u \in Thread : Unwoken(u)}}
FlaggedWaiters == {t \in Thread : Flagged(t)}
OwedWakes == {<<t, KeyOf(t)>> : t \in {u \in Thread : Owes(u)}}
Terminated == {t \in Thread : terminating[t]}
Bridge == INSTANCE WakeBridge WITH
  Room <- MaxPendingWakes, waiting <- UnwokenWaiters, released <- FlaggedWaiters,
  credit <- pending, owed <- OwedWakes, doomed <- Terminated
ImplementsBridge == Bridge!BridgeSpec

(* A waiter that a WAKE flagged always gets out of futex64: between the    *)
(* registration and the wait, asleep, or already resuming.                 *)
FlaggedReturns == \A t \in Thread : Flagged(t) ~> ~OwnsSlot(t)

(* A thread that is asleep on the condition terminateOtherThread read      *)
(* leaves its WAIT.                                                        *)
KickedLeaves ==
  \A t \in Thread :
    (/\ pc[t] = "asleep"
     /\ kick[t] = "signal"
     /\ Owns(t, kickSlot[t])) ~> pc[t] \notin Waiting

-----------------------------------------------------------------------------
(* Statements of the source that the code does not keep *)

(* A waiter that was woken is told so ("flagging a not-yet-parked waiter   *)
(* is correct"): a signal is never delivered in a WAIT that a WAKE has     *)
(* already released.                                                       *)
WakeNotSwallowed ==
  [][\A t \in Thread : signalled[t] /\ ~signalled'[t] => ~Flagged(t)]_vars

(* internalCleanup zeroes the word "when a thread exits", so pthread_join  *)
(* returns when the thread it joins has exited, and not before: a thread   *)
(* that runs guest code has not been reported as gone.                     *)
RunningNotJoined ==
  \A t \in Thread :
    (pc[t] = "user" /\ ClearTid[t] # NoAddr) => word[ClearTid[t]] # ZeroWord

(* terminateOtherThread wakes the thread "if it is waiting": a thread      *)
(* marked as terminating leaves its WAIT.                                  *)
TerminatedLeaves ==
  \A t \in Thread : terminating[t] ~> pc[t] \notin Waiting

(* A signal that tgkill arms is delivered before the target goes on; in    *)
(* particular the target does not sleep on with the signal pending.        *)
ParkedSignalDelivered ==
  \A t \in Thread : pc[t] = "asleep" /\ signalled[t] ~> pc[t] # "asleep"
=============================================================================
