------------------------------ MODULE FileLock -------------------------------
(***************************************************************************)
(* Record locks on one file in the multi-threaded build: fcntl with        *)
(* F_SETLK, F_SETLKW and F_UNLCK (source/kernel/kprocess.cpp,              *)
(* source/kernel/kfile.cpp), the list of locks in the file's node          *)
(* (source/io/fsnode.cpp), and their release when a descriptor is          *)
(* destroyed (source/kernel/kfiledescriptor.cpp).                          *)
(*                                                                         *)
(* A lock belongs to a process and covers a range of bytes.  A system call *)
(* holds a strong pointer to its descriptor while it runs, so the          *)
(* destructor, which releases all locks the process has on the file, may   *)
(* run at the end of a call that slept while another thread closed the     *)
(* descriptor.  The list is locked by a condition, locksCS, which is also  *)
(* what F_SETLKW waits on.  The kind of a lock is left out: the test for a *)
(* conflict does not look at it.                                           *)
(***************************************************************************)
EXTENDS Integers

CONSTANTS
  Proc,
  Thread,
  ProcOf,    \* the process of each thread
  Locker,    \* threads that ask for locks; every thread may release and close
  Desc,
  Opens,     \* the descriptors of the file each process can have at once
  Range,     \* the ranges asked for: a start, and a length where 0 is "to the end"
  Top,       \* the end of a range of length 0: 0xFFFFFFFF
  NoDesc, NoRange

ASSUME LockAssumption ==
  /\ ProcOf \in [Thread -> Proc]
  /\ Locker \subseteq Thread
  /\ Opens \in [Proc -> SUBSET Desc]
  /\ Range \subseteq [start : Nat, len : Nat]
  /\ Top \in Nat
  /\ NoDesc \notin Desc
  /\ NoRange \notin Range

VARIABLES
  locks,   \* FsNode::locks, as a set: equal locks of one process count once
  table,   \* the descriptors in KProcess::fds
  dying,   \* those that cleanupProcess took out and has still to destroy
  pc,      \* where each thread is
  desc,    \* the descriptor its call holds
  want     \* the range of the call

vars == <<locks, table, dying, pc, desc, want>>

Op == {"set", "wait", "unlock"}
Outside == {"user", "gone"}
Place == Op \cup Outside \cup {"asleep", "notified", "close", "drop"}

Init ==
  /\ locks = {}
  /\ table = [p \in Proc |-> {}]
  /\ dying = [p \in Proc |-> {}]
  /\ pc = [t \in Thread |-> "user"]
  /\ desc = [t \in Thread |-> NoDesc]
  /\ want = [t \in Thread |-> NoRange]

-----------------------------------------------------------------------------
(* The test for a conflict *)

EndOf(r) == IF r.len = 0 THEN Top ELSE r.start + r.len

\* mutant of Meets: only the start of the held range is looked at
MeetsStart(wanted, held) ==
  wanted.start <= held.start /\ held.start <= EndOf(wanted)

\* an end of the held range lies within the wanted one, both inclusive
Meets(wanted, held) ==
  \E x \in {held.start, EndOf(held)} : wanted.start <= x /\ x <= EndOf(wanted)

Blocked(t) ==
  \E l \in locks : l.owner # ProcOf[t] /\ Meets(want[t], l.range)

Granted(t) == locks \cup {[owner |-> ProcOf[t], range |-> want[t]]}

-----------------------------------------------------------------------------
(* The condition and the descriptors *)

\* mutant of Signalled: nobody
SignalNone(f) == {f}

\* BOXEDWINE_CONDITION_SIGNAL: one of those that sleep, in the places f
Signalled(f) ==
  LET sleepers == {u \in Thread : f[u] = "asleep"}
  IN  IF sleepers = {} THEN {f} ELSE {[f EXCEPT ![u] = "notified"] : u \in sleepers}

\* threads of process p, other than t, that hold descriptor d
Holders(p, d, t) == {u \in Thread \ {t} : ProcOf[u] = p /\ desc[u] = d}

\* descriptors of p that are not destroyed
Live(p) == table[p] \cup dying[p] \cup {d \in Desc : \E u \in Thread : ProcOf[u] = p /\ desc[u] = d}

\* FsNode::unlockAll, called by the destructor; the threads are then at f
UnlockAll(p, f) ==
  /\ locks' = {l \in locks : l.owner # p}
  /\ pc' \in Signalled(f)

-----------------------------------------------------------------------------
(* Descriptors *)

\* open, dup, or the copy that fork makes
Open(t, d) ==
  /\ pc[t] = "user"
  /\ d \in Opens[ProcOf[t]] \ Live(ProcOf[t])
  /\ table' = [table EXCEPT ![ProcOf[t]] = @ \cup {d}]
  /\ UNCHANGED <<locks, dying, pc, desc, want>>

\* close looks the descriptor up and then removes what its number names; that
\* may by now be another one, or nothing
Close(t, d) ==
  /\ pc[t] = "user"
  /\ d \in table[ProcOf[t]]
  /\ pc' = [pc EXCEPT ![t] = "close"]
  /\ desc' = [desc EXCEPT ![t] = d]
  /\ UNCHANGED <<locks, table, dying, want>>

Remove(t) ==
  LET p == ProcOf[t]
      f == [pc EXCEPT ![t] = "drop"]
      named == IF desc[t] \in table[p] THEN {desc[t]} ELSE table[p] \cup {NoDesc}
  IN  /\ pc[t] = "close"
      /\ \E d \in named :
           /\ table' = [table EXCEPT ![p] = @ \ {d}]
           /\ IF d \in table[p] /\ d # desc[t] /\ Holders(p, d, t) = {}
                THEN UnlockAll(p, f)
                ELSE locks' = locks /\ pc' = f
      /\ UNCHANGED <<dying, desc, want>>

\* mutant of Drop: the range stays behind
DropRangeStays(t) ==
  /\ pc[t] = "drop"
  /\ pc' = [pc EXCEPT ![t] = "user"]
  /\ desc' = [desc EXCEPT ![t] = NoDesc]
  /\ UNCHANGED <<locks, table, dying, want>>

\* mutant of Drop: fcntl uses a plain pointer, only close destroys
DropPlain(t) ==
  /\ pc[t] = "drop"
  /\ pc' = [pc EXCEPT ![t] = "user"]
  /\ desc' = [desc EXCEPT ![t] = NoDesc]
  /\ want' = [want EXCEPT ![t] = NoRange]
  /\ IF want[t] # NoRange \/ Holders(ProcOf[t], desc[t], t) # {} \/ desc[t] \in table[ProcOf[t]]
       THEN locks' = locks
       ELSE locks' = {l \in locks : l.owner # ProcOf[t]}
  /\ UNCHANGED <<table, dying>>

\* a call returns and gives up its pointer, perhaps the last
Drop(t) ==
  LET p == ProcOf[t]
      d == desc[t]
      f == [pc EXCEPT ![t] = "user"]
  IN  /\ pc[t] = "drop"
      /\ desc' = [desc EXCEPT ![t] = NoDesc]
      /\ want' = [want EXCEPT ![t] = NoRange]
      /\ IF d \in table[p] \cup dying[p] \/ Holders(p, d, t) # {}
           THEN locks' = locks /\ pc' = f
           ELSE UnlockAll(p, f)
      /\ UNCHANGED <<table, dying>>

-----------------------------------------------------------------------------
(* fcntl *)

Fcntl(t, op, d, r) ==
  /\ pc[t] = "user"
  /\ op \in {"set", "wait"} => t \in Locker
  /\ d \in table[ProcOf[t]]
  /\ pc' = [pc EXCEPT ![t] = op]
  /\ desc' = [desc EXCEPT ![t] = d]
  /\ want' = [want EXCEPT ![t] = r]
  /\ UNCHANGED <<locks, table, dying>>

\* F_SETLK: EAGAIN if there is a conflict
AddLock(t) ==
  /\ pc[t] = "set"
  /\ locks' = IF Blocked(t) THEN locks ELSE Granted(t)
  /\ pc' = [pc EXCEPT ![t] = "drop"]
  /\ UNCHANGED <<table, dying, desc, want>>

\* mutant of AddLockAndWait: a woken thread takes the lock without a look
AddLockAndWaitOnce(t) ==
  /\ pc[t] \in {"wait", "notified"}
  /\ IF pc[t] = "wait" /\ Blocked(t)
       THEN pc' = [pc EXCEPT ![t] = "asleep"] /\ locks' = locks
       ELSE pc' = [pc EXCEPT ![t] = "drop"] /\ locks' = Granted(t)
  /\ UNCHANGED <<table, dying, desc, want>>

\* F_SETLKW: the loop under locksCS, from its start or after a wait
AddLockAndWait(t) ==
  /\ pc[t] \in {"wait", "notified"}
  /\ \/ /\ Blocked(t)
        /\ pc' = [pc EXCEPT ![t] = "asleep"]
        /\ UNCHANGED locks
     \/ /\ ~Blocked(t)
        /\ pc' = [pc EXCEPT ![t] = "drop"]
        /\ locks' = Granted(t)
  /\ UNCHANGED <<table, dying, desc, want>>

\* a wait ends by itself, or because terminateOtherThread signals the condition
Stir(t) ==
  /\ pc[t] = "asleep"
  /\ pc' = [pc EXCEPT ![t] = "notified"]
  /\ UNCHANGED <<locks, table, dying, desc, want>>

\* mutant of Unlock: a lock goes only if it is the range asked for
UnlockSameRange(t) ==
  LET met == {l \in locks : l.owner = ProcOf[t] /\ l.range = want[t]}
      f == [pc EXCEPT ![t] = "drop"]
  IN  /\ pc[t] = "unlock"
      /\ locks' = locks \ met
      /\ IF met = {} THEN pc' = f ELSE pc' \in Signalled(f)
      /\ UNCHANGED <<table, dying, desc, want>>

\* F_UNLCK drops each lock of the process that meets the range, whole
Unlock(t) ==
  LET met == {l \in locks : l.owner = ProcOf[t] /\ Meets(want[t], l.range)}
      f == [pc EXCEPT ![t] = "drop"]
  IN  /\ pc[t] = "unlock"
      /\ locks' = locks \ met
      /\ IF met = {} THEN pc' = f ELSE pc' \in Signalled(f)
      /\ UNCHANGED <<table, dying, desc, want>>

-----------------------------------------------------------------------------
(* The end of a process *)

Exit(t) ==
  /\ pc[t] = "user"
  /\ pc' = [pc EXCEPT ![t] = "gone"]
  /\ UNCHANGED <<locks, table, dying, desc, want>>

\* the last thread empties the table, and destroys its copy of it one by one
CleanupProcess(p) ==
  /\ table[p] # {}
  /\ \A t \in Thread : ProcOf[t] = p => pc[t] = "gone"
  /\ dying' = [dying EXCEPT ![p] = table[p]]
  /\ table' = [table EXCEPT ![p] = {}]
  /\ UNCHANGED <<locks, pc, desc, want>>

Destroy(p, d) ==
  /\ d \in dying[p]
  /\ dying' = [dying EXCEPT ![p] = @ \ {d}]
  /\ UnlockAll(p, pc)
  /\ UNCHANGED <<table, desc, want>>

-----------------------------------------------------------------------------
Step(t) ==
  \/ \E d \in Desc : Open(t, d) \/ Close(t, d)
  \/ \E d \in Desc, r \in Range, op \in Op : Fcntl(t, op, d, r)
  \/ Remove(t) \/ Drop(t)
  \/ AddLock(t) \/ AddLockAndWait(t) \/ Stir(t) \/ Unlock(t)
  \/ Exit(t)

Next ==
  \/ \E t \in Thread : Step(t)
  \/ \E p \in Proc : CleanupProcess(p) \/ \E d \in Desc : Destroy(p, d)

Spec == Init /\ [][Next]_vars

-----------------------------------------------------------------------------
(* Types: a call, and only a call, holds a descriptor, and it has a range   *)
(* unless it is a close.                                                    *)
TypeOK ==
  /\ locks \subseteq [owner : Proc, range : Range]
  /\ table \in [Proc -> SUBSET Desc]
  /\ dying \in [Proc -> SUBSET Desc]
  /\ pc \in [Thread -> Place]
  /\ desc \in [Thread -> Desc \cup {NoDesc}]
  /\ want \in [Thread -> Range \cup {NoRange}]
  /\ \A t \in Thread :
       /\ desc[t] = NoDesc <=> pc[t] \in Outside
       /\ pc[t] \in Op \cup {"asleep", "notified"} => want[t] # NoRange
       /\ pc[t] \in Outside \cup {"close"} => want[t] = NoRange

Before(r, q) == r.len # 0 /\ r.start + r.len <= q.start

\* two ranges have a byte in common
Overlap(r, q) == ~Before(r, q) /\ ~Before(q, r)

(* What a record lock is for: no byte is locked by two processes, although  *)
(* calls sleep, are woken at the same time, and are granted what was asked  *)
(* for long before.  The test for a conflict misses a held range that       *)
(* contains the wanted one on both sides (fsnode.cpp:235), so this is for   *)
(* programs whose ranges satisfy NoneWithin.                                *)
Exclusive ==
  \A l, m \in locks : l.owner # m.owner => ~Overlap(l.range, m.range)

(* Locks are "automatically released when the process terminates or if it   *)
(* closes any file descriptor" (kfiledescriptor.cpp:28): whoever holds a    *)
(* lock has a descriptor, or a call that is about to give one up.  A call   *)
(* that slept through the close may be granted its lock after it.           *)
LocksHaveDescriptor ==
  \A l \in locks : Live(l.owner) # {}

\* the bytes of a range, those a process has locked, and what it sees as open
Bytes(r) == {b \in 0 .. Top : r.start <= b /\ (r.len = 0 \/ b < r.start + r.len)}
Held(p) == UNION {Bytes(l.range) : l \in {m \in locks : m.owner = p}}

Promise == INSTANCE RecordLocks WITH
  Asked <- {Bytes(r) : r \in Range},
  descs <- [p \in Proc |-> Live(p)],
  held <- [p \in Proc |-> Held(p)]

(* What programs see of the list, of the descriptors that outlive a close   *)
(* and of the waits: a lock is granted at one moment, on the bytes asked    *)
(* for and only if nobody else has one of them; an unlock leaves none of    *)
(* its bytes locked; and a process loses bytes by its own unlock only, or   *)
(* with a descriptor, and then all of them at that moment.  This is for     *)
(* programs whose ranges satisfy NoneWithin.                                *)
ImplementsRecordLocks == Promise!Spec

(* The waiters never all sleep over a file on which nothing is locked:      *)
(* whoever takes the last lock off the list, by an unlock, a close, the end *)
(* of a call or of a process, leaves one of them woken, and a woken thread  *)
(* that does not find its way free finds a lock.  One is woken at a time    *)
(* (fsnode.cpp:169 and 213), and it need not be one whose way is free: that *)
(* one may then sleep on, but not past the last release.                    *)
NotAllAsleep ==
  (\E t \in Thread : pc[t] = "asleep") =>
    locks # {} \/ \E u \in Thread : pc[u] = "notified"

-----------------------------------------------------------------------------
(* Programs for which the properties hold *)

\* no range lies strictly within another, and all end by Top
NoneWithin ==
  \A r, q \in Range :
    /\ r.start <= Top /\ EndOf(r) <= Top
    /\ ~(q.start < r.start /\ EndOf(r) < EndOf(q))

-----------------------------------------------------------------------------
(* A statement that fails; the README says how *)

(* No turn is lost: a sleeper that nothing keeps from its lock has a woken  *)
(* thread beside it.                                                        *)
NoLostTurn ==
  \A t \in Thread :
    pc[t] = "asleep" /\ ~Blocked(t) => \E u \in Thread : pc[u] = "notified"
=============================================================================
