--------------------------- MODULE FileLockProofs ----------------------------
(***************************************************************************)
(* Proofs about FileLock: its types, that locks go with the descriptors,   *)
(* that no byte is locked twice, that waiters do not all sleep over a file *)
(* that is free, and that it implements RecordLocks.                       *)
(***************************************************************************)
EXTENDS FileLock, TLAPS

(* A signal wakes at most one of those that sleep, and if one sleeps on     *)
(* another was woken.                                                       *)
LEMMA SignalledOne ==
  ASSUME NEW f \in [Thread -> Place], NEW g \in Signalled(f)
  PROVE  /\ g \in [Thread -> Place]
         /\ \A t \in Thread : g[t] = f[t] \/ (f[t] = "asleep" /\ g[t] = "notified")
         /\ \A t \in Thread : g[t] = "asleep" => \E u \in Thread : g[u] = "notified"
<1>1. CASE \A u \in Thread : f[u] # "asleep"
  <2>1. g = f
    BY <1>1 DEF Signalled
  <2> QED
    BY <1>1, <2>1
<1>2. CASE \E u \in Thread : f[u] = "asleep"
  <2>1. {u \in Thread : f[u] = "asleep"} # {}
    BY <1>2
  <2>2. g \in {[f EXCEPT ![u] = "notified"] : u \in {u \in Thread : f[u] = "asleep"}}
    BY <2>1 DEF Signalled
  <2>3. PICK u \in Thread : f[u] = "asleep" /\ g = [f EXCEPT ![u] = "notified"]
    BY <2>2
  <2>4. g[u] = "notified" /\ \A t \in Thread \ {u} : g[t] = f[t]
    BY <2>3
  <2>5. g \in [Thread -> Place]
    BY <2>3 DEF Place
  <2> QED
    BY <2>3, <2>4, <2>5
<1> QED
  BY <1>1, <1>2

(* What a signal leaves of the places f, stated for the next state.         *)
LEMMA UnlockAllStep ==
  ASSUME TypeOK, NEW p \in Proc, NEW f \in [Thread -> Place], UnlockAll(p, f)
  PROVE  /\ locks' \subseteq locks
         /\ \A l \in locks' : l.owner # p
         /\ pc' \in [Thread -> Place]
         /\ \A t \in Thread : pc'[t] = f[t] \/ (f[t] = "asleep" /\ pc'[t] = "notified")
         /\ \A t \in Thread : pc'[t] = "asleep" => \E u \in Thread : pc'[u] = "notified"
  BY SignalledOne DEF UnlockAll

-----------------------------------------------------------------------------
(* Every reachable state is well typed: a call, and only a call, holds a    *)
(* descriptor, and each has the range it needs.                             *)
LEMMA TypeStep == TypeOK /\ [Next]_vars => TypeOK'
<1> SUFFICES ASSUME TypeOK, [Next]_vars PROVE TypeOK'
  OBVIOUS
<1> USE LockAssumption
<1>1. CASE UNCHANGED vars
  BY <1>1 DEF TypeOK, vars
<1>2. ASSUME NEW t \in Thread, NEW d \in Desc, Open(t, d) PROVE TypeOK'
  BY <1>2 DEF Open, TypeOK
<1>3. ASSUME NEW t \in Thread, NEW d \in Desc, Close(t, d) PROVE TypeOK'
  BY <1>3 DEF Close, TypeOK, Place, Outside, Op
<1>4. ASSUME NEW t \in Thread, NEW d \in Desc, NEW r \in Range, NEW op \in Op,
             Fcntl(t, op, d, r)
      PROVE  TypeOK'
  BY <1>4 DEF Fcntl, TypeOK, Place, Outside, Op
<1>5. ASSUME NEW t \in Thread, Remove(t) PROVE TypeOK'
  <2> DEFINE f == [pc EXCEPT ![t] = "drop"]
  <2>1. f \in [Thread -> Place]
    BY DEF TypeOK, Place
  <2>2. ProcOf[t] \in Proc
    OBVIOUS
  <2>3. /\ pc[t] = "close"
        /\ table' \in [Proc -> SUBSET Desc]
        /\ UnlockAll(ProcOf[t], f) \/ (locks' = locks /\ pc' = f)
        /\ UNCHANGED <<dying, desc, want>>
    BY <1>5, <2>2 DEF Remove, TypeOK
  <2>4. /\ locks' \subseteq locks
        /\ pc' \in [Thread -> Place]
        /\ \A u \in Thread : pc'[u] = f[u] \/ (f[u] = "asleep" /\ pc'[u] = "notified")
    BY <2>1, <2>2, <2>3, UnlockAllStep
  <2> QED
    BY <2>3, <2>4 DEF TypeOK, Outside, Op
<1>6. ASSUME NEW t \in Thread, Drop(t) PROVE TypeOK'
  <2> DEFINE f == [pc EXCEPT ![t] = "user"]
  <2>1. f \in [Thread -> Place]
    BY DEF TypeOK, Place, Outside
  <2>2. ProcOf[t] \in Proc
    OBVIOUS
  <2>3. /\ pc[t] = "drop"
        /\ desc' = [desc EXCEPT ![t] = NoDesc]
        /\ want' = [want EXCEPT ![t] = NoRange]
        /\ UnlockAll(ProcOf[t], f) \/ (locks' = locks /\ pc' = f)
        /\ UNCHANGED <<table, dying>>
    BY <1>6 DEF Drop
  <2>4. /\ locks' \subseteq locks
        /\ pc' \in [Thread -> Place]
        /\ \A u \in Thread : pc'[u] = f[u] \/ (f[u] = "asleep" /\ pc'[u] = "notified")
    BY <2>1, <2>2, <2>3, UnlockAllStep
  <2> QED
    BY <2>3, <2>4 DEF TypeOK, Outside, Op
<1>7. ASSUME NEW t \in Thread, AddLock(t) PROVE TypeOK'
  <2>1. want[t] \in Range
    BY <1>7 DEF AddLock, TypeOK, Op
  <2> QED
    BY <1>7, <2>1 DEF AddLock, Granted, TypeOK, Place, Outside, Op
<1>8. ASSUME NEW t \in Thread, AddLockAndWait(t) PROVE TypeOK'
  <2>1. want[t] \in Range
    BY <1>8 DEF AddLockAndWait, TypeOK, Op
  <2> QED
    BY <1>8, <2>1 DEF AddLockAndWait, Granted, TypeOK, Place, Outside, Op
<1>9. ASSUME NEW t \in Thread, Stir(t) PROVE TypeOK'
  BY <1>9 DEF Stir, TypeOK, Place, Outside, Op
<1>10. ASSUME NEW t \in Thread, Unlock(t) PROVE TypeOK'
  <2> DEFINE f == [pc EXCEPT ![t] = "drop"]
  <2>1. f \in [Thread -> Place]
    BY DEF TypeOK, Place
  <2>2. /\ pc[t] = "unlock"
        /\ locks' \subseteq locks
        /\ pc' = f \/ pc' \in Signalled(f)
        /\ UNCHANGED <<table, dying, desc, want>>
    BY <1>10 DEF Unlock
  <2>3. /\ pc' \in [Thread -> Place]
        /\ \A u \in Thread : pc'[u] = f[u] \/ (f[u] = "asleep" /\ pc'[u] = "notified")
    BY <2>1, <2>2, SignalledOne
  <2> QED
    BY <2>2, <2>3 DEF TypeOK, Outside, Op
<1>11. ASSUME NEW t \in Thread, Exit(t) PROVE TypeOK'
  BY <1>11 DEF Exit, TypeOK, Place, Outside, Op
<1>12. ASSUME NEW p \in Proc, CleanupProcess(p) PROVE TypeOK'
  BY <1>12 DEF CleanupProcess, TypeOK
<1>13. ASSUME NEW p \in Proc, NEW d \in Desc, Destroy(p, d) PROVE TypeOK'
  <2>1. pc \in [Thread -> Place]
    BY DEF TypeOK
  <2>2. /\ locks' \subseteq locks
        /\ pc' \in [Thread -> Place]
        /\ \A u \in Thread : pc'[u] = pc[u] \/ (pc[u] = "asleep" /\ pc'[u] = "notified")
    BY <1>13, <2>1, UnlockAllStep DEF Destroy
  <2> QED
    BY <1>13, <2>2 DEF Destroy, TypeOK, Outside, Op
<1> QED
  BY <1>1, <1>2, <1>3, <1>4, <1>5, <1>6, <1>7, <1>8, <1>9, <1>10, <1>11, <1>12, <1>13
  DEF Next, Step

(* Every reachable state of the locks is well typed.                        *)
THEOREM TypeCorrect == Spec => []TypeOK
<1>1. Init => TypeOK
  BY LockAssumption DEF Init, TypeOK, Place, Outside, Op
<1> QED
  BY <1>1, TypeStep, PTL DEF Spec

-----------------------------------------------------------------------------
(* Locks go with the last descriptor: the theorem needs no assumption about *)
(* the program.                                                             *)
LEMMA DescriptorStep ==
  TypeOK /\ LocksHaveDescriptor /\ [Next]_vars => LocksHaveDescriptor'
<1> SUFFICES ASSUME TypeOK, LocksHaveDescriptor, [Next]_vars, NEW l \in locks'
             PROVE  Live(l.owner)' # {}
  BY DEF LocksHaveDescriptor
<1> USE LockAssumption
\* a step that takes no descriptor of the owner away
<1>1. ASSUME l \in locks, Live(l.owner) \subseteq Live(l.owner)'
      PROVE  Live(l.owner)' # {}
  BY <1>1 DEF LocksHaveDescriptor
\* a process one of whose threads is in a call has a descriptor
<1>2. ASSUME NEW t \in Thread, desc'[t] \in Desc PROVE Live(ProcOf[t])' # {}
  BY <1>2 DEF Live
<1>3. CASE UNCHANGED vars
  BY <1>1, <1>3 DEF vars, Live
<1>4. ASSUME NEW t \in Thread, NEW d \in Desc, Open(t, d) PROVE Live(l.owner)' # {}
  BY <1>1, <1>4 DEF Open, Live, TypeOK
<1>5. ASSUME NEW t \in Thread, NEW d \in Desc,
             Close(t, d) \/ \E r \in Range, op \in Op : Fcntl(t, op, d, r)
      PROVE  Live(l.owner)' # {}
  <2>1. desc[t] = NoDesc
    BY <1>5 DEF Close, Fcntl, TypeOK, Outside
  <2> QED
    BY <1>1, <1>5, <2>1 DEF Close, Fcntl, Live, TypeOK
<1>6. ASSUME NEW t \in Thread, AddLock(t) \/ AddLockAndWait(t)
      PROVE  Live(l.owner)' # {}
  <2>1. desc'[t] \in Desc
    BY <1>6 DEF AddLock, AddLockAndWait, TypeOK, Outside
  <2>2. CASE l \in locks
    BY <1>1, <1>6, <2>2 DEF AddLock, AddLockAndWait, Live
  <2>3. CASE l \notin locks
    <3>1. l.owner = ProcOf[t]
      BY <1>6, <2>3 DEF AddLock, AddLockAndWait, Granted
    <3> QED
      BY <1>2, <2>1, <3>1
  <2> QED
    BY <2>2, <2>3
<1>7. ASSUME NEW t \in Thread, Stir(t) \/ Unlock(t) \/ Exit(t)
      PROVE  Live(l.owner)' # {}
  BY <1>1, <1>7 DEF Stir, Unlock, Exit, Live
\* the caller of close holds its descriptor still
<1>8. ASSUME NEW t \in Thread, Remove(t) PROVE Live(l.owner)' # {}
  <2>1. desc'[t] \in Desc
    BY <1>8 DEF Remove, TypeOK, Outside
  <2>2. l \in locks
    BY <1>8 DEF Remove, UnlockAll
  <2>3. CASE l.owner = ProcOf[t]
    BY <1>2, <2>1, <2>3
  <2>4. CASE l.owner # ProcOf[t]
    <3>1. table'[l.owner] = table[l.owner] /\ dying' = dying /\ desc' = desc
      BY <1>8, <2>2, <2>4 DEF Remove, TypeOK
    <3> QED
      BY <1>1, <2>2, <3>1 DEF Live
  <2> QED
    BY <2>3, <2>4
\* either the descriptor is not the last pointer, or the locks go
<1>9. ASSUME NEW t \in Thread, Drop(t) PROVE Live(l.owner)' # {}
  <2>1. desc[t] \in Desc /\ desc' = [desc EXCEPT ![t] = NoDesc]
        /\ table' = table /\ dying' = dying
    BY <1>9 DEF Drop, TypeOK, Outside
  <2>2. l \in locks
    BY <1>9 DEF Drop, UnlockAll
  <2>3. CASE l.owner = ProcOf[t]
    <3>1. \/ desc[t] \in table[ProcOf[t]] \cup dying[ProcOf[t]]
          \/ Holders(ProcOf[t], desc[t], t) # {}
      BY <1>9, <2>3 DEF Drop, UnlockAll
    <3>2. CASE desc[t] \in table[ProcOf[t]] \cup dying[ProcOf[t]]
      BY <2>1, <2>3, <3>2 DEF Live
    <3>3. CASE Holders(ProcOf[t], desc[t], t) # {}
      <4>1. PICK u \in Thread : u # t /\ ProcOf[u] = ProcOf[t] /\ desc[u] = desc[t]
        BY <3>3 DEF Holders
      <4>2. desc'[u] \in Desc
        BY <2>1, <4>1 DEF TypeOK
      <4> QED
        BY <1>2, <2>3, <4>1, <4>2
    <3> QED
      BY <3>1, <3>2, <3>3
  <2>4. CASE l.owner # ProcOf[t]
    BY <1>1, <2>1, <2>2, <2>4 DEF Live, TypeOK
  <2> QED
    BY <2>3, <2>4
<1>10. ASSUME NEW p \in Proc, CleanupProcess(p) PROVE Live(l.owner)' # {}
  BY <1>1, <1>10 DEF CleanupProcess, Live, TypeOK
<1>11. ASSUME NEW p \in Proc, NEW d \in Desc, Destroy(p, d) PROVE Live(l.owner)' # {}
  <2>1. l \in locks /\ l.owner # p
    BY <1>11 DEF Destroy, UnlockAll
  <2>2. dying'[l.owner] = dying[l.owner] /\ table' = table /\ desc' = desc
    BY <1>11, <2>1 DEF Destroy, TypeOK
  <2> QED
    BY <1>1, <2>1, <2>2 DEF Live
<1> QED
  BY <1>3, <1>4, <1>5, <1>6, <1>7, <1>8, <1>9, <1>10, <1>11 DEF Next, Step

(* Whoever holds a lock has a descriptor of the file, or a call that is     *)
(* about to give up the last one.                                           *)
THEOREM LocksHaveDescriptorCorrect == Spec => []LocksHaveDescriptor
<1>1. Init => LocksHaveDescriptor
  BY DEF Init, LocksHaveDescriptor
<1> QED
  BY <1>1, DescriptorStep, TypeCorrect, PTL DEF Spec

-----------------------------------------------------------------------------
(* The test for a conflict finds every common byte, if no range lies        *)
(* strictly within another.                                                 *)
LEMMA OverlapMeets ==
  ASSUME NoneWithin, NEW r \in Range, NEW q \in Range, Overlap(r, q)
  PROVE  Meets(r, q)
<1>1. /\ r \in [start : Nat, len : Nat] /\ q \in [start : Nat, len : Nat]
      /\ Top \in Nat
  BY LockAssumption
<1>2. /\ q.start <= Top /\ EndOf(q) <= Top /\ EndOf(r) <= Top /\ r.start <= Top
      /\ q.start < r.start => EndOf(r) >= EndOf(q)
  <2>1. ~(q.start < r.start /\ EndOf(r) < EndOf(q))
    BY DEF NoneWithin
  <2> QED
    BY <1>1, <2>1 DEF NoneWithin, EndOf
<1>3. CASE q.start >= r.start
  <2>1. r.start <= q.start /\ q.start <= EndOf(r)
    BY <1>1, <1>2, <1>3 DEF Overlap, Before, EndOf
  <2> QED
    BY <2>1 DEF Meets
<1>4. CASE q.start < r.start
  <2>1. r.start <= EndOf(q) /\ EndOf(q) <= EndOf(r)
    BY <1>1, <1>2, <1>4 DEF Overlap, Before, EndOf
  <2> QED
    BY <2>1 DEF Meets
<1> QED
  BY <1>1, <1>3, <1>4

(* Locks are only added by a thread that no lock of another process meets.  *)
LEMMA LocksStep ==
  ASSUME TypeOK, [Next]_vars
  PROVE  \/ locks' \subseteq locks
         \/ \E t \in Thread :
              /\ pc[t] \in {"set", "wait", "notified"}
              /\ pc'[t] = "drop"
              /\ ~Blocked(t)
              /\ locks' = Granted(t)
<1>1. ASSUME NEW t \in Thread, AddLock(t) \/ AddLockAndWait(t)
      PROVE  \/ locks' \subseteq locks
             \/ /\ pc[t] \in {"set", "wait", "notified"}
                /\ pc'[t] = "drop"
                /\ ~Blocked(t)
                /\ locks' = Granted(t)
  BY <1>1 DEF AddLock, AddLockAndWait, TypeOK
<1>2. ASSUME NEW t \in Thread, Step(t), ~AddLock(t), ~AddLockAndWait(t)
      PROVE  locks' \subseteq locks
  BY <1>2 DEF Step, Open, Close, Fcntl, Remove, Drop, Stir, Unlock, Exit, UnlockAll
<1>3. ASSUME NEW p \in Proc, CleanupProcess(p) \/ \E d \in Desc : Destroy(p, d)
      PROVE  locks' \subseteq locks
  BY <1>3 DEF CleanupProcess, Destroy, UnlockAll
<1> QED
  BY <1>1, <1>2, <1>3 DEF Next, vars

LEMMA ExclusiveStep ==
  ASSUME NoneWithin, TypeOK, Exclusive, [Next]_vars
  PROVE  Exclusive'
<1>1. CASE locks' \subseteq locks
  BY <1>1 DEF Exclusive
<1>2. ASSUME NEW t \in Thread, pc[t] \in {"set", "wait", "notified"}, ~Blocked(t),
             locks' = Granted(t)
      PROVE  Exclusive'
  <2>1. want[t] \in Range
    BY <1>2 DEF TypeOK, Op
  <2>2. ASSUME NEW l \in locks, l.owner # ProcOf[t] PROVE ~Overlap(want[t], l.range)
    <3>1. l.range \in Range
      BY DEF TypeOK
    <3> QED
      BY <1>2, <2>1, <2>2, <3>1, OverlapMeets DEF Blocked
  <2>3. ASSUME NEW l \in locks, l.owner # ProcOf[t] PROVE ~Overlap(l.range, want[t])
    BY <2>2, <2>3 DEF Overlap
  <2> DEFINE new == [owner |-> ProcOf[t], range |-> want[t]]
  <2>4. locks' = locks \cup {new} /\ new.owner = ProcOf[t] /\ new.range = want[t]
    BY <1>2 DEF Granted
  <2> HIDE DEF new
  <2> SUFFICES ASSUME NEW l \in locks', NEW m \in locks', l.owner # m.owner
               PROVE  ~Overlap(l.range, m.range)
    BY DEF Exclusive
  <2>5. CASE l = new
    <3>1. m \in locks
      BY <2>4, <2>5
    <3> QED
      BY <2>2, <2>4, <2>5, <3>1
  <2>6. CASE m = new
    <3>1. l \in locks
      BY <2>4, <2>6
    <3> QED
      BY <2>3, <2>4, <2>6, <3>1
  <2>7. CASE l \in locks /\ m \in locks
    BY <2>7 DEF Exclusive
  <2> QED
    BY <2>4, <2>5, <2>6, <2>7
<1> QED
  BY <1>1, <1>2, LocksStep

(* If no range lies strictly within another, no byte is ever locked by two  *)
(* processes.                                                               *)
THEOREM ExclusiveCorrect ==
  ASSUME NoneWithin
  PROVE  Spec => []Exclusive
<1>1. Init => Exclusive
  BY DEF Init, Exclusive
<1>2. TypeOK /\ Exclusive /\ [Next]_vars => Exclusive'
  BY ExclusiveStep
<1> QED
  BY <1>1, <1>2, TypeCorrect, PTL DEF Spec

-----------------------------------------------------------------------------
(* Not all sleep *)

(* A step that puts nobody to sleep and leaves the woken woken, or leaves   *)
(* someone woken beside every sleeper, or leaves a lock.                    *)
LEMMA AwakeKept ==
  ASSUME NotAllAsleep,
         \/ locks' # {}
         \/ \A t \in Thread : pc'[t] = "asleep" => \E u \in Thread : pc'[u] = "notified"
         \/ /\ locks' = locks
            /\ \A t \in Thread : pc'[t] = "asleep" => pc[t] = "asleep"
            /\ \A t \in Thread : pc[t] = "notified" => pc'[t] = "notified"
  PROVE  NotAllAsleep'
  BY DEF NotAllAsleep

(* unlockAll wakes one of those that sleep.                                 *)
LEMMA AwakeUnlockAll ==
  ASSUME TypeOK, NotAllAsleep, NEW p \in Proc, NEW f \in [Thread -> Place],
         UnlockAll(p, f) \/ (locks' = locks /\ pc' = f),
         \A t \in Thread : f[t] = "asleep" <=> pc[t] = "asleep",
         \A t \in Thread : f[t] = "notified" <=> pc[t] = "notified"
  PROVE  NotAllAsleep'
<1>1. CASE UnlockAll(p, f)
  BY <1>1, UnlockAllStep, AwakeKept
<1>2. CASE locks' = locks /\ pc' = f
  BY <1>2, AwakeKept
<1> QED
  BY <1>1, <1>2

LEMMA AwakeStep == TypeOK /\ NotAllAsleep /\ [Next]_vars => NotAllAsleep'
<1> SUFFICES ASSUME TypeOK, NotAllAsleep, [Next]_vars PROVE NotAllAsleep'
  OBVIOUS
<1> USE LockAssumption
<1>1. CASE UNCHANGED vars
  BY <1>1, AwakeKept DEF vars
<1>2. ASSUME NEW t \in Thread, NEW d \in Desc, Open(t, d) PROVE NotAllAsleep'
  BY <1>2, AwakeKept DEF Open
<1>3. ASSUME NEW t \in Thread, NEW d \in Desc, Close(t, d) PROVE NotAllAsleep'
  BY <1>3, AwakeKept DEF Close, TypeOK
<1>4. ASSUME NEW t \in Thread, NEW d \in Desc, NEW r \in Range, NEW op \in Op,
             Fcntl(t, op, d, r)
      PROVE  NotAllAsleep'
  BY <1>4, AwakeKept DEF Fcntl, TypeOK, Op
<1>5. ASSUME NEW t \in Thread, Remove(t) PROVE NotAllAsleep'
  <2> DEFINE f == [pc EXCEPT ![t] = "drop"]
  <2>1. f \in [Thread -> Place] /\ ProcOf[t] \in Proc
    BY DEF TypeOK, Place
  <2>2. pc[t] = "close" /\ (UnlockAll(ProcOf[t], f) \/ (locks' = locks /\ pc' = f))
    BY <1>5 DEF Remove
  <2>3. /\ \A u \in Thread : f[u] = "asleep" <=> pc[u] = "asleep"
        /\ \A u \in Thread : f[u] = "notified" <=> pc[u] = "notified"
    BY <2>2 DEF TypeOK
  <2> HIDE DEF f
  <2> QED
    BY <2>1, <2>2, <2>3, AwakeUnlockAll
<1>6. ASSUME NEW t \in Thread, Drop(t) PROVE NotAllAsleep'
  <2> DEFINE f == [pc EXCEPT ![t] = "user"]
  <2>1. f \in [Thread -> Place] /\ ProcOf[t] \in Proc
    BY DEF TypeOK, Place, Outside
  <2>2. pc[t] = "drop" /\ (UnlockAll(ProcOf[t], f) \/ (locks' = locks /\ pc' = f))
    BY <1>6 DEF Drop
  <2>3. /\ \A u \in Thread : f[u] = "asleep" <=> pc[u] = "asleep"
        /\ \A u \in Thread : f[u] = "notified" <=> pc[u] = "notified"
    BY <2>2 DEF TypeOK
  <2> HIDE DEF f
  <2> QED
    BY <2>1, <2>2, <2>3, AwakeUnlockAll
<1>7. ASSUME NEW t \in Thread, AddLock(t) PROVE NotAllAsleep'
  <2>1. CASE Blocked(t)
    BY <1>7, <2>1, AwakeKept DEF AddLock, TypeOK
  <2>2. CASE ~Blocked(t)
    BY <1>7, <2>2, AwakeKept DEF AddLock, Granted
  <2> QED
    BY <2>1, <2>2
\* who falls asleep does so because of a lock, who does not adds one
<1>8. ASSUME NEW t \in Thread, AddLockAndWait(t) PROVE NotAllAsleep'
  <2>1. CASE Blocked(t)
    BY <1>8, <2>1, AwakeKept DEF AddLockAndWait, Blocked
  <2>2. CASE ~Blocked(t)
    BY <1>8, <2>2, AwakeKept DEF AddLockAndWait, Granted
  <2> QED
    BY <2>1, <2>2
<1>9. ASSUME NEW t \in Thread, Stir(t) PROVE NotAllAsleep'
  BY <1>9, AwakeKept DEF Stir, TypeOK
<1>10. ASSUME NEW t \in Thread, Unlock(t) PROVE NotAllAsleep'
  <2> DEFINE f == [pc EXCEPT ![t] = "drop"]
             met == {l \in locks : l.owner = ProcOf[t] /\ Meets(want[t], l.range)}
  <2>1. f \in [Thread -> Place]
    BY DEF TypeOK, Place
  <2>2. CASE met = {}
    <3>1. locks' = locks /\ pc' = f /\ pc[t] = "unlock"
      BY <1>10, <2>2 DEF Unlock
    <3> QED
      BY <3>1, AwakeKept DEF TypeOK
  <2>3. CASE met # {}
    <3>1. pc' \in Signalled(f)
      BY <1>10, <2>3 DEF Unlock
    <3> QED
      BY <2>1, <3>1, SignalledOne, AwakeKept
  <2> QED
    BY <2>2, <2>3
<1>11. ASSUME NEW t \in Thread, Exit(t) PROVE NotAllAsleep'
  BY <1>11, AwakeKept DEF Exit, TypeOK
<1>12. ASSUME NEW p \in Proc, CleanupProcess(p) PROVE NotAllAsleep'
  BY <1>12, AwakeKept DEF CleanupProcess
<1>13. ASSUME NEW p \in Proc, NEW d \in Desc, Destroy(p, d) PROVE NotAllAsleep'
  BY <1>13, AwakeUnlockAll DEF Destroy, TypeOK
<1> QED
  BY <1>1, <1>2, <1>3, <1>4, <1>5, <1>6, <1>7, <1>8, <1>9, <1>10, <1>11, <1>12, <1>13
  DEF Next, Step

(* Whatever ranges programs ask for, and however many threads of a process  *)
(* wait, the waiters do not all sleep over a file on which nothing is       *)
(* locked.                                                                  *)
THEOREM NotAllAsleepCorrect == Spec => []NotAllAsleep
<1>1. Init => NotAllAsleep
  BY DEF Init, NotAllAsleep
<1> QED
  BY <1>1, AwakeStep, TypeCorrect, PTL DEF Spec

-----------------------------------------------------------------------------
(* What programs see                                                        *)

\* what cleanupProcess destroys is all that the process had
DyingAlone ==
  \A p \in Proc :
    dying[p] # {} => table[p] = {} /\ \A t \in Thread : ProcOf[t] = p => pc[t] = "gone"

LEMMA DyingStep ==
  ASSUME TypeOK, TypeOK', DyingAlone, [Next]_vars
  PROVE  DyingAlone'
<1> USE LockAssumption
<1>1. CASE UNCHANGED vars
  BY <1>1 DEF vars, DyingAlone
\* who is in the guest or in a call is not gone, and its process not dying
<1>2. ASSUME NEW t \in Thread, pc[t] # "gone", dying' = dying,
             \A p \in Proc : p # ProcOf[t] => table'[p] = table[p],
             \A u \in Thread : pc[u] = "gone" => pc'[u] = "gone"
      PROVE  DyingAlone'
  BY <1>2 DEF DyingAlone
<1>3. ASSUME NEW t \in Thread, Step(t) PROVE DyingAlone'
  <2>1. pc[t] # "gone" /\ dying' = dying
    BY <1>3 DEF Step, Open, Close, Fcntl, Remove, Drop, AddLock, AddLockAndWait, Stir,
                Unlock, Exit, Op
  <2>2. \A p \in Proc : p # ProcOf[t] => table'[p] = table[p]
    BY <1>3 DEF Step, Open, Close, Fcntl, Remove, Drop, AddLock, AddLockAndWait, Stir,
                Unlock, Exit, TypeOK
  <2>3. \A u \in Thread : pc[u] = "gone" => pc'[u] = "gone"
    <3>1. CASE \/ \E d \in Desc : Open(t, d) \/ Close(t, d)
               \/ \E d \in Desc, r \in Range, op \in Op : Fcntl(t, op, d, r)
               \/ AddLock(t) \/ AddLockAndWait(t) \/ Stir(t) \/ Exit(t)
      BY <2>1, <3>1 DEF Open, Close, Fcntl, AddLock, AddLockAndWait, Stir, Exit, TypeOK
    <3>2. ASSUME NEW x \in Place,
                 pc' = [pc EXCEPT ![t] = x] \/ pc' \in Signalled([pc EXCEPT ![t] = x])
          PROVE  \A u \in Thread : pc[u] = "gone" => pc'[u] = "gone"
      <4>1. PICK f \in [Thread -> Place] : f = [pc EXCEPT ![t] = x]
        BY DEF TypeOK
      <4>2. \A u \in Thread : u # t => f[u] = pc[u]
        BY <4>1 DEF TypeOK
      <4>3. pc' = f \/ pc' \in Signalled(f)
        BY <3>2, <4>1
      <4>4. \A u \in Thread : pc'[u] = f[u] \/ f[u] = "asleep"
        BY <4>3, SignalledOne
      <4> QED
        BY <2>1, <4>2, <4>4
    <3>3. "drop" \in Place /\ "user" \in Place
      BY DEF Place, Outside
    <3>4. CASE Remove(t)
      BY <3>2, <3>3, <3>4 DEF Remove, UnlockAll
    <3>5. CASE Drop(t)
      BY <3>2, <3>3, <3>5 DEF Drop, UnlockAll
    <3>6. CASE Unlock(t)
      BY <3>2, <3>3, <3>6 DEF Unlock
    <3> QED
      BY <1>3, <3>1, <3>4, <3>5, <3>6 DEF Step
  <2> QED
    BY <1>2, <2>1, <2>2, <2>3
<1>4. ASSUME NEW p \in Proc, CleanupProcess(p) PROVE DyingAlone'
  BY <1>4 DEF CleanupProcess, DyingAlone, TypeOK
<1>5. ASSUME NEW p \in Proc, NEW d \in Desc, Destroy(p, d) PROVE DyingAlone'
  <2>1. /\ table' = table /\ dying'[p] \subseteq dying[p]
        /\ \A q \in Proc \ {p} : dying'[q] = dying[q]
    BY <1>5 DEF Destroy, TypeOK
  <2>2. \A u \in Thread : pc[u] = "gone" => pc'[u] = "gone"
    BY <1>5, UnlockAllStep DEF Destroy, TypeOK
  <2> QED
    BY <2>1, <2>2 DEF DyingAlone
<1> QED
  BY <1>1, <1>3, <1>4, <1>5 DEF Next

\* ranges that do not overlap have no byte in common
LEMMA BytesApart ==
  ASSUME NEW r \in Range, NEW q \in Range, ~Overlap(r, q)
  PROVE  Bytes(r) \cap Bytes(q) = {}
<1>1. r \in [start : Nat, len : Nat] /\ q \in [start : Nat, len : Nat] /\ Top \in Nat
  BY LockAssumption
<1> SUFFICES ASSUME NEW b \in 0 .. Top, b \in Bytes(r), b \in Bytes(q) PROVE FALSE
  BY DEF Bytes
<1>2. b >= r.start /\ b >= q.start /\ b \in Int
  BY <1>1 DEF Bytes
<1>3. (r.len # 0 => b < r.start + r.len) /\ (q.len # 0 => b < q.start + q.len)
  BY DEF Bytes
<1> QED
  BY <1>1, <1>2, <1>3 DEF Overlap, Before

\* nor have those that the test finds no conflict between
LEMMA NotMet ==
  ASSUME NoneWithin, NEW r \in Range, NEW q \in Range, ~Meets(r, q)
  PROVE  Bytes(r) \cap Bytes(q) = {}
  BY OverlapMeets, BytesApart

-----------------------------------------------------------------------------
LEMMA Unnoticed ==
  ASSUME \A p \in Proc : Live(p)' = Live(p) /\ Held(p)' = Held(p)
  PROVE  UNCHANGED Promise!vars
<1>1. UNCHANGED [p \in Proc |-> Live(p)] /\ UNCHANGED [p \in Proc |-> Held(p)]
  OBVIOUS
<1> QED
  BY <1>1 DEF Promise!vars, Live, Held

\* a descriptor and the locks of its process go together
LEMMA ClosePromised ==
  ASSUME NEW p \in Proc, NEW d \in Desc, d \in Live(p), Live(p)' = Live(p) \ {d},
         \A q \in Proc \ {p} : Live(q)' = Live(q), locks' = {l \in locks : l.owner # p}
  PROVE  Promise!Close(p, d)
<1>1. Held(p)' = {} /\ \A q \in Proc \ {p} : Held(q)' = Held(q)
  BY DEF Held
<1> DEFINE D == [q \in Proc |-> Live(q)]  H == [q \in Proc |-> Held(q)]
<1>2. d \in D[p] /\ D' = [D EXCEPT ![p] = D[p] \ {d}]
  OBVIOUS
<1>3. H' = [H EXCEPT ![p] = {}]
  BY <1>1
<1> QED
  BY <1>2, <1>3 DEF Promise!Close, Live, Held

LEMMA LockPromised ==
  ASSUME NoneWithin, TypeOK, NEW t \in Thread, ~Blocked(t), locks' = Granted(t),
         want[t] \in Range, desc[t] \in Desc, UNCHANGED <<table, dying, desc>>
  PROVE  \E p \in Proc, r \in Range : Promise!Lock(p, Bytes(r))
<1> USE LockAssumption
<1>1. PICK p \in Proc, r \in Range : p = ProcOf[t] /\ r = want[t]
  OBVIOUS
<1>2. \A q \in Proc : Live(q)' = Live(q)
  BY DEF Live
<1>3. Live(p) # {}
  BY <1>1 DEF Live
<1>4. Held(p)' = Held(p) \cup Bytes(r) /\ \A q \in Proc \ {p} : Held(q)' = Held(q)
  <2> DEFINE new == [owner |-> p, range |-> r]
  <2>1. locks' = locks \cup {new} /\ new.owner = p /\ new.range = r
    BY <1>1 DEF Granted
  <2> HIDE DEF new
  <2>2. \A q \in Proc \ {p} : {m \in locks' : m.owner = q} = {m \in locks : m.owner = q}
    BY <2>1
  <2>3. {m \in locks' : m.owner = p} = {m \in locks : m.owner = p} \cup {new}
    BY <2>1
  <2>4. Held(p)' = Held(p) \cup Bytes(r)
    BY <2>1, <2>3 DEF Held, Bytes
  <2> QED
    BY <2>2, <2>4 DEF Held
<1>5. ASSUME NEW q \in Proc \ {p} PROVE Held(q) \cap Bytes(r) = {}
  <2>1. ASSUME NEW l \in locks, l.owner = q PROVE Bytes(l.range) \cap Bytes(r) = {}
    <3>1. l.range \in Range /\ ~Meets(r, l.range)
      BY <1>1, <2>1 DEF TypeOK, Blocked
    <3> QED
      BY <3>1, NotMet
  <2> QED
    BY <2>1 DEF Held
<1> DEFINE D == [q \in Proc |-> Live(q)]  H == [q \in Proc |-> Held(q)]
<1>6. D[p] # {} /\ D' = D
  BY <1>2, <1>3
<1>7. H' = [H EXCEPT ![p] = H[p] \cup Bytes(r)]
  BY <1>4
<1>8. \A q \in Proc \ {p} : H[q] \cap Bytes(r) = {}
  BY <1>5
<1>9. Promise!Lock(p, Bytes(r))
  BY <1>6, <1>7, <1>8 DEF Promise!Lock, Live, Held
<1> QED
  BY <1>9

LEMMA UnlockPromised ==
  ASSUME NoneWithin, TypeOK, NEW t \in Thread, Unlock(t)
  PROVE  \E p \in Proc, r \in Range : Promise!Unlock(p, Bytes(r))
<1> USE LockAssumption
<1>0. want[t] \in Range /\ desc[t] \in Desc /\ UNCHANGED <<table, dying, desc>>
  BY DEF Unlock, TypeOK, Outside, Op
<1>1. PICK p \in Proc, r \in Range : p = ProcOf[t] /\ r = want[t]
  BY <1>0
<1>2. \A q \in Proc : Live(q)' = Live(q)
  BY <1>0 DEF Live
<1>3. Live(p) # {}
  BY <1>0, <1>1 DEF Live
<1>4. locks' = locks \ {l \in locks : l.owner = p /\ Meets(r, l.range)}
  BY <1>1 DEF Unlock
<1>5. \A q \in Proc \ {p} : Held(q)' = Held(q)
  <2>1. \A q \in Proc \ {p} : {m \in locks' : m.owner = q} = {m \in locks : m.owner = q}
    BY <1>4
  <2> QED
    BY <2>1 DEF Held
<1>6. Held(p)' \subseteq Held(p) \ Bytes(r)
  <2>1. ASSUME NEW l \in locks', l.owner = p
        PROVE  l \in locks /\ Bytes(l.range) \cap Bytes(r) = {}
    <3>1. l \in locks /\ l.range \in Range /\ ~Meets(r, l.range)
      BY <1>4, <2>1 DEF TypeOK
    <3> QED
      BY <3>1, NotMet
  <2> QED
    BY <2>1 DEF Held, Bytes
<1> DEFINE D == [q \in Proc |-> Live(q)]  H == [q \in Proc |-> Held(q)]
<1>7. D[p] # {} /\ D' = D
  BY <1>2, <1>3
<1>8. PICK kept \in SUBSET (H[p] \ Bytes(r)) : kept = Held(p)'
  BY <1>6
<1>9. H' = [H EXCEPT ![p] = kept]
  BY <1>5, <1>8
<1>10. \E k \in SUBSET (H[p] \ Bytes(r)) : H' = [H EXCEPT ![p] = k]
  BY <1>8, <1>9
<1>11. Promise!Unlock(p, Bytes(r))
  BY <1>7, <1>10 DEF Promise!Unlock, Live, Held
<1> QED
  BY <1>11

LEMMA RemovePromised ==
  ASSUME TypeOK, DyingAlone, NEW t \in Thread, Remove(t)
  PROVE  \/ \E p \in Proc, d \in Desc : Promise!Close(p, d)
         \/ UNCHANGED Promise!vars
<1> USE LockAssumption
<1>0. PICK p \in Proc : p = ProcOf[t]
  OBVIOUS
<1>1. PICK d \in Desc \cup {NoDesc} :
        /\ table' = [table EXCEPT ![p] = @ \ {d}]
        /\ IF d \in table[p] /\ d # desc[t] /\ Holders(p, d, t) = {}
             THEN locks' = {l \in locks : l.owner # p}
             ELSE locks' = locks
  BY <1>0 DEF Remove, UnlockAll, TypeOK
<1>2. UNCHANGED <<dying, desc>> /\ pc[t] = "close" /\ desc[t] \in Desc
  BY DEF Remove, TypeOK, Outside
<1>3. dying[p] = {}
  BY <1>0, <1>2 DEF DyingAlone
<1>4. table'[p] = table[p] \ {d} /\ \A q \in Proc \ {p} : table'[q] = table[q]
  BY <1>1 DEF TypeOK
<1>5. \A q \in Proc \ {p} : Live(q)' = Live(q)
  BY <1>2, <1>4 DEF Live
<1>6. CASE d \in table[p] /\ d # desc[t] /\ Holders(p, d, t) = {}
  <2>1. d \in Desc /\ d \in Live(p)
    BY <1>6 DEF TypeOK, Live
  <2>2. Live(p)' = Live(p) \ {d}
    BY <1>0, <1>2, <1>3, <1>4, <1>6 DEF Live, Holders
  <2> QED
    BY <1>1, <1>5, <1>6, <2>1, <2>2, ClosePromised
<1>7. CASE ~(d \in table[p] /\ d # desc[t] /\ Holders(p, d, t) = {})
  <2>1. Live(p)' = Live(p)
    <3>1. d \in table[p] => \E u \in Thread : ProcOf[u] = p /\ desc[u] = d
      BY <1>0, <1>7 DEF Holders
    <3> QED
      BY <1>2, <1>4, <3>1 DEF Live, TypeOK
  <2>2. \A q \in Proc : Held(q)' = Held(q)
    BY <1>1, <1>7 DEF Held
  <2> QED
    BY <1>5, <2>1, <2>2, Unnoticed
<1> QED
  BY <1>6, <1>7

LEMMA DropPromised ==
  ASSUME TypeOK, NEW t \in Thread, Drop(t)
  PROVE  \/ \E p \in Proc, d \in Desc : Promise!Close(p, d)
         \/ UNCHANGED Promise!vars
<1> USE LockAssumption
<1>0. desc[t] \in Desc
  BY DEF Drop, TypeOK, Outside
<1>1. PICK p \in Proc, d \in Desc : p = ProcOf[t] /\ d = desc[t]
  BY <1>0
<1>2. /\ UNCHANGED <<table, dying>>
      /\ desc'[t] = NoDesc /\ \A u \in Thread \ {t} : desc'[u] = desc[u]
      /\ IF d \in table[p] \cup dying[p] \/ Holders(p, d, t) # {}
           THEN locks' = locks
           ELSE locks' = {l \in locks : l.owner # p}
  BY <1>1 DEF Drop, UnlockAll, TypeOK
<1>3. \A q \in Proc \ {p} : Live(q)' = Live(q)
  BY <1>1, <1>2 DEF Live
<1>4. CASE d \in table[p] \cup dying[p] \/ Holders(p, d, t) # {}
  <2>1. Live(p)' = Live(p)
    BY <1>1, <1>2, <1>4 DEF Live, Holders
  <2>2. \A q \in Proc : Held(q)' = Held(q)
    BY <1>2, <1>4 DEF Held
  <2> QED
    BY <1>3, <2>1, <2>2, Unnoticed
<1>5. CASE ~(d \in table[p] \cup dying[p] \/ Holders(p, d, t) # {})
  <2>1. d \in Live(p)
    BY <1>1 DEF Live
  <2>2. Live(p)' = Live(p) \ {d}
    BY <1>1, <1>2, <1>5 DEF Live, Holders
  <2> QED
    BY <1>2, <1>3, <1>5, <2>1, <2>2, ClosePromised
<1> QED
  BY <1>4, <1>5

LEMMA DestroyPromised ==
  ASSUME TypeOK, DyingAlone, NEW p \in Proc, NEW d \in Desc, Destroy(p, d)
  PROVE  Promise!Close(p, d)
<1>1. /\ d \in dying[p] /\ UNCHANGED <<table, desc>>
      /\ dying'[p] = dying[p] \ {d} /\ \A q \in Proc \ {p} : dying'[q] = dying[q]
      /\ locks' = {l \in locks : l.owner # p}
  BY DEF Destroy, UnlockAll, TypeOK
<1>2. table[p] = {} /\ \A t \in Thread : ProcOf[t] = p => desc[t] = NoDesc
  BY <1>1 DEF DyingAlone, TypeOK, Outside
<1>3. d \in Live(p) /\ Live(p)' = Live(p) \ {d}
  BY <1>1, <1>2, LockAssumption DEF Live
<1>4. \A q \in Proc \ {p} : Live(q)' = Live(q)
  BY <1>1 DEF Live
<1> QED
  BY <1>1, <1>3, <1>4, ClosePromised

LEMMA PromiseStep ==
  ASSUME NoneWithin, TypeOK, DyingAlone, [Next]_vars
  PROVE  [Promise!Next]_Promise!vars
<1> USE LockAssumption
<1> SUFFICES Promise!Next \/ UNCHANGED Promise!vars
  OBVIOUS
\* steps that change neither the locks nor what is open
<1>1. ASSUME locks' = locks, \A p \in Proc : Live(p)' = Live(p)
      PROVE  UNCHANGED Promise!vars
  <2>1. \A p \in Proc : Held(p)' = Held(p)
    BY <1>1 DEF Held
  <2> QED
    BY <1>1, <2>1, Unnoticed
<1>2. CASE UNCHANGED vars
  BY <1>1, <1>2 DEF vars, Live
<1>3. ASSUME NEW t \in Thread, NEW d \in Desc, Open(t, d) PROVE Promise!Next
  <2>1. PICK p \in Proc : p = ProcOf[t]
    OBVIOUS
  <2>2. /\ d \notin Live(p) /\ locks' = locks /\ UNCHANGED <<dying, desc>>
        /\ table'[p] = table[p] \cup {d} /\ \A q \in Proc \ {p} : table'[q] = table[q]
    BY <1>3, <2>1 DEF Open, TypeOK
  <2>3. Live(p)' = Live(p) \cup {d} /\ \A q \in Proc \ {p} : Live(q)' = Live(q)
    BY <2>2 DEF Live
  <2>4. \A q \in Proc : Held(q)' = Held(q)
    BY <2>2 DEF Held
  <2> DEFINE D == [q \in Proc |-> Live(q)]  H == [q \in Proc |-> Held(q)]
  <2>5. d \notin D[p] /\ D' = [D EXCEPT ![p] = D[p] \cup {d}]
    BY <2>2, <2>3
  <2>6. H' = H
    BY <2>4
  <2>7. Promise!Open(p, d)
    BY <2>5, <2>6 DEF Promise!Open, Live, Held
  <2> QED
    BY <2>7 DEF Promise!Next
<1>4. ASSUME NEW t \in Thread, NEW d \in Desc,
             Close(t, d) \/ \E r \in Range, op \in Op : Fcntl(t, op, d, r)
      PROVE  UNCHANGED Promise!vars
  <2>1. /\ d \in table[ProcOf[t]] /\ UNCHANGED <<locks, table, dying>>
        /\ desc[t] = NoDesc /\ desc'[t] = d /\ \A u \in Thread \ {t} : desc'[u] = desc[u]
    BY <1>4 DEF Close, Fcntl, TypeOK, Outside
  <2>2. \A p \in Proc : Live(p)' = Live(p)
    BY <2>1 DEF Live
  <2> QED
    BY <1>1, <2>1, <2>2
<1>5. ASSUME NEW t \in Thread, AddLock(t) \/ AddLockAndWait(t)
      PROVE  Promise!Next \/ UNCHANGED Promise!vars
  <2>1. want[t] \in Range /\ desc[t] \in Desc /\ UNCHANGED <<table, dying, desc>>
    BY <1>5 DEF AddLock, AddLockAndWait, TypeOK, Outside, Op
  <2>2. CASE ~Blocked(t) /\ locks' = Granted(t)
    <3>1. \E p \in Proc, r \in Range : Promise!Lock(p, Bytes(r))
      BY <2>1, <2>2, LockPromised
    <3> QED
      BY <3>1 DEF Promise!Next
  <2>3. CASE locks' = locks
    BY <1>1, <2>1, <2>3 DEF Live
  <2> QED
    BY <1>5, <2>2, <2>3 DEF AddLock, AddLockAndWait
<1>6. ASSUME NEW t \in Thread, Stir(t) \/ Exit(t) PROVE UNCHANGED Promise!vars
  BY <1>1, <1>6 DEF Stir, Exit, Live
<1>7. ASSUME NEW t \in Thread, Unlock(t) PROVE Promise!Next
  <2>1. \E p \in Proc, r \in Range : Promise!Unlock(p, Bytes(r))
    BY <1>7, UnlockPromised
  <2> QED
    BY <2>1 DEF Promise!Next
<1>8. ASSUME \E p \in Proc, d \in Desc : Promise!Close(p, d) PROVE Promise!Next
  BY <1>8 DEF Promise!Next
<1>9. ASSUME NEW t \in Thread, Remove(t) \/ Drop(t)
      PROVE  Promise!Next \/ UNCHANGED Promise!vars
  BY <1>8, <1>9, RemovePromised, DropPromised
<1>10. ASSUME NEW p \in Proc, CleanupProcess(p) PROVE UNCHANGED Promise!vars
  <2>1. /\ dying[p] = {} /\ UNCHANGED <<locks, desc>>
        /\ table'[p] = {} /\ dying'[p] = table[p]
        /\ \A q \in Proc \ {p} : table'[q] = table[q] /\ dying'[q] = dying[q]
    BY <1>10 DEF CleanupProcess, DyingAlone, TypeOK
  <2>2. \A q \in Proc : Live(q)' = Live(q)
    BY <2>1 DEF Live
  <2> QED
    BY <1>1, <2>1, <2>2
<1>11. ASSUME NEW p \in Proc, NEW d \in Desc, Destroy(p, d) PROVE Promise!Next
  BY <1>8, <1>11, DestroyPromised
<1> QED
  BY <1>2, <1>3, <1>4, <1>5, <1>6, <1>7, <1>9, <1>10, <1>11 DEF Next, Step

(* If no range lies strictly within another, the list of locks, the calls   *)
(* that sleep and retry, and the descriptors that live on in calls are not  *)
(* to be seen: a lock is granted and given back at one moment, byte by      *)
(* byte, and goes with the first descriptor that does.                      *)
THEOREM RecordLocksImplemented ==
  ASSUME NoneWithin
  PROVE  Spec => ImplementsRecordLocks
<1>1. Init => Promise!Init /\ DyingAlone
  <2> SUFFICES ASSUME Init PROVE Promise!Init /\ DyingAlone
    OBVIOUS
  <2>1. \A p \in Proc : Live(p) = {} /\ Held(p) = {}
    BY LockAssumption DEF Init, Live, Held
  <2>2. [p \in Proc |-> Live(p)] = [p \in Proc |-> {}]
    BY <2>1
  <2>3. [p \in Proc |-> Held(p)] = [p \in Proc |-> {}]
    BY <2>1
  <2> QED
    BY <2>2, <2>3 DEF Promise!Init, Live, Held, Init, DyingAlone
<1>2. TypeOK /\ TypeOK' /\ DyingAlone /\ [Next]_vars => DyingAlone'
  BY DyingStep
<1>3. TypeOK /\ DyingAlone /\ [Next]_vars => [Promise!Next]_Promise!vars
  BY PromiseStep
<1> QED
  BY <1>1, <1>2, <1>3, TypeCorrect, PTL DEF Spec, ImplementsRecordLocks, Promise!Spec
=============================================================================
