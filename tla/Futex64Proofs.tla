---------------------------- MODULE Futex64Proofs ----------------------------
(***************************************************************************)
(* Proofs about Futex64 for every number of threads, slots, processes and  *)
(* words: types, the inductive invariant behind the slots and the pending  *)
(* wakes, the size of the table, and sleepers on words that moved.         *)
(***************************************************************************)
EXTENDS Futex64, FiniteSetTheorems, TLAPS

(* The types of the calls that the invariant speaks of. *)
LEMMA CallFacts ==
  /\ \A c \in WaitCalls : c.addr \in Addr /\ c.cmd # "WAKE"
  /\ \A c \in WakeCalls \cup ExitCalls : c.addr \in Addr /\ c.val \in Nat \ {0}
  /\ \A a \in Addr : ExitWake(a) \in ExitCalls /\ ExitWake(a).addr = a
  /\ \A c \in CallType : /\ c.addr \in Addr \cup {NoAddr}
                         /\ c.mask \in SUBSET Bit
                         /\ c.timed \in BOOLEAN
<1>1. \A c \in WaitCalls : /\ c.addr \in Addr /\ c.cmd # "WAKE"
                           /\ c.mask \in SUBSET Bit /\ c.timed \in BOOLEAN
  BY DEF WaitCalls
<1>2. \A c \in WakeCalls : /\ c.addr \in Addr /\ c.val \in Nat \ {0}
                           /\ c.mask \in SUBSET Bit /\ c.timed \in BOOLEAN
  BY DEF WakeCalls
<1>3. \A c \in ExitCalls : /\ c.addr \in Addr /\ c.val \in Nat \ {0}
                           /\ c.mask \in SUBSET Bit /\ c.timed \in BOOLEAN
  <2> SUFFICES ASSUME NEW c \in ExitCalls
               PROVE  /\ c.addr \in Addr /\ c.val \in Nat \ {0}
                      /\ c.mask \in SUBSET Bit /\ c.timed \in BOOLEAN
    OBVIOUS
  <2>1. c.addr \in Addr /\ c.val \in {1} /\ c.mask \in {{}}
    BY DEF ExitCalls
  <2>2. c.timed \in {FALSE}
    BY DEF ExitCalls
  <2>3. c.timed \in BOOLEAN
    BY <2>2, Zenon
  <2> QED
    BY <2>1, <2>3
<1>4. \A a \in Addr : ExitWake(a) \in ExitCalls /\ ExitWake(a).addr = a
  BY DEF ExitCalls, ExitWake
<1>5. NoCall.addr = NoAddr /\ NoCall.mask \in SUBSET Bit /\ NoCall.timed \in BOOLEAN
  BY DEF NoCall
<1> QED
  BY <1>1, <1>2, <1>3, <1>4, <1>5 DEF CallType

-----------------------------------------------------------------------------
(* Type correctness *)

(* The initial state is typed. *)
LEMMA InitType == Init => TypeOK
<1> SUFFICES ASSUME Init PROVE TypeOK
  OBVIOUS
<1>1. pending \in [Key -> 0 .. 2] /\ scanPos \in 0 .. MaxFutexes /\ woken \in Nat
  BY FutexAssumption DEF Init
<1>2. futexes \in [Slot -> SlotType]
  <2>1. FreeSlot \in SlotType
    BY DEF FreeSlot, SlotType
  <2> QED
    BY <2>1 DEF Init
<1>3. call \in [Thread -> CallType]
  BY DEF Init, CallType
<1>4. pc \in [Thread -> PC] /\ kick \in [Thread -> KickState]
  BY DEF Init, PC, Waiting, KickState
<1> QED
  BY <1>1, <1>2, <1>3, <1>4, FutexAssumption DEF Init, TypeOK

(* Giving a slot back keeps the table, the calls and the places typed. *)
LEMMA LeaveWaitType ==
  ASSUME TypeOK, NEW t \in Thread, NEW s \in Slot, LeaveWait(t, s)
  PROVE  /\ futexes' \in [Slot -> SlotType]
         /\ pc' \in [Thread -> PC]
         /\ call' \in [Thread -> CallType]
<1>1. futexes' \in [Slot -> SlotType]
  <2>1. [futexes[s] EXCEPT !.thread = NoThread, !.address = NoAddr] \in SlotType
    BY DEF TypeOK, SlotType
  <2>2. futexes' = [futexes EXCEPT ![s] =
                      [futexes[s] EXCEPT !.thread = NoThread, !.address = NoAddr]]
    BY DEF LeaveWait, TypeOK
  <2> QED
    BY <2>1, <2>2 DEF TypeOK
<1>2. pc' \in [Thread -> PC]
  BY DEF LeaveWait, TypeOK, PC
<1>3. call' \in [Thread -> CallType]
  BY DEF LeaveWait, TypeOK, CallType
<1> QED
  BY <1>1, <1>2, <1>3

(* A turn of the wait loop keeps the types, whatever it finds. *)
LEMMA LoopTurnType ==
  ASSUME TypeOK, NEW t \in Thread, NEW s \in Slot, LoopTurn(t, s)
  PROVE  /\ futexes' \in [Slot -> SlotType]
         /\ pc' \in [Thread -> PC]
         /\ call' \in [Thread -> CallType]
         /\ signalled' \in [Thread -> BOOLEAN]
<1>1. CASE LeaveWait(t, s)
  BY <1>1, LeaveWaitType DEF LoopTurn, TypeOK
<1>2. CASE ~LeaveWait(t, s)
  BY <1>2 DEF LoopTurn, TypeOK, PC, Waiting
<1> QED
  BY <1>1, <1>2

(* Every step keeps the types. *)
LEMMA TypeStep == TypeOK /\ [Next]_vars => TypeOK'
<1> SUFFICES ASSUME TypeOK, [Next]_vars PROVE TypeOK'
  OBVIOUS
<1> USE DEF TypeOK
<1>1. ASSUME NEW t \in Thread, NEW c \in GuestWaits[t], Compare(t, c) PROVE TypeOK'
  BY <1>1, FutexAssumption DEF Compare, ending, PC, CallType
<1>2. ASSUME NEW t \in Thread, ConsumePending(t) PROVE TypeOK'
  <2>1. pending' \in [Key -> 0 .. 2]
    <3> DEFINE k == KeyOf(t)
    <3>1. pending[k] > 0 /\ pending' = [pending EXCEPT ![k] = pending[k] - 1]
      BY <1>2 DEF ConsumePending
    <3> HIDE DEF k
    <3>2. ASSUME k \in Key PROVE pending[k] - 1 \in 0 .. 2
      BY <3>1, <3>2
    <3> QED
      BY <3>1, <3>2
  <2> QED
    BY <1>2, <2>1 DEF ConsumePending, ending, PC, CallType
<1>3. ASSUME NEW t \in Thread, Register(t) PROVE TypeOK'
  <2>1. call[t] \in CallType
    OBVIOUS
  <2>2. futexes' \in [Slot -> SlotType]
    <3>1. PICK s \in Slot : futexes' = [futexes EXCEPT ![s] =
            [thread |-> t, address |-> call[t].addr, wake |-> FALSE,
             mask |-> {}, timed |-> call[t].timed]]
      BY <1>3 DEF Register, NewSlot
    <3>2. [thread |-> t, address |-> call[t].addr, wake |-> FALSE,
           mask |-> {}, timed |-> call[t].timed] \in SlotType
      BY <2>1, CallFacts DEF SlotType
    <3> QED
      BY <3>1, <3>2
  <2> QED
    <3>1. pc' \in [Thread -> PC]
      BY <1>3 DEF Register, NewSlot, PC, Waiting
    <3>2. UNCHANGED <<word, pending, bucket, scanPos, woken, call, signalled,
                      ending>>
      BY <1>3 DEF Register, NewSlot
    <3> QED
      BY <2>2, <3>1, <3>2 DEF ending
<1>4. ASSUME NEW t \in Thread, NEW s \in Slot, SetMask(t, s) PROVE TypeOK'
  <2>1. [futexes[s] EXCEPT !.mask = call[t].mask] \in SlotType
    <3>1. call[t].mask \in SUBSET Bit
      BY CallFacts
    <3>2. futexes[s] \in SlotType
      OBVIOUS
    <3> QED
      BY <3>1, <3>2 DEF SlotType
  <2>2. futexes' = [futexes EXCEPT ![s] = [futexes[s] EXCEPT !.mask = call[t].mask]]
    BY <1>4 DEF SetMask
  <2>3. futexes' \in [Slot -> SlotType]
    BY <2>1, <2>2
  <2> QED
    BY <1>4, <2>3 DEF SetMask, ending, PC, Waiting
<1>5. ASSUME NEW t \in Thread, NEW s \in Slot, Park(t, s) PROVE TypeOK'
  <2>1. CASE LeaveWait(t, s) /\ UNCHANGED signalled
    BY <1>5, <2>1, LeaveWaitType DEF Park, ending
  <2>2. CASE LoopTurn(t, s)
    BY <1>5, <2>2, LoopTurnType DEF Park, ending
  <2> QED
    BY <1>5, <2>1, <2>2 DEF Park
<1>6. ASSUME NEW t \in Thread, Sleep(t) \/ Stir(t) PROVE TypeOK'
  BY <1>6 DEF Sleep, Stir, ending, PC, Waiting
<1>7. ASSUME NEW t \in Thread, NEW s \in Slot, Resume(t, s) PROVE TypeOK'
  <2>1. CASE LeaveWait(t, s) /\ UNCHANGED signalled
    BY <1>7, <2>1, LeaveWaitType DEF Resume, ending
  <2>2. CASE LoopTurn(t, s)
    BY <1>7, <2>2, LoopTurnType DEF Resume, ending
  <2> QED
    BY <1>7, <2>1, <2>2 DEF Resume
<1>8. ASSUME NEW t \in Thread, NEW c \in GuestWakes, Alert(t, c) PROVE TypeOK'
  BY <1>8, FutexAssumption DEF Alert, IssueWake, ending, PC, CallType
<1>9. ASSUME NEW t \in Thread, NEW c \in GuestWakes, NEW w \in Word,
             StoreThenWake(t, c, w)
      PROVE  TypeOK'
  BY <1>9, FutexAssumption DEF StoreThenWake, IssueWake, ending, PC, CallType
<1>10. ASSUME NEW t \in Thread, WakeBegin(t) PROVE TypeOK'
  BY <1>10, FutexAssumption DEF WakeBegin, StartScan, ending, PC
<1>11. ASSUME NEW t \in Thread, WakeVisit(t) PROVE TypeOK'
  <2>1. scanPos \in Slot /\ scanPos' \in 0 .. MaxFutexes
    BY <1>11, FutexAssumption DEF WakeVisit, Slot
  <2>2. CASE Matches(t, scanPos)
    <3>1. [futexes[scanPos] EXCEPT !.wake = TRUE] \in SlotType
      BY <2>1 DEF SlotType
    <3>2. futexes' = [futexes EXCEPT ![scanPos] =
                        [futexes[scanPos] EXCEPT !.wake = TRUE]]
      BY <1>11, <2>2 DEF WakeVisit
    <3>3. futexes' \in [Slot -> SlotType]
      BY <2>1, <3>1, <3>2
    <3>4. pc' \in [Thread -> PC]
      BY <1>11, <2>2 DEF WakeVisit, Notify, PC, Waiting
    <3> QED
      BY <1>11, <2>1, <2>2, <3>3, <3>4 DEF WakeVisit, ending
  <2>3. CASE ~Matches(t, scanPos)
    BY <1>11, <2>1, <2>3 DEF WakeVisit, ending
  <2> QED
    BY <2>2, <2>3
<1>12. ASSUME NEW t \in Thread, WakeEnd(t) PROVE TypeOK'
  <2>1. pending' \in [Key -> 0 .. 2]
    <3> DEFINE k == KeyOf(t)
    <3>1. RecordPending(k) \/ UNCHANGED pending
      BY <1>12 DEF WakeEnd
    <3> HIDE DEF k
    <3>2. CASE pending[k] > 0
      <4>1. ASSUME k \in Key
            PROVE  (IF pending[k] < 2 THEN pending[k] + 1 ELSE pending[k]) \in 0 .. 2
        BY <4>1, <3>2
      <4> QED
        BY <3>1, <3>2, <4>1 DEF RecordPending
    <3>3. CASE pending[k] = 0
      BY <3>1, <3>3 DEF RecordPending, Recorded
    <3> QED
      BY <3>1, <3>2, <3>3 DEF RecordPending
  <2> QED
    BY <1>12, <2>1 DEF WakeEnd, ending, PC, CallType
<1>13. ASSUME NEW t \in Thread, PostSignal(t) \/ DeliverSignal(t) PROVE TypeOK'
  BY <1>13 DEF PostSignal, DeliverSignal, ending
<1>14. ASSUME NEW t \in Thread, Exit(t) PROVE TypeOK'
  <2>1. CASE ClearTid[t] = NoAddr
    BY <1>14, <2>1 DEF Exit, ending, PC, CallType
  <2>2. CASE ClearTid[t] # NoAddr
    <3>1. ClearTid[t] \in Addr /\ ExitWake(ClearTid[t]) \in CallType
      BY <2>2, FutexAssumption, CallFacts DEF CallType
    <3> QED
      BY <1>14, <2>2, <3>1, FutexAssumption DEF Exit, IssueWake, ending, PC
  <2> QED
    BY <2>1, <2>2
<1>15. ASSUME NEW t \in Thread, NEW parent \in Thread, NEW w \in Word,
              Clone(parent, t, w)
       PROVE  TypeOK'
  <2>1. word' \in [Addr -> Word]
    BY <1>15 DEF Clone
  <2>2. cleanups' \in [Thread -> Int]
    BY <1>15, FutexAssumption DEF Clone
  <2> QED
    BY <1>15, <2>1, <2>2 DEF Clone, PC
<1>16. ASSUME NEW t \in Thread, Terminate(t) PROVE TypeOK'
  <2>1. CASE TerminateFlag(t)
    BY <2>1 DEF TerminateFlag, KickState
  <2>2. CASE TerminateRead(t)
    BY <2>2 DEF TerminateRead, KickState
  <2>3. CASE TerminateSignal(t)
    BY <2>3 DEF TerminateSignal, Notify, KickState, PC, Waiting
  <2> QED
    BY <1>16, <2>1, <2>2, <2>3 DEF Terminate
<1>17. CASE UNCHANGED vars
  BY <1>17 DEF vars, ending
<1> QED
  BY <1>1, <1>2, <1>3, <1>4, <1>5, <1>6, <1>7, <1>8, <1>9, <1>10, <1>11, <1>12,
     <1>13, <1>14, <1>15, <1>16, <1>17 DEF Next, Wait, Wake

(* Every reachable state is well typed: in particular the table of pending *)
(* wakes never counts past its cap and the scan never leaves the table.    *)
THEOREM TypeCorrect == Spec => []TypeOK
BY InitType, TypeStep, PTL DEF Spec

-----------------------------------------------------------------------------
(* The inductive invariant *)

(* The invariant holds at the start. *)
LEMMA InitInv == Init => FutexInv
<1> SUFFICES ASSUME Init PROVE FutexInv
  OBVIOUS
<1>1. \A t \in Thread : pc[t] \in {"user", "dead"}
  BY DEF Init
<1>2. \A t \in Thread, s \in Slot : ~Owns(t, s)
  BY FutexAssumption DEF Init, Owns, FreeSlot
<1>3. bucket \notin Thread
  BY FutexAssumption DEF Init
<1> QED
  BY <1>1, <1>2, <1>3 DEF FutexInv, CallsMatchPC, SlotOwnership, OwnsSlot,
     SlotAddress, BucketOwner, NothingLeftBehind, NoParkOverPending, Waiting

(* Threads move within WAIT and slots keep their owners: nothing but the   *)
(* scan's own bookkeeping can be disturbed.                                *)
LEMMA StayCore ==
  ASSUME TypeOK, FutexInv, UNCHANGED <<pending, bucket, call>>,
         \A t \in Thread : pc'[t] = pc[t] \/ (pc[t] \in Waiting /\ pc'[t] \in Waiting),
         \A s \in Slot : /\ futexes'[s].thread = futexes[s].thread
                         /\ futexes'[s].address = futexes[s].address
                         /\ futexes[s].wake => futexes'[s].wake
  PROVE  /\ CallsMatchPC' /\ SlotOwnership' /\ SlotAddress' /\ BucketOwner'
         /\ NoParkOverPending'
<1>1. \A t \in Thread, s \in Slot : Owns(t, s)' <=> Owns(t, s)
  BY DEF Owns
<1>2. \A t \in Thread : /\ pc'[t] \in Waiting <=> pc[t] \in Waiting
                        /\ pc'[t] = "scan" <=> pc[t] = "scan"
                        /\ pc'[t] = "compared" <=> pc[t] = "compared"
                        /\ pc'[t] = "wakecall" <=> pc[t] = "wakecall"
  BY DEF Waiting
<1>3. CallsMatchPC'
  BY <1>2 DEF FutexInv, CallsMatchPC
<1>4. SlotOwnership'
  BY <1>1, <1>2 DEF FutexInv, SlotOwnership, OwnsSlot
<1>5. SlotAddress'
  BY <1>1 DEF FutexInv, SlotAddress
<1>6. BucketOwner'
  BY <1>2 DEF FutexInv, BucketOwner
<1>7. NoParkOverPending'
  BY <1>1 DEF FutexInv, NoParkOverPending, KeyOf
<1> QED
  BY <1>3, <1>4, <1>5, <1>6, <1>7

(* A step that leaves what the invariant is about alone keeps it. *)
LEMMA StayInv ==
  ASSUME TypeOK, FutexInv, UNCHANGED <<pending, bucket, call, scanPos, woken>>,
         \A t \in Thread : pc'[t] = pc[t] \/ (pc[t] \in Waiting /\ pc'[t] \in Waiting),
         \A s \in Slot : /\ futexes'[s].thread = futexes[s].thread
                         /\ futexes'[s].address = futexes[s].address
                         /\ futexes[s].wake => futexes'[s].wake
  PROVE  FutexInv'
<1>1. \A t \in Thread, s \in Slot : Owns(t, s)' <=> Owns(t, s)
  BY DEF Owns
<1>2. \A t \in Thread : pc'[t] = "scan" <=> pc[t] = "scan"
  BY DEF Waiting
<1>3. NothingLeftBehind'
  BY <1>1, <1>2 DEF FutexInv, NothingLeftBehind, KeyOf
<1> QED
  BY <1>3, StayCore DEF FutexInv

(* A thread that gives its slot back owns no other. *)
LEMMA LeaveWaitInv ==
  ASSUME TypeOK, FutexInv, NEW t \in Thread, NEW s \in Slot, Owns(t, s),
         LeaveWait(t, s), UNCHANGED <<pending, bucket, scanPos, woken>>
  PROVE  FutexInv'
<1>1. /\ pc[t] \in Waiting
      /\ pc' = [pc EXCEPT ![t] = "user"]
      /\ call' = [call EXCEPT ![t] = NoCall]
  BY DEF FutexInv, SlotOwnership, OwnsSlot, LeaveWait
<1>2. \A s2 \in Slot :
        /\ futexes'[s2].thread = IF s2 = s THEN NoThread ELSE futexes[s2].thread
        /\ futexes'[s2].wake = futexes[s2].wake
        /\ s2 # s => futexes'[s2] = futexes[s2]
  BY DEF LeaveWait, TypeOK, SlotType
<1>3. \A u \in Thread, s2 \in Slot : Owns(u, s2)' <=> Owns(u, s2) /\ u # t
  <2> SUFFICES ASSUME NEW u \in Thread, NEW s2 \in Slot
               PROVE  Owns(u, s2)' <=> Owns(u, s2) /\ u # t
    OBVIOUS
  <2>1. Owns(t, s2) => s2 = s
    BY DEF FutexInv, SlotOwnership
  <2> QED
    BY <1>2, <2>1, FutexAssumption DEF Owns
<1>4. \A u \in Thread : u # t => pc'[u] = pc[u] /\ call'[u] = call[u]
  BY <1>1 DEF TypeOK
<1>5. pc'[t] = "user"
  BY <1>1 DEF TypeOK
<1>6. CallsMatchPC'
  BY <1>4, <1>5 DEF FutexInv, CallsMatchPC, Waiting
<1>7. SlotOwnership'
  BY <1>3, <1>4, <1>5 DEF FutexInv, SlotOwnership, OwnsSlot, Waiting
<1>8. SlotAddress'
  BY <1>2, <1>3, <1>4 DEF FutexInv, SlotAddress, Owns
<1>9. BucketOwner'
  BY <1>1, <1>4, <1>5 DEF FutexInv, BucketOwner, Waiting
<1>10. NothingLeftBehind'
  BY <1>2, <1>3, <1>4, <1>5 DEF FutexInv, NothingLeftBehind, KeyOf
<1>11. NoParkOverPending'
  BY <1>2, <1>3, <1>4 DEF FutexInv, NoParkOverPending, KeyOf
<1> QED
  BY <1>6, <1>7, <1>8, <1>9, <1>10, <1>11 DEF FutexInv

(* A turn of the wait loop keeps the invariant. *)
LEMMA LoopTurnInv ==
  ASSUME TypeOK, FutexInv, NEW t \in Thread, NEW s \in Slot, Owns(t, s),
         LoopTurn(t, s), UNCHANGED <<pending, bucket, scanPos, woken>>
  PROVE  FutexInv'
<1>1. CASE LeaveWait(t, s)
  BY <1>1, LeaveWaitInv
<1>2. CASE ~LeaveWait(t, s)
  <2>1. pc[t] \in Waiting
    BY DEF FutexInv, SlotOwnership, OwnsSlot
  <2>2. \A u \in Thread : pc'[u] = pc[u] \/ (pc[u] \in Waiting /\ pc'[u] \in Waiting)
    BY <1>2, <2>1 DEF LoopTurn, TypeOK, Waiting
  <2> QED
    BY <1>2, <2>2, StayInv DEF LoopTurn
<1> QED
  BY <1>1, <1>2

(* A thread outside WAIT, and not scanning, moves to another such place.   *)
LEMMA OutsideInv ==
  ASSUME TypeOK, FutexInv, UNCHANGED <<futexes, bucket, scanPos, woken>>,
         NEW t \in Thread,
         pc[t] \notin Waiting \cup {"scan"}, pc'[t] \notin Waiting \cup {"scan"},
         \A u \in Thread : u # t => pc'[u] = pc[u] /\ call'[u] = call[u],
         pc'[t] = "compared" => call'[t] \in WaitCalls,
         pc'[t] = "wakecall" => call'[t] \in WakeCalls \cup ExitCalls,
         \A k \in Key : pending[k] = 0 => pending'[k] = 0
  PROVE  FutexInv'
<1>1. \A u \in Thread, s \in Slot : /\ Owns(u, s)' <=> Owns(u, s)
                                    /\ ~Owns(t, s)
  BY DEF Owns, FutexInv, SlotOwnership, OwnsSlot
<1>2. CallsMatchPC'
  BY DEF FutexInv, CallsMatchPC
<1>3. SlotOwnership'
  BY <1>1 DEF FutexInv, SlotOwnership, OwnsSlot
<1>4. SlotAddress'
  BY <1>1 DEF FutexInv, SlotAddress
<1>5. BucketOwner'
  BY DEF FutexInv, BucketOwner
<1>6. NothingLeftBehind'
  BY <1>1 DEF FutexInv, NothingLeftBehind, KeyOf
<1>7. NoParkOverPending'
  <2> SUFFICES ASSUME NEW u \in Thread, NEW s \in Slot, Owns(u, s), ~futexes[s].wake,
                      u # t
               PROVE  pending'[KeyOf(u)'] = 0
    BY <1>1 DEF NoParkOverPending
  <2>1. KeyOf(u)' = KeyOf(u)
    BY DEF KeyOf
  <2>2. KeyOf(u) \in Key
    <3>1. call[u] \in WaitCalls
      BY DEF FutexInv, SlotOwnership, OwnsSlot, CallsMatchPC
    <3> QED
      BY <3>1, CallFacts, FutexAssumption DEF KeyOf, Key
  <2> QED
    BY <2>1, <2>2 DEF FutexInv, NoParkOverPending
<1> QED
  BY <1>2, <1>3, <1>4, <1>5, <1>6, <1>7 DEF FutexInv

(* Registration: the bucket lock is free, so no scan is under way, and no  *)
(* wake is pending for the key.                                            *)
LEMMA RegisterInv ==
  ASSUME TypeOK, FutexInv, NEW t \in Thread, Register(t)
  PROVE  FutexInv'
<1>1. PICK s \in Slot :
        /\ futexes[s].thread = NoThread
        /\ futexes' = [futexes EXCEPT ![s] =
            [thread |-> t, address |-> call[t].addr, wake |-> FALSE,
             mask |-> {}, timed |-> call[t].timed]]
  BY DEF Register, NewSlot
<1>2. /\ pc[t] = "compared" /\ bucket = NoThread /\ pending[KeyOf(t)] = 0
      /\ pc'[t] \in {"registered", "parking"}
      /\ \A u \in Thread : u # t => pc'[u] = pc[u]
      /\ UNCHANGED <<pending, bucket, call>>
  BY DEF Register, NewSlot, TypeOK
<1>3. /\ futexes'[s].thread = t
      /\ futexes'[s].address = call[t].addr
      /\ \A s2 \in Slot : s2 # s => futexes'[s2] = futexes[s2]
  BY <1>1 DEF TypeOK
<1>4. \A u \in Thread, s2 \in Slot :
        Owns(u, s2)' <=> Owns(u, s2) \/ (u = t /\ s2 = s)
  BY <1>1, <1>3, FutexAssumption DEF Owns
<1>5. \A s2 \in Slot : ~Owns(t, s2)
  BY <1>2 DEF FutexInv, SlotOwnership, OwnsSlot, Waiting
<1>6. \A u \in Thread : pc[u] # "scan" /\ pc'[u] # "scan"
  BY <1>2, FutexAssumption DEF FutexInv, BucketOwner
<1>7. CallsMatchPC'
  BY <1>2 DEF FutexInv, CallsMatchPC, Waiting
<1>8. SlotOwnership'
  BY <1>2, <1>4, <1>5 DEF FutexInv, SlotOwnership, OwnsSlot, Waiting
<1>9. SlotAddress'
  BY <1>1, <1>2, <1>3, <1>4 DEF FutexInv, SlotAddress, Owns
<1>10. BucketOwner' /\ NothingLeftBehind'
  BY <1>2, <1>6, FutexAssumption DEF BucketOwner, NothingLeftBehind
<1>11. NoParkOverPending'
  BY <1>1, <1>2, <1>3, <1>4, FutexAssumption
  DEF FutexInv, NoParkOverPending, KeyOf, Owns
<1> QED
  BY <1>7, <1>8, <1>9, <1>10, <1>11 DEF FutexInv

(* So does the walk a wake makes over the slots. *)
LEMMA WakeBeginInv ==
  ASSUME TypeOK, FutexInv, NEW t \in Thread, WakeBegin(t)
  PROVE  FutexInv'
<1>1. /\ pc[t] = "wakecall" /\ pc'[t] = "scan" /\ bucket = NoThread /\ bucket' = t
      /\ \A u \in Thread : u # t => pc'[u] = pc[u]
      /\ scanPos' = 0
      /\ UNCHANGED <<futexes, pending, call>>
  BY DEF WakeBegin, StartScan, TypeOK
<1>2. \A u \in Thread, s \in Slot : Owns(u, s)' <=> Owns(u, s)
  BY <1>1 DEF Owns
<1>3. CallsMatchPC'
  BY <1>1 DEF FutexInv, CallsMatchPC, Waiting
<1>4. SlotOwnership'
  BY <1>1, <1>2 DEF FutexInv, SlotOwnership, OwnsSlot, Waiting
<1>5. SlotAddress' /\ NoParkOverPending'
  BY <1>1, <1>2 DEF FutexInv, SlotAddress, NoParkOverPending, KeyOf
<1>6. BucketOwner'
  BY <1>1, FutexAssumption DEF FutexInv, BucketOwner
<1>7. NothingLeftBehind'
  BY <1>1 DEF NothingLeftBehind, Slot
<1> QED
  BY <1>3, <1>4, <1>5, <1>6, <1>7 DEF FutexInv

(* One slot of the scan: a waiter of the key is flagged, and what is       *)
(* passed over does not wait on the key.                                   *)
LEMMA WakeVisitInv ==
  ASSUME TypeOK, FutexInv, NEW t \in Thread, WakeVisit(t)
  PROVE  FutexInv'
<1>1. /\ pc[t] = "scan" /\ scanPos \in Slot /\ bucket = t
      /\ UNCHANGED <<pending, bucket, call>>
      /\ scanPos' = scanPos + 1
  BY FutexAssumption DEF WakeVisit, TypeOK, Slot, FutexInv, BucketOwner
<1>2. \A u \in Thread : pc[u] = "scan" => u = t
  BY <1>1 DEF FutexInv, BucketOwner
<1>3. CASE Matches(t, scanPos)
  <2>1. /\ futexes' = [futexes EXCEPT ![scanPos].wake = TRUE]
        /\ woken' = woken + 1
        /\ Notify(scanPos)
    BY <1>3 DEF WakeVisit
  <2>2. \A u \in Thread : pc'[u] = pc[u] \/ (pc[u] \in Waiting /\ pc'[u] \in Waiting)
    BY <2>1 DEF Notify, Waiting
  <2>3. \A s \in Slot : /\ futexes'[s].thread = futexes[s].thread
                        /\ futexes'[s].address = futexes[s].address
                        /\ futexes[s].wake => futexes'[s].wake
    <3>1. /\ futexes'[scanPos] = [futexes[scanPos] EXCEPT !.wake = TRUE]
          /\ \A s \in Slot : s # scanPos => futexes'[s] = futexes[s]
      BY <1>1, <2>1 DEF TypeOK
    <3>2. futexes[scanPos] \in SlotType
      BY <1>1 DEF TypeOK
    <3>3. /\ futexes'[scanPos].thread = futexes[scanPos].thread
          /\ futexes'[scanPos].address = futexes[scanPos].address
          /\ futexes'[scanPos].wake
      BY <3>1, <3>2 DEF SlotType
    <3> QED
      BY <3>1, <3>3
  <2>4. woken' # 0
    BY <2>1 DEF TypeOK
  <2> QED
    BY <1>1, <2>2, <2>3, <2>4, StayCore DEF FutexInv, NothingLeftBehind
<1>4. CASE ~Matches(t, scanPos)
  <2>1. UNCHANGED <<futexes, pc, woken>>
    BY <1>4 DEF WakeVisit
  <2>2. \A u \in Thread, s \in Slot : Owns(u, s)' <=> Owns(u, s)
    BY <2>1 DEF Owns
  <2>3. NothingLeftBehind'
    <3> SUFFICES ASSUME NEW u \in Thread, NEW s \in Slot, woken = 0,
                        call[t].cmd = "WAKE", s < scanPos + 1, Owns(u, s),
                        ~futexes[s].wake
                 PROVE  KeyOf(u) # KeyOf(t)
      BY <1>1, <1>2, <2>1, <2>2 DEF NothingLeftBehind, KeyOf
    <3>1. CASE s < scanPos
      BY <1>1, <3>1 DEF FutexInv, NothingLeftBehind
    <3>2. CASE s = scanPos
      <4>1. futexes[s].thread = u /\ futexes[s].address = call[u].addr
        BY DEF FutexInv, SlotAddress, Owns
      <4> QED
        BY <1>4, <3>2, <4>1, FutexAssumption DEF Matches, KeyOf
    <3> QED
      BY <1>1, <3>1, <3>2 DEF Slot, TypeOK
  <2> QED
    BY <1>1, <2>1, <2>3, StayCore DEF FutexInv
<1> QED
  BY <1>3, <1>4

(* A wake is recorded only after the whole table was passed over.          *)
LEMMA WakeEndInv ==
  ASSUME TypeOK, FutexInv, NEW t \in Thread, WakeEnd(t)
  PROVE  FutexInv'
<1>1. /\ pc[t] = "scan" /\ bucket = t /\ bucket' = NoThread
      /\ UNCHANGED futexes
      /\ pc'[t] \in {"user", "cleanup", "dead"}
      /\ \A u \in Thread : u # t => pc'[u] = pc[u] /\ call'[u] = call[u]
  BY DEF WakeEnd, TypeOK, FutexInv, BucketOwner
<1>2. \A u \in Thread, s \in Slot : (Owns(u, s)' <=> Owns(u, s)) /\ ~Owns(t, s)
  BY <1>1 DEF Owns, FutexInv, SlotOwnership, OwnsSlot, Waiting
<1>3. \A u \in Thread : pc'[u] # "scan"
  BY <1>1 DEF FutexInv, BucketOwner
<1>4. CallsMatchPC'
  BY <1>1 DEF FutexInv, CallsMatchPC, Waiting
<1>5. SlotOwnership'
  BY <1>1, <1>2 DEF FutexInv, SlotOwnership, OwnsSlot, Waiting
<1>6. SlotAddress'
  BY <1>1, <1>2 DEF FutexInv, SlotAddress
<1>7. BucketOwner' /\ NothingLeftBehind'
  BY <1>1, <1>3, FutexAssumption DEF BucketOwner, NothingLeftBehind
<1>8. NoParkOverPending'
  <2> SUFFICES ASSUME NEW u \in Thread, NEW s \in Slot, Owns(u, s), ~futexes[s].wake,
                      u # t
               PROVE  pending'[KeyOf(u)'] = 0
    BY <1>1, <1>2 DEF NoParkOverPending
  <2>1. KeyOf(u)' = KeyOf(u)
    BY <1>1 DEF KeyOf
  <2>2. KeyOf(u) \in Key
    <3>1. call[u] \in WaitCalls
      BY DEF FutexInv, SlotOwnership, OwnsSlot, CallsMatchPC
    <3> QED
      BY <3>1, CallFacts, FutexAssumption DEF KeyOf, Key
  <2>3. pending[KeyOf(u)] = 0
    BY DEF FutexInv, NoParkOverPending
  <2>4. CASE UNCHANGED pending
    BY <2>1, <2>3, <2>4
  <2>5. CASE woken = 0 /\ call[t].cmd = "WAKE" /\ RecordPending(KeyOf(t))
    <3>1. call[t].val \in Nat \ {0}
      BY <1>1, CallFacts DEF FutexInv, CallsMatchPC
    <3>2. s < scanPos
      BY <2>5, <3>1, FutexAssumption DEF WakeEnd, Slot
    <3>3. KeyOf(u) # KeyOf(t)
      BY <1>1, <2>5, <3>2 DEF FutexInv, NothingLeftBehind
    <3>4. \A k \in Key : k # KeyOf(t) => pending'[k] = pending[k] \/ pending'[k] = 0
      <4> DEFINE kt == KeyOf(t)
      <4>1. RecordPending(kt)
        BY <2>5
      <4> HIDE DEF kt
      <4>2. \A k \in Key : k # kt => pending'[k] = pending[k] \/ pending'[k] = 0
        <5>1. CASE pending[kt] > 0
          BY <4>1, <5>1 DEF RecordPending, TypeOK
        <5>2. CASE ~(pending[kt] > 0)
          BY <4>1, <5>2 DEF RecordPending, Recorded, TypeOK
        <5> QED
          BY <5>1, <5>2
      <4> QED
        BY <4>2 DEF kt
    <3> QED
      BY <2>1, <2>2, <2>3, <3>3, <3>4
  <2> QED
    BY <2>4, <2>5 DEF WakeEnd
<1> QED
  BY <1>4, <1>5, <1>6, <1>7, <1>8 DEF FutexInv

(* Every step keeps the invariant. *)
LEMMA InvStep == TypeOK /\ FutexInv /\ [Next]_vars => FutexInv'
<1> SUFFICES ASSUME TypeOK, FutexInv, [Next]_vars PROVE FutexInv'
  OBVIOUS
<1>1. ASSUME NEW t \in Thread, NEW c \in GuestWaits[t], Compare(t, c) PROVE FutexInv'
  <2>1. c \in WaitCalls
    BY FutexAssumption
  <2> QED
    BY <1>1, <2>1, OutsideInv DEF Compare, TypeOK, Waiting
<1>2. ASSUME NEW t \in Thread, ConsumePending(t) PROVE FutexInv'
  <2>1. \A k \in Key : pending[k] = 0 => pending'[k] = 0
    <3> DEFINE kt == KeyOf(t)
    <3>1. pending[kt] > 0 /\ pending' = [pending EXCEPT ![kt] = pending[kt] - 1]
      BY <1>2 DEF ConsumePending
    <3> HIDE DEF kt
    <3> QED
      BY <3>1 DEF TypeOK
  <2> QED
    BY <1>2, <2>1, OutsideInv DEF ConsumePending, TypeOK, Waiting
<1>3. ASSUME NEW t \in Thread, Register(t) PROVE FutexInv'
  BY <1>3, RegisterInv
<1>4. ASSUME NEW t \in Thread, NEW s \in Slot, SetMask(t, s) PROVE FutexInv'
  <2>1. \A u \in Thread : pc'[u] = pc[u] \/ (pc[u] \in Waiting /\ pc'[u] \in Waiting)
    BY <1>4 DEF SetMask, TypeOK, Waiting
  <2>2. \A s2 \in Slot : /\ futexes'[s2].thread = futexes[s2].thread
                         /\ futexes'[s2].address = futexes[s2].address
                         /\ futexes[s2].wake => futexes'[s2].wake
    <3>1. /\ futexes'[s] = [futexes[s] EXCEPT !.mask = call[t].mask]
          /\ \A s2 \in Slot : s2 # s => futexes'[s2] = futexes[s2]
      BY <1>4 DEF SetMask, TypeOK
    <3>2. futexes[s] \in SlotType
      BY DEF TypeOK
    <3> QED
      BY <3>1, <3>2 DEF SlotType
  <2> QED
    BY <1>4, <2>1, <2>2, StayInv DEF SetMask
<1>5. ASSUME NEW t \in Thread, NEW s \in Slot, Park(t, s) PROVE FutexInv'
  BY <1>5, LeaveWaitInv, LoopTurnInv DEF Park
<1>6. ASSUME NEW t \in Thread, Sleep(t) \/ Stir(t) PROVE FutexInv'
  BY <1>6, StayInv DEF Sleep, Stir, TypeOK, Waiting
<1>7. ASSUME NEW t \in Thread, NEW s \in Slot, Resume(t, s) PROVE FutexInv'
  BY <1>7, LeaveWaitInv, LoopTurnInv DEF Resume
<1>8. ASSUME NEW t \in Thread, NEW c \in GuestWakes,
             Alert(t, c) \/ \E w \in Word : StoreThenWake(t, c, w)
      PROVE  FutexInv'
  <2>1. c \in WakeCalls
    BY FutexAssumption
  <2> QED
    BY <1>8, <2>1, OutsideInv DEF Alert, StoreThenWake, IssueWake, TypeOK, Waiting
<1>9. ASSUME NEW t \in Thread, WakeBegin(t) PROVE FutexInv'
  BY <1>9, WakeBeginInv
<1>10. ASSUME NEW t \in Thread, WakeVisit(t) PROVE FutexInv'
  BY <1>10, WakeVisitInv
<1>11. ASSUME NEW t \in Thread, WakeEnd(t) PROVE FutexInv'
  BY <1>11, WakeEndInv
<1>12. ASSUME NEW t \in Thread, PostSignal(t) \/ DeliverSignal(t) PROVE FutexInv'
  BY <1>12, StayInv DEF PostSignal, DeliverSignal
<1>13. ASSUME NEW t \in Thread, Exit(t) PROVE FutexInv'
  <2>1. CASE ClearTid[t] = NoAddr
    BY <1>13, <2>1, OutsideInv DEF Exit, Exits, TypeOK, Waiting
  <2>2. CASE ClearTid[t] # NoAddr
    <3>1. ExitWake(ClearTid[t]) \in ExitCalls
      BY <2>2, FutexAssumption, CallFacts
    <3> QED
      BY <1>13, <2>2, <3>1, OutsideInv DEF Exit, Exits, IssueWake, TypeOK, Waiting
  <2> QED
    BY <2>1, <2>2
<1>14. ASSUME NEW t \in Thread, NEW parent \in Thread, NEW w \in Word,
              Clone(parent, t, w)
       PROVE  FutexInv'
  BY <1>14, OutsideInv DEF Clone, TypeOK, Waiting
<1>15. ASSUME NEW t \in Thread, Terminate(t) PROVE FutexInv'
  <2>1. CASE TerminateFlag(t) \/ TerminateRead(t)
    BY <2>1, StayInv DEF TerminateFlag, TerminateRead
  <2>2. CASE TerminateSignal(t)
    BY <2>2, StayInv DEF TerminateSignal, Notify, TypeOK, Waiting
  <2> QED
    BY <1>15, <2>1, <2>2 DEF Terminate
<1>16. CASE UNCHANGED vars
  BY <1>16, StayInv DEF vars
<1> QED
  BY <1>1, <1>2, <1>3, <1>4, <1>5, <1>6, <1>7, <1>8, <1>9, <1>10, <1>11, <1>12,
     <1>13, <1>14, <1>15, <1>16 DEF Next, Wait, Wake

(* The inductive invariant holds in every reachable state, whatever guests *)
(* call and however the critical sections of WAIT and WAKE interleave.     *)
THEOREM InvCorrect == Spec => []FutexInv
BY InitType, TypeStep, InitInv, InvStep, PTL DEF Spec

(* No path out of futex64 leaks its slot of system_futex[] and no thread   *)
(* ever holds two: exactly the threads inside a registered WAIT own one.   *)
THEOREM SlotsCorrect == Spec => []SlotOwnership
<1>1. FutexInv => SlotOwnership
  BY DEF FutexInv
<1> QED
  BY InvCorrect, <1>1, PTL

(* The promise of gPendingWakes' comment: no thread is parked, unwoken,    *)
(* over a wake recorded for its process and address.                       *)
THEOREM BridgeHolds == Spec => []NoParkOverPending
<1>1. FutexInv => NoParkOverPending
  BY DEF FutexInv
<1> QED
  BY InvCorrect, <1>1, PTL

-----------------------------------------------------------------------------
(* The table is large enough *)

(* With as many slots as threads allocFutex always finds one: the table    *)
(* could run out only if a WAIT kept its slot, or took a second.           *)
THEOREM TableSuffices ==
  ASSUME IsFiniteSet(Thread), Cardinality(Thread) <= MaxFutexes
  PROVE  Spec => []NoTableExhaustion
<1>1. TypeOK /\ FutexInv => NoTableExhaustion
  <2> SUFFICES ASSUME TypeOK, FutexInv, NEW t \in Thread, pc[t] = "compared",
                      \A s \in Slot : futexes[s].thread # NoThread
               PROVE  FALSE
    BY DEF NoTableExhaustion
  <2> DEFINE owner == [s \in Slot |-> futexes[s].thread]
             Others == Thread \ {t}
  <2>1. \A s \in Slot : futexes[s].thread \in Thread
    BY DEF TypeOK, SlotType
  <2>2. \A s \in Slot : futexes[s].thread # t
    BY DEF FutexInv, SlotOwnership, OwnsSlot, Owns, Waiting
  <2>3. owner \in [Slot -> Others]
    BY <2>1, <2>2
  <2>4. IsFiniteSet(Slot) /\ Cardinality(Slot) = MaxFutexes
    BY FS_Interval, FutexAssumption DEF Slot
  <2>5. IsFiniteSet(Others) /\ Cardinality(Others) = Cardinality(Thread) - 1
    BY FS_RemoveElement
  <2>6. Cardinality(Thread) \in Nat /\ MaxFutexes \in Nat
    BY FS_CardinalityType, FutexAssumption
  <2>7. Cardinality(Others) < Cardinality(Slot)
    BY <2>4, <2>5, <2>6
  <2> HIDE DEF Others, owner
  <2>8. PICK s1, s2 \in Slot : s1 # s2 /\ owner[s1] = owner[s2]
    BY <2>3, <2>4, <2>5, <2>7, FS_PigeonHole
  <2>9. Owns(futexes[s1].thread, s1) /\ Owns(futexes[s1].thread, s2)
    BY <2>8 DEF owner, Owns
  <2> QED
    BY <2>1, <2>8, <2>9 DEF FutexInv, SlotOwnership
<1> QED
  BY <1>1, TypeCorrect, InvCorrect, PTL

-----------------------------------------------------------------------------
(* Nobody sleeps on a word that moved *)

(* Guests that wake everyone: each WAKE is for more waiters than there are *)
(* slots, and its mask meets those of the waits on its word.  They share   *)
(* one process, none is killed, and no wait is for the word that the exit  *)
(* of a thread clears, for which the kernel wakes one thread only.         *)
WakesEveryone ==
  /\ \A t, u \in Thread : ProcOf[t] = ProcOf[u]
  /\ Killable = {}
  /\ \A t \in Thread : \A c \in GuestWaits[t] :
       /\ \A u \in Thread : ClearTid[u] # c.addr
       /\ \A d \in GuestWakes : d.addr = c.addr =>
            /\ d.val >= MaxFutexes
            /\ d.cmd = "WAKE_BITSET" =>
                 c.cmd = "WAIT_BITSET" /\ c.mask \cap d.mask # {}

\* places of a WAIT past the second read of the word
Late == {"checked", "asleep", "notified"}

Stale(t, s) ==
  /\ Owns(t, s)
  /\ ~futexes[s].wake
  /\ pc[t] \in Late
  /\ word[call[t].addr] # call[t].val

(* Where calls come from, what a late waiter's mask is, how far a scan     *)
(* counts; and NoStaleSleeper, for threads that are resuming too.          *)
CallsInv ==
  \A t \in Thread :
    /\ pc[t] \in Waiting \cup {"compared"} => call[t] \in GuestWaits[t]
    /\ pc[t] \in {"wakecall", "scan"} =>
         call[t] \in GuestWakes \/ \E u \in Thread : call[t].addr = ClearTid[u]
MaskInv ==
  \A t \in Thread, s \in Slot :
    Owns(t, s) /\ pc[t] \in Late \cup {"parking"} /\ call[t].cmd = "WAIT_BITSET"
      => futexes[s].mask = call[t].mask
AliveInv == \A t \in Thread : ~terminating[t]
CountInv == woken <= scanPos
StaleInv ==
  \A t \in Thread, s \in Slot : Stale(t, s) => \E u \in Thread : AboutToVisit(u, t, s)

SleepInv == CallsInv /\ MaskInv /\ AliveInv /\ CountInv /\ StaleInv

(* A step after which every stale sleeper was one before, and whoever was  *)
(* about to visit it still is.                                             *)
LEMMA StillStale ==
  ASSUME StaleInv,
         \A t \in Thread, s \in Slot : Stale(t, s)' =>
           /\ Stale(t, s)
           /\ \A u \in Thread : AboutToVisit(u, t, s) => AboutToVisit(u, t, s)'
  PROVE  StaleInv'
BY DEF StaleInv

(* A step that moves one thread outside the scan and outside the late      *)
(* places of a WAIT, and changes no word that anyone waits on.             *)
LEMMA OutsideStale ==
  ASSUME TypeOK, FutexInv, StaleInv, NEW t \in Thread,
         UNCHANGED <<scanPos, woken>>,
         pc[t] \notin {"wakecall", "scan"}, pc'[t] \notin Late,
         \A u \in Thread : u # t => pc'[u] = pc[u] /\ call'[u] = call[u],
         \A u \in Thread, s \in Slot : u # t /\ Owns(u, s)' =>
           /\ Owns(u, s)
           /\ futexes'[s].wake = futexes[s].wake
           /\ word'[call[u].addr] = word[call[u].addr]
  PROVE  StaleInv'
<1>1. ASSUME NEW v \in Thread, NEW s \in Slot, Stale(v, s)'
      PROVE  /\ Stale(v, s)
             /\ \A u \in Thread : AboutToVisit(u, v, s) => AboutToVisit(u, v, s)'
  <2>1. v # t
    BY <1>1 DEF Stale
  <2>2. Stale(v, s)
    BY <1>1, <2>1 DEF Stale
  <2>3. \A u \in Thread : AboutToVisit(u, v, s) => AboutToVisit(u, v, s)'
    BY <2>1 DEF AboutToVisit
  <2> QED
    BY <2>2, <2>3
<1> QED
  BY <1>1, StillStale

(* Whoever moves within the late places stays as stale as it was.          *)
LEMMA LateStale ==
  ASSUME TypeOK, StaleInv,
         UNCHANGED <<word, futexes, scanPos, woken, call>>,
         \A u \in Thread : \/ pc'[u] = pc[u]
                           \/ pc[u] \in Late /\ pc'[u] \in Late
                           \/ pc[u] \notin {"wakecall", "scan"} /\ pc'[u] \notin Late
  PROVE  StaleInv'
<1>1. ASSUME NEW v \in Thread, NEW s \in Slot, Stale(v, s)'
      PROVE  /\ Stale(v, s)
             /\ \A u \in Thread : AboutToVisit(u, v, s) => AboutToVisit(u, v, s)'
  BY <1>1 DEF Stale, AboutToVisit, Owns, Late
<1> QED
  BY <1>1, StillStale

(* A thread that leaves its WAIT is stale no more. *)
LEMMA LeaveStale ==
  ASSUME TypeOK, FutexInv, StaleInv, NEW t \in Thread, NEW s \in Slot,
         Owns(t, s), LeaveWait(t, s), UNCHANGED <<word, scanPos, woken>>
  PROVE  StaleInv'
<1>1. pc[t] \in Waiting /\ pc'[t] = "user"
  BY DEF FutexInv, SlotOwnership, OwnsSlot, LeaveWait, TypeOK
<1>2. \A u \in Thread : u # t => pc'[u] = pc[u] /\ call'[u] = call[u]
  BY DEF LeaveWait, TypeOK
<1>3. \A s2 \in Slot : s2 # s => futexes'[s2] = futexes[s2]
  BY DEF LeaveWait, TypeOK
<1>4. futexes'[s].thread = NoThread
  BY DEF LeaveWait, TypeOK, SlotType
<1>5. \A u \in Thread, s2 \in Slot : Owns(u, s2)' => s2 # s
  BY <1>4, FutexAssumption DEF Owns
<1>6. \A u \in Thread, s2 \in Slot : u # t /\ Owns(u, s2)' =>
           /\ Owns(u, s2)
           /\ futexes'[s2].wake = futexes[s2].wake
           /\ word'[call[u].addr] = word[call[u].addr]
  BY <1>3, <1>5 DEF Owns
<1> QED
  BY <1>1, <1>2, <1>6, OutsideStale DEF Waiting, Late

(* The calls of waiting and waking threads are the guest's or an exit's.   *)
LEMMA CallsStep ==
  ASSUME TypeOK, FutexInv, CallsInv, AliveInv, [Next]_vars
  PROVE  CallsInv'
<1>1. ASSUME NEW t \in Thread,
             \A u \in Thread : u # t => pc'[u] = pc[u] /\ call'[u] = call[u],
             pc'[t] \in Waiting \cup {"compared"} => call'[t] \in GuestWaits[t],
             pc'[t] \in {"wakecall", "scan"} =>
               call'[t] \in GuestWakes \/ \E u \in Thread : call'[t].addr = ClearTid[u]
      PROVE  CallsInv'
  BY <1>1 DEF CallsInv
<1>2. ASSUME UNCHANGED call,
             \A u \in Thread :
               /\ pc'[u] \in Waiting \cup {"compared"}
                    => pc[u] \in Waiting \cup {"compared"}
               /\ pc'[u] \in {"wakecall", "scan"} => pc[u] \in {"wakecall", "scan"}
      PROVE  CallsInv'
  BY <1>2 DEF CallsInv
<1>3. ASSUME NEW t \in Thread, NEW s \in Slot, Owns(t, s), LeaveWait(t, s)
      PROVE  CallsInv'
  BY <1>1, <1>3 DEF LeaveWait, TypeOK, Waiting
<1>4. ASSUME NEW t \in Thread, NEW s \in Slot, Owns(t, s), LoopTurn(t, s)
      PROVE  CallsInv'
  <2>1. CASE LeaveWait(t, s)
    BY <1>3, <1>4, <2>1
  <2>2. CASE ~LeaveWait(t, s)
    <3>1. pc[t] \in Waiting
      BY <1>4 DEF FutexInv, SlotOwnership, OwnsSlot
    <3> QED
      BY <1>2, <1>4, <2>2, <3>1 DEF LoopTurn, TypeOK, Waiting
  <2> QED
    BY <2>1, <2>2
<1>5. ASSUME NEW t \in Thread, NEW c \in GuestWaits[t], Compare(t, c) PROVE CallsInv'
  BY <1>1, <1>5 DEF Compare, TypeOK, Waiting
<1>6. ASSUME NEW t \in Thread, ConsumePending(t) \/ WakeEnd(t) PROVE CallsInv'
  BY <1>1, <1>6 DEF ConsumePending, WakeEnd, TypeOK, Waiting
<1>7. ASSUME NEW t \in Thread, Register(t) PROVE CallsInv'
  BY <1>2, <1>7 DEF Register, NewSlot, TypeOK, Waiting
<1>8. ASSUME NEW t \in Thread, NEW s \in Slot, SetMask(t, s) PROVE CallsInv'
  BY <1>2, <1>8 DEF SetMask, TypeOK, Waiting
<1>9. ASSUME NEW t \in Thread, NEW s \in Slot, Park(t, s) \/ Resume(t, s)
      PROVE  CallsInv'
  BY <1>3, <1>4, <1>9 DEF Park, Resume
<1>10. ASSUME NEW t \in Thread, Sleep(t) \/ Stir(t) PROVE CallsInv'
  BY <1>2, <1>10 DEF Sleep, Stir, TypeOK, Waiting
<1>11. ASSUME NEW t \in Thread, NEW c \in GuestWakes,
              Alert(t, c) \/ \E w \in Word : StoreThenWake(t, c, w)
       PROVE  CallsInv'
  BY <1>1, <1>11 DEF Alert, StoreThenWake, IssueWake, TypeOK, Waiting
<1>12. ASSUME NEW t \in Thread, WakeBegin(t) PROVE CallsInv'
  BY <1>2, <1>12 DEF WakeBegin, StartScan, TypeOK, Waiting
<1>13. ASSUME NEW t \in Thread, WakeVisit(t) PROVE CallsInv'
  BY <1>2, <1>13 DEF WakeVisit, Notify, TypeOK, Waiting
<1>14. ASSUME NEW t \in Thread, Exit(t) PROVE CallsInv'
  <2>1. CASE ClearTid[t] = NoAddr
    BY <1>1, <1>14, <2>1 DEF Exit, TypeOK, Waiting
  <2>2. CASE ClearTid[t] # NoAddr
    <3>1. call'[t].addr = ClearTid[t] /\ pc'[t] = "wakecall"
      BY <1>14, <2>2 DEF Exit, IssueWake, ExitWake, TypeOK
    <3> QED
      BY <1>1, <1>14, <2>2, <3>1 DEF Exit, IssueWake, TypeOK, Waiting
  <2> QED
    BY <2>1, <2>2
<1>15. ASSUME NEW t \in Thread, NEW parent \in Thread, NEW w \in Word,
              Clone(parent, t, w)
       PROVE  CallsInv'
  BY <1>2, <1>15 DEF Clone, TypeOK, Waiting
<1>16. ASSUME NEW t \in Thread, PostSignal(t) \/ DeliverSignal(t) \/ Terminate(t)
       PROVE  CallsInv'
  BY <1>2, <1>16 DEF PostSignal, DeliverSignal, Terminate, TerminateFlag,
     TerminateRead, TerminateSignal, Notify, TypeOK, Waiting
<1>17. CASE UNCHANGED vars
  BY <1>2, <1>17 DEF vars
<1> QED
  BY <1>5, <1>6, <1>7, <1>8, <1>9, <1>10, <1>11, <1>12, <1>13, <1>14, <1>15,
     <1>16, <1>17 DEF Next, Wait, Wake

(* A late waiter's mask is stored: the bucket lock is released before, and *)
(* the second read of the word comes after.                                *)
LEMMA MaskStep ==
  ASSUME TypeOK, FutexInv, MaskInv, [Next]_vars
  PROVE  MaskInv'
<1>1. ASSUME \A u \in Thread, s \in Slot :
               Owns(u, s)' /\ pc'[u] \in Late \cup {"parking"} =>
                 /\ Owns(u, s) /\ pc[u] \in Late \cup {"parking"}
                 /\ call'[u] = call[u]
                 /\ futexes'[s].mask = futexes[s].mask
      PROVE  MaskInv'
  BY <1>1 DEF MaskInv
<1>2. ASSUME UNCHANGED futexes, NEW t \in Thread,
             \A u \in Thread : u # t => pc'[u] = pc[u] /\ call'[u] = call[u],
             pc'[t] \notin Late \cup {"parking"}
      PROVE  MaskInv'
  BY <1>1, <1>2 DEF Owns
<1>3. ASSUME UNCHANGED <<futexes, call>>,
             \A u \in Thread : pc'[u] \in Late => pc[u] \in Late \cup {"parking"},
             \A u \in Thread : pc'[u] = "parking" => pc[u] = "parking"
      PROVE  MaskInv'
  BY <1>1, <1>3 DEF Owns
<1>4. ASSUME NEW t \in Thread, NEW s \in Slot, Owns(t, s), LeaveWait(t, s)
      PROVE  MaskInv'
  <2>1. \A s2 \in Slot : s2 # s => futexes'[s2] = futexes[s2]
    BY <1>4 DEF LeaveWait, TypeOK
  <2>2. futexes'[s].thread = NoThread
    BY <1>4 DEF LeaveWait, TypeOK, SlotType
  <2>3. \A u \in Thread, s2 \in Slot : Owns(u, s2)' => s2 # s /\ Owns(u, s2)
    BY <2>1, <2>2, FutexAssumption DEF Owns
  <2>4. \A u \in Thread : u # t => pc'[u] = pc[u] /\ call'[u] = call[u]
    BY <1>4 DEF LeaveWait, TypeOK
  <2>5. pc'[t] = "user"
    BY <1>4 DEF LeaveWait, TypeOK
  <2> QED
    BY <1>1, <2>1, <2>3, <2>4, <2>5 DEF Late
<1>5. ASSUME NEW t \in Thread, NEW s \in Slot, Owns(t, s), LoopTurn(t, s),
             pc[t] \in Late \cup {"parking"}
      PROVE  MaskInv'
  <2>1. CASE LeaveWait(t, s)
    BY <1>4, <1>5, <2>1
  <2>2. CASE ~LeaveWait(t, s)
    BY <1>3, <1>5, <2>2 DEF LoopTurn, TypeOK, Late
  <2> QED
    BY <2>1, <2>2
<1>6. ASSUME NEW t \in Thread,
             \/ \E c \in GuestWaits[t] : Compare(t, c)
             \/ ConsumePending(t) \/ WakeEnd(t)
             \/ \E c \in GuestWakes : Alert(t, c) \/ \E w \in Word : StoreThenWake(t, c, w)
             \/ Exit(t)
      PROVE  MaskInv'
  <2>1. /\ UNCHANGED futexes
        /\ \A u \in Thread : u # t => pc'[u] = pc[u] /\ call'[u] = call[u]
        /\ pc'[t] \notin Late \cup {"parking"}
    BY <1>6 DEF Compare, ConsumePending, WakeEnd, Alert, StoreThenWake, IssueWake,
       Exit, TypeOK, Late
  <2> QED
    BY <1>2, <2>1
<1>7. ASSUME NEW t \in Thread, Register(t) PROVE MaskInv'
  <2>1. PICK s \in Slot :
          /\ futexes[s].thread = NoThread
          /\ futexes' = [futexes EXCEPT ![s] =
              [thread |-> t, address |-> call[t].addr, wake |-> FALSE,
               mask |-> {}, timed |-> call[t].timed]]
    BY <1>7 DEF Register, NewSlot
  <2>2. /\ futexes'[s].thread = t
        /\ \A s2 \in Slot : s2 # s => futexes'[s2] = futexes[s2]
    BY <2>1 DEF TypeOK
  <2>3. /\ \A u \in Thread : u # t => pc'[u] = pc[u]
        /\ call[t].cmd = "WAIT_BITSET" => pc'[t] = "registered"
        /\ UNCHANGED call
        /\ \A s2 \in Slot : ~Owns(t, s2)
    BY <1>7 DEF Register, NewSlot, TypeOK, FutexInv, SlotOwnership, OwnsSlot, Waiting
  <2> SUFFICES ASSUME NEW u \in Thread, NEW s2 \in Slot, Owns(u, s2)',
                      pc'[u] \in Late \cup {"parking"}, call[u].cmd = "WAIT_BITSET"
               PROVE  futexes'[s2].mask = call[u].mask
    BY <2>3 DEF MaskInv
  <2>4. u # t
    BY <2>3 DEF Late
  <2>5. s2 # s
    BY <2>2, <2>4 DEF Owns
  <2> QED
    BY <2>2, <2>3, <2>4, <2>5 DEF MaskInv, Owns
<1>8. ASSUME NEW t \in Thread, NEW s \in Slot, SetMask(t, s) PROVE MaskInv'
  <2>1. /\ futexes'[s] = [futexes[s] EXCEPT !.mask = call[t].mask]
        /\ \A s2 \in Slot : s2 # s => futexes'[s2] = futexes[s2]
        /\ \A u \in Thread : u # t => pc'[u] = pc[u]
        /\ UNCHANGED call /\ Owns(t, s)
    BY <1>8 DEF SetMask, TypeOK
  <2>2. futexes'[s].mask = call[t].mask /\ futexes'[s].thread = futexes[s].thread
    <3>1. futexes[s] \in SlotType
      BY DEF TypeOK
    <3> QED
      BY <2>1, <3>1 DEF SlotType
  <2>3. \A u \in Thread, s2 \in Slot : Owns(u, s2)' <=> Owns(u, s2)
    BY <2>1, <2>2 DEF Owns
  <2>4. \A s2 \in Slot : Owns(t, s2) => s2 = s
    BY <2>1 DEF FutexInv, SlotOwnership
  <2> SUFFICES ASSUME NEW u \in Thread, NEW s2 \in Slot, Owns(u, s2),
                      pc'[u] \in Late \cup {"parking"}, call[u].cmd = "WAIT_BITSET"
               PROVE  futexes'[s2].mask = call[u].mask
    BY <2>1, <2>3 DEF MaskInv
  <2>5. CASE u = t
    BY <2>2, <2>4, <2>5
  <2>6. CASE u # t
    <3>1. s2 # s
      BY <2>1, <2>6 DEF Owns
    <3> QED
      BY <2>1, <2>6, <3>1 DEF MaskInv
  <2> QED
    BY <2>5, <2>6
<1>9. ASSUME NEW t \in Thread, NEW s \in Slot, Park(t, s) \/ Resume(t, s)
      PROVE  MaskInv'
  BY <1>4, <1>5, <1>9 DEF Park, Resume, Late
<1>10. ASSUME NEW t \in Thread, Sleep(t) \/ Stir(t) PROVE MaskInv'
  BY <1>3, <1>10 DEF Sleep, Stir, TypeOK, Late
<1>11. ASSUME NEW t \in Thread, WakeBegin(t) PROVE MaskInv'
  BY <1>3, <1>11 DEF WakeBegin, StartScan, TypeOK, Late
<1>12. ASSUME NEW t \in Thread, WakeVisit(t) PROVE MaskInv'
  <2>1. scanPos \in Slot /\ UNCHANGED call
    BY <1>12, FutexAssumption DEF WakeVisit, TypeOK, Slot
  <2>2. \A s \in Slot : /\ futexes'[s].thread = futexes[s].thread
                        /\ futexes'[s].mask = futexes[s].mask
    <3>1. CASE Matches(t, scanPos)
      <4>1. /\ futexes'[scanPos] = [futexes[scanPos] EXCEPT !.wake = TRUE]
            /\ \A s \in Slot : s # scanPos => futexes'[s] = futexes[s]
        BY <1>12, <2>1, <3>1 DEF WakeVisit, TypeOK
      <4>2. futexes[scanPos] \in SlotType
        BY <2>1 DEF TypeOK
      <4> QED
        BY <4>1, <4>2 DEF SlotType
    <3>2. CASE ~Matches(t, scanPos)
      BY <1>12, <3>2 DEF WakeVisit
    <3> QED
      BY <3>1, <3>2
  <2>3. \A u \in Thread : pc'[u] \in Late \cup {"parking"} => pc[u] \in Late \cup {"parking"}
    BY <1>12 DEF WakeVisit, Notify, TypeOK, Late
  <2> QED
    BY <1>1, <2>1, <2>2, <2>3 DEF Owns
<1>13. ASSUME NEW t \in Thread, NEW parent \in Thread, NEW w \in Word,
              Clone(parent, t, w)
       PROVE  MaskInv'
  BY <1>3, <1>13 DEF Clone, TypeOK, Late
<1>14. ASSUME NEW t \in Thread, PostSignal(t) \/ DeliverSignal(t) \/ Terminate(t)
       PROVE  MaskInv'
  BY <1>3, <1>14 DEF PostSignal, DeliverSignal, Terminate, TerminateFlag,
     TerminateRead, TerminateSignal, Notify, TypeOK, Late
<1>15. CASE UNCHANGED vars
  BY <1>3, <1>15 DEF vars
<1> QED
  BY <1>6, <1>7, <1>8, <1>9, <1>10, <1>11, <1>12, <1>13, <1>14, <1>15
  DEF Next, Wait, Wake

(* The scan flags a late waiter of its word, or has it still before it: it *)
(* does not count enough waiters to stop short of the last slot.           *)
LEMMA VisitStale ==
  ASSUME TypeOK, FutexInv, SleepInv, WakesEveryone, NEW t \in Thread, WakeVisit(t)
  PROVE  StaleInv'
<1>1. /\ pc[t] = "scan" /\ scanPos \in Slot /\ scanPos' = scanPos + 1
      /\ UNCHANGED <<word, call>>
      /\ \A u \in Thread : pc[u] = "scan" => u = t
  BY FutexAssumption DEF WakeVisit, TypeOK, Slot, FutexInv, BucketOwner
<1>2. \A u \in Thread : pc'[u] = pc[u] \/ (pc[u] \in Late /\ pc'[u] \in Late)
  BY DEF WakeVisit, Notify, TypeOK, Late
<1>3. \A s \in Slot : /\ futexes'[s].thread = futexes[s].thread
                      /\ futexes[s].wake => futexes'[s].wake
                      /\ s = scanPos /\ Matches(t, s) => futexes'[s].wake
  <2>1. CASE Matches(t, scanPos)
    <3>1. /\ futexes'[scanPos] = [futexes[scanPos] EXCEPT !.wake = TRUE]
          /\ \A s \in Slot : s # scanPos => futexes'[s] = futexes[s]
      BY <1>1, <2>1 DEF WakeVisit, TypeOK
    <3>2. futexes[scanPos] \in SlotType
      BY <1>1 DEF TypeOK
    <3>3. futexes'[scanPos].thread = futexes[scanPos].thread /\ futexes'[scanPos].wake
      BY <3>1, <3>2 DEF SlotType
    <3> QED
      BY <3>1, <3>3
  <2>2. CASE ~Matches(t, scanPos)
    BY <2>2 DEF WakeVisit
  <2> QED
    BY <2>1, <2>2
<1>4. woken' <= woken + 1
  BY DEF WakeVisit, TypeOK
<1> SUFFICES ASSUME NEW v \in Thread, NEW s \in Slot, Stale(v, s)'
             PROVE  \E u \in Thread : AboutToVisit(u, v, s)'
  BY DEF StaleInv
<1>5. Stale(v, s)
  <2>1. Owns(v, s) /\ ~futexes[s].wake
    BY <1>3 DEF Stale, Owns
  <2>2. pc[v] \in Late
    BY <1>2 DEF Stale
  <2> QED
    BY <1>1, <2>1, <2>2 DEF Stale
<1>6. PICK u \in Thread : AboutToVisit(u, v, s)
  BY <1>5 DEF SleepInv, StaleInv
<1>7. CASE pc[u] = "wakecall"
  BY <1>1, <1>2, <1>6, <1>7 DEF AboutToVisit, Late
<1>8. CASE pc[u] # "wakecall"
  <2>1. u = t /\ scanPos <= s /\ woken < call[t].val /\ call[t].addr = call[v].addr
    BY <1>1, <1>6, <1>8 DEF AboutToVisit
  <2>2. call[v] \in GuestWaits[v] /\ call[v] \in WaitCalls
    BY <1>5, FutexAssumption DEF Stale, Late, Waiting, SleepInv, CallsInv
  <2>3. \A w \in Thread : ClearTid[w] # call[v].addr
    BY <2>2 DEF WakesEveryone
  <2>4. call[t] \in GuestWakes
    BY <1>1, <2>1, <2>3 DEF SleepInv, CallsInv
  <2>5. /\ call[t].val >= MaxFutexes
        /\ call[t].cmd = "WAKE_BITSET" =>
             call[v].cmd = "WAIT_BITSET" /\ call[v].mask \cap call[t].mask # {}
    BY <2>1, <2>2, <2>4 DEF WakesEveryone
  <2>6. call[t].val \in Nat
    BY <2>4, CallFacts, FutexAssumption
  <2>7. CASE s = scanPos
    <3>1. Owns(v, s) /\ ~futexes[s].wake /\ pc[v] \in Late
      BY <1>5 DEF Stale
    <3>2. futexes[s].thread = v /\ futexes[s].address = call[v].addr
      BY <3>1 DEF FutexInv, SlotAddress, Owns
    <3>3. call[t].cmd = "WAKE_BITSET" => futexes[s].mask \cap call[t].mask # {}
      BY <2>5, <3>1 DEF SleepInv, MaskInv
    <3>4. ProcOf[v] = ProcOf[t]
      BY DEF WakesEveryone
    <3>5. Matches(t, s)
      BY <2>1, <3>1, <3>2, <3>3, <3>4, FutexAssumption DEF Matches
    <3>6. futexes'[s].wake
      BY <1>3, <2>7, <3>5
    <3> QED
      BY <3>6 DEF Stale
  <2>8. CASE s # scanPos
    <3>1. scanPos' <= s
      BY <1>1, <2>1, <2>8, FutexAssumption DEF Slot
    <3>2. woken' < call[t].val
      <4>1. woken <= scanPos /\ s < MaxFutexes
        BY FutexAssumption DEF SleepInv, CountInv, Slot
      <4>2. woken' \in Nat
        BY DEF WakeVisit, TypeOK
      <4> QED
        BY <1>1, <1>4, <2>5, <2>6, <3>1, <4>1, <4>2, FutexAssumption DEF TypeOK, Slot
    <3>3. pc'[t] = "scan"
      BY <1>1, <1>2 DEF Late
    <3> QED
      BY <1>1, <1>6, <2>1, <3>1, <3>2, <3>3 DEF AboutToVisit
  <2> QED
    BY <2>7, <2>8
<1> QED
  BY <1>7, <1>8

(* A WAKE that ends has been to every slot. *)
LEMMA EndStale ==
  ASSUME TypeOK, FutexInv, SleepInv, WakesEveryone, NEW t \in Thread, WakeEnd(t)
  PROVE  StaleInv'
<1>1. /\ pc[t] = "scan" /\ pc'[t] \notin Late
      /\ UNCHANGED <<word, futexes, scanPos, woken>>
      /\ \A u \in Thread : u # t => pc'[u] = pc[u] /\ call'[u] = call[u]
  BY DEF WakeEnd, TypeOK, Late
<1> SUFFICES ASSUME NEW v \in Thread, NEW s \in Slot, Stale(v, s)'
             PROVE  \E u \in Thread : AboutToVisit(u, v, s)'
  BY DEF StaleInv
<1>2. v # t /\ Stale(v, s)
  BY <1>1 DEF Stale, Owns
<1>3. PICK u \in Thread : AboutToVisit(u, v, s)
  BY <1>2 DEF SleepInv, StaleInv
<1>4. u # t
  <2> SUFFICES ASSUME u = t PROVE FALSE
    OBVIOUS
  <2>1. scanPos <= s /\ woken < call[t].val /\ call[t].addr = call[v].addr
    BY <1>1, <1>3 DEF AboutToVisit
  <2>2. call[v] \in GuestWaits[v] /\ \A w \in Thread : ClearTid[w] # call[v].addr
    BY <1>2 DEF Stale, Late, Waiting, SleepInv, CallsInv, WakesEveryone
  <2>3. call[t] \in GuestWakes
    BY <1>1, <2>1, <2>2 DEF SleepInv, CallsInv
  <2>4. call[t].val \in Nat
    BY <2>3, CallFacts, FutexAssumption
  <2>5. scanPos = MaxFutexes
    BY <2>1, <2>4 DEF WakeEnd, TypeOK
  <2> QED
    BY <2>1, <2>5, FutexAssumption DEF Slot
<1> QED
  BY <1>1, <1>2, <1>3, <1>4 DEF AboutToVisit

(* Every step keeps those who sleep on a word that moved in the way of a   *)
(* WAKE.                                                                   *)
LEMMA StaleStep ==
  ASSUME TypeOK, FutexInv, SleepInv, WakesEveryone, [Next]_vars
  PROVE  StaleInv'
<1> USE DEF SleepInv
<1>1. ASSUME NEW t \in Thread,
             (\E c \in GuestWaits[t] : Compare(t, c)) \/ ConsumePending(t)
      PROVE  StaleInv'
  <2>1. /\ pc[t] \in {"user", "compared"} /\ pc'[t] \in {"user", "compared"}
        /\ UNCHANGED <<word, futexes, scanPos, woken>>
        /\ \A u \in Thread : u # t => pc'[u] = pc[u] /\ call'[u] = call[u]
    BY <1>1 DEF Compare, ConsumePending, TypeOK
  <2> QED
    BY <2>1, OutsideStale DEF Late, Owns
<1>2. ASSUME NEW t \in Thread, Register(t) PROVE StaleInv'
  <2>1. PICK s \in Slot :
          /\ futexes[s].thread = NoThread
          /\ futexes' = [futexes EXCEPT ![s] =
              [thread |-> t, address |-> call[t].addr, wake |-> FALSE,
               mask |-> {}, timed |-> call[t].timed]]
    BY <1>2 DEF Register, NewSlot
  <2>2. /\ futexes'[s].thread = t
        /\ \A s2 \in Slot : s2 # s => futexes'[s2] = futexes[s2]
    BY <2>1 DEF TypeOK
  <2>3. /\ pc[t] = "compared" /\ pc'[t] \in {"registered", "parking"}
        /\ UNCHANGED <<word, scanPos, woken, call>>
        /\ \A u \in Thread : u # t => pc'[u] = pc[u] /\ call'[u] = call[u]
    BY <1>2 DEF Register, NewSlot, TypeOK
  <2>4. \A u \in Thread, s2 \in Slot : u # t /\ Owns(u, s2)' =>
           /\ Owns(u, s2)
           /\ futexes'[s2].wake = futexes[s2].wake
           /\ word'[call[u].addr] = word[call[u].addr]
    BY <2>2, <2>3 DEF Owns
  <2> QED
    BY <2>3, <2>4, OutsideStale DEF Late
<1>3. ASSUME NEW t \in Thread, NEW s \in Slot, SetMask(t, s) PROVE StaleInv'
  <2>1. /\ pc[t] = "registered" /\ pc'[t] = "parking"
        /\ UNCHANGED <<word, scanPos, woken, call>>
        /\ \A u \in Thread : u # t => pc'[u] = pc[u] /\ call'[u] = call[u]
    BY <1>3 DEF SetMask, TypeOK
  <2>2. \A s2 \in Slot : /\ futexes'[s2].thread = futexes[s2].thread
                         /\ futexes'[s2].wake = futexes[s2].wake
    <3>1. /\ futexes'[s] = [futexes[s] EXCEPT !.mask = call[t].mask]
          /\ \A s2 \in Slot : s2 # s => futexes'[s2] = futexes[s2]
      BY <1>3 DEF SetMask, TypeOK
    <3>2. futexes[s] \in SlotType
      BY DEF TypeOK
    <3> QED
      BY <3>1, <3>2 DEF SlotType
  <2> QED
    BY <2>1, <2>2, OutsideStale DEF Late, Owns
<1>4. ASSUME NEW t \in Thread, NEW s \in Slot, Park(t, s) PROVE StaleInv'
  <2>1. CASE LeaveWait(t, s)
    BY <1>4, <2>1, LeaveStale DEF Park
  <2>2. CASE ~LeaveWait(t, s)
    <3>1. /\ word[call[t].addr] = call[t].val
          /\ pc' = [pc EXCEPT ![t] = "checked"]
          /\ UNCHANGED <<word, futexes, scanPos, woken, call>>
      BY <1>4, <2>2 DEF Park, LoopTurn
    <3>2. pc[t] = "parking"
      BY <1>4 DEF Park
    <3>3. ASSUME NEW v \in Thread, NEW s2 \in Slot, Stale(v, s2)'
          PROVE  /\ Stale(v, s2)
                 /\ \A u \in Thread : AboutToVisit(u, v, s2) => AboutToVisit(u, v, s2)'
      <4>1. v # t
        BY <3>1, <3>3 DEF Stale
      <4>2. Stale(v, s2)
        BY <3>1, <3>3, <4>1 DEF Stale, Owns, TypeOK
      <4>3. \A u \in Thread : AboutToVisit(u, v, s2) => AboutToVisit(u, v, s2)'
        BY <3>1, <3>2 DEF AboutToVisit, TypeOK
      <4> QED
        BY <4>2, <4>3
    <3> QED
      BY <3>3, StillStale
  <2> QED
    BY <2>1, <2>2
<1>5. ASSUME NEW t \in Thread, NEW s \in Slot, Resume(t, s) PROVE StaleInv'
  <2>1. CASE LeaveWait(t, s)
    BY <1>5, <2>1, LeaveStale DEF Resume
  <2>2. CASE ~LeaveWait(t, s)
    BY <1>5, <2>2, LateStale DEF Resume, LoopTurn, TypeOK, Late
  <2> QED
    BY <2>1, <2>2
<1>6. ASSUME NEW t \in Thread, Sleep(t) \/ Stir(t) PROVE StaleInv'
  BY <1>6, LateStale DEF Sleep, Stir, TypeOK, Late
<1>7. ASSUME NEW t \in Thread, NEW c \in GuestWakes, Alert(t, c) PROVE StaleInv'
  <2>1. /\ pc[t] = "user" /\ pc'[t] = "wakecall"
        /\ UNCHANGED <<word, futexes, scanPos, woken>>
        /\ \A u \in Thread : u # t => pc'[u] = pc[u] /\ call'[u] = call[u]
    BY <1>7 DEF Alert, IssueWake, TypeOK
  <2> QED
    BY <2>1, OutsideStale DEF Late, Owns
<1>8. ASSUME NEW t \in Thread, NEW c \in GuestWakes, NEW w \in Word,
             StoreThenWake(t, c, w)
      PROVE  StaleInv'
  <2>1. /\ pc[t] = "user" /\ pc'[t] = "wakecall" /\ call'[t] = c
        /\ UNCHANGED <<futexes, scanPos, woken>>
        /\ \A u \in Thread : u # t => pc'[u] = pc[u] /\ call'[u] = call[u]
        /\ \A a \in Addr : a # c.addr => word'[a] = word[a]
    BY <1>8 DEF StoreThenWake, IssueWake, TypeOK
  <2> SUFFICES ASSUME NEW v \in Thread, NEW s \in Slot, Stale(v, s)'
               PROVE  \E u \in Thread : AboutToVisit(u, v, s)'
    BY DEF StaleInv
  <2>2. v # t
    BY <2>1 DEF Stale, Late
  <2>3. CASE call[v].addr = c.addr
    <3>1. ProcOf[t] = ProcOf[v]
      BY DEF WakesEveryone
    <3>2. AboutToVisit(t, v, s)'
      BY <2>1, <2>2, <2>3, <3>1 DEF AboutToVisit
    <3> QED
      BY <3>2
  <2>4. CASE call[v].addr # c.addr
    <3>1. pc[v] \in Late /\ Owns(v, s)
      BY <2>1, <2>2 DEF Stale, Owns
    <3>2. call[v].addr \in Addr
      BY <3>1, CallFacts DEF FutexInv, CallsMatchPC, Late, Waiting
    <3>3. Stale(v, s)
      BY <2>1, <2>2, <2>4, <3>1, <3>2 DEF Stale
    <3>4. PICK u \in Thread : AboutToVisit(u, v, s)
      BY <3>3 DEF StaleInv
    <3> QED
      BY <2>1, <2>2, <3>4 DEF AboutToVisit
  <2> QED
    BY <2>3, <2>4
<1>9. ASSUME NEW t \in Thread, WakeBegin(t) PROVE StaleInv'
  <2>1. /\ pc[t] = "wakecall" /\ pc'[t] = "scan" /\ bucket = NoThread
        /\ scanPos' = 0 /\ woken' = 0
        /\ UNCHANGED <<word, futexes, call>>
        /\ \A u \in Thread : u # t => pc'[u] = pc[u]
    BY <1>9 DEF WakeBegin, StartScan, TypeOK
  <2>2. \A u \in Thread : pc[u] # "scan"
    BY <2>1, FutexAssumption DEF FutexInv, BucketOwner
  <2>3. call[t].val > 0 /\ \A s \in Slot : s >= 0
    BY <2>1, CallFacts, FutexAssumption DEF FutexInv, CallsMatchPC, Slot
  <2>4. ASSUME NEW v \in Thread, NEW s \in Slot, Stale(v, s)'
        PROVE  /\ Stale(v, s)
               /\ \A u \in Thread : AboutToVisit(u, v, s) => AboutToVisit(u, v, s)'
    <3>1. v # t
      BY <2>1, <2>4 DEF Stale, Late
    <3>2. Stale(v, s)
      BY <2>1, <2>4, <3>1 DEF Stale, Owns
    <3>3. \A u \in Thread : AboutToVisit(u, v, s) => AboutToVisit(u, v, s)'
      BY <2>1, <2>2, <2>3 DEF AboutToVisit
    <3> QED
      BY <3>2, <3>3
  <2> QED
    BY <2>4, StillStale
<1>10. ASSUME NEW t \in Thread, WakeVisit(t) \/ WakeEnd(t) PROVE StaleInv'
  BY <1>10, VisitStale, EndStale
<1>11. ASSUME NEW t \in Thread, Exit(t) PROVE StaleInv'
  <2>1. /\ pc[t] \in {"user", "cleanup"} /\ pc'[t] \in {"dead", "wakecall"}
        /\ UNCHANGED <<futexes, scanPos, woken>>
        /\ \A u \in Thread : u # t => pc'[u] = pc[u] /\ call'[u] = call[u]
        /\ \A a \in Addr : a # ClearTid[t] => word'[a] = word[a]
    BY <1>11 DEF Exit, Exits, IssueWake, TypeOK, AliveInv
  <2>2. \A u \in Thread, s \in Slot : u # t /\ Owns(u, s)' =>
          /\ Owns(u, s) /\ futexes'[s].wake = futexes[s].wake
          /\ word'[call[u].addr] = word[call[u].addr]
    <3> SUFFICES ASSUME NEW u \in Thread, NEW s \in Slot, Owns(u, s)
                 PROVE  word'[call[u].addr] = word[call[u].addr]
      BY <2>1 DEF Owns
    <3>1. pc[u] \in Waiting
      BY DEF FutexInv, SlotOwnership, OwnsSlot
    <3>2. call[u] \in GuestWaits[u] /\ call[u].addr \in Addr
      BY <3>1, CallFacts DEF CallsInv, FutexInv, CallsMatchPC
    <3> QED
      BY <2>1, <3>2 DEF WakesEveryone
  <2> QED
    BY <2>1, <2>2, OutsideStale DEF Late
<1>12. ASSUME NEW t \in Thread, NEW parent \in Thread, NEW w \in Word,
              Clone(parent, t, w)
       PROVE  StaleInv'
  <2>1. /\ pc[t] = "dead" /\ pc'[t] = "user"
        /\ UNCHANGED <<futexes, scanPos, woken, call>>
        /\ \A u \in Thread : u # t => pc'[u] = pc[u] /\ call'[u] = call[u]
        /\ \A a \in Addr : a # ClearTid[t] => word'[a] = word[a]
    BY <1>12 DEF Clone, TypeOK
  <2>2. \A u \in Thread, s \in Slot : u # t /\ Owns(u, s)' =>
          /\ Owns(u, s) /\ futexes'[s].wake = futexes[s].wake
          /\ word'[call[u].addr] = word[call[u].addr]
    <3> SUFFICES ASSUME NEW u \in Thread, NEW s \in Slot, Owns(u, s)
                 PROVE  word'[call[u].addr] = word[call[u].addr]
      BY <2>1 DEF Owns
    <3>1. pc[u] \in Waiting
      BY DEF FutexInv, SlotOwnership, OwnsSlot
    <3>2. call[u] \in GuestWaits[u] /\ call[u].addr \in Addr
      BY <3>1, CallFacts DEF CallsInv, FutexInv, CallsMatchPC
    <3> QED
      BY <2>1, <3>2 DEF WakesEveryone
  <2> QED
    BY <2>1, <2>2, OutsideStale DEF Late
<1>13. ASSUME NEW t \in Thread, PostSignal(t) \/ DeliverSignal(t) \/ Terminate(t)
       PROVE  StaleInv'
  BY <1>13, LateStale DEF PostSignal, DeliverSignal, Terminate, TerminateFlag,
     TerminateRead, TerminateSignal, Notify, TypeOK, Late
<1>14. CASE UNCHANGED vars
  BY <1>14, LateStale DEF vars
<1> QED
  BY <1>1, <1>2, <1>3, <1>4, <1>5, <1>6, <1>7, <1>8, <1>9, <1>10, <1>11, <1>12,
     <1>13, <1>14 DEF Next, Wait, Wake

(* Nobody is killed, and a scan counts no more slots than it visited.      *)
LEMMA AliveStep ==
  ASSUME TypeOK, AliveInv, CountInv, WakesEveryone, [Next]_vars
  PROVE  AliveInv' /\ CountInv'
<1>1. AliveInv'
  <2>1. \A t \in Thread : ~TerminateFlag(t)
    BY DEF TerminateFlag, WakesEveryone
  <2>2. UNCHANGED terminating
    BY <2>1 DEF Next, Wait, Wake, Terminate, Compare, ConsumePending, Register,
       NewSlot, SetMask, Park, Sleep, Stir, Resume, Alert, StoreThenWake, WakeBegin,
       StartScan, WakeVisit, WakeEnd, PostSignal, DeliverSignal, Exit, Clone,
       TerminateRead, TerminateSignal, vars, ending
  <2> QED
    BY <2>2 DEF AliveInv
<1>2. CountInv'
  <2>1. ASSUME NEW t \in Thread, WakeVisit(t) PROVE CountInv'
    BY <2>1 DEF WakeVisit, CountInv, TypeOK
  <2>2. ASSUME NEW t \in Thread, WakeBegin(t) PROVE CountInv'
    BY <2>2 DEF WakeBegin, StartScan, CountInv
  <2>3. ASSUME UNCHANGED <<woken, scanPos>> PROVE CountInv'
    BY <2>3 DEF CountInv
  <2> QED
    BY <2>1, <2>2, <2>3 DEF Next, Wait, Wake, Terminate, Compare, ConsumePending,
       Register, NewSlot, SetMask, Park, Sleep, Stir, Resume, Alert, StoreThenWake,
       WakeEnd, PostSignal, DeliverSignal, Exit, Clone, TerminateFlag,
       TerminateRead, TerminateSignal, vars
<1> QED
  BY <1>1, <1>2

(* For guests that wake everyone, a lock's wake is never lost: a thread    *)
(* asleep on a word that moved is always ahead of the WAKE that followed   *)
(* the store, though its mask is stored outside the bucket lock.           *)
THEOREM NoStaleSleeperCorrect ==
  ASSUME WakesEveryone
  PROVE  Spec => []NoStaleSleeper
<1>1. Init => SleepInv
  <2> SUFFICES ASSUME Init PROVE SleepInv
    OBVIOUS
  <2>1. \A t \in Thread : pc[t] \in {"user", "dead"} /\ ~terminating[t]
    BY DEF Init
  <2>2. woken <= scanPos
    BY DEF Init
  <2> QED
    BY <2>1, <2>2 DEF SleepInv, CallsInv, MaskInv, AliveInv, CountInv, StaleInv,
       Stale, Late, Waiting
<1>2. TypeOK /\ FutexInv /\ SleepInv /\ [Next]_vars => SleepInv'
  BY CallsStep, MaskStep, AliveStep, StaleStep DEF SleepInv
<1>3. SleepInv => NoStaleSleeper
  BY DEF SleepInv, StaleInv, Stale, NoStaleSleeper, Late
<1> QED
  BY <1>1, <1>2, <1>3, TypeCorrect, InvCorrect, PTL DEF Spec
=============================================================================
