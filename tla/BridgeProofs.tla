----------------------------- MODULE BridgeProofs -----------------------------
(***************************************************************************)
(* The futex implements the wake bridge, for every number of threads,      *)
(* slots, processes and words: every critical section of WAIT and WAKE is  *)
(* a step of WakeBridge or none, under the mapping of Futex64.             *)
(***************************************************************************)
EXTENDS Futex64Proofs

(* What the bridge sees of a state. *)
Seen == <<UnwokenWaiters, FlaggedWaiters, pending, OwedWakes, Terminated>>

(* A waiter that is not woken waits on a key, and is not flagged too. *)
LEMMA WaiterFacts ==
  ASSUME TypeOK, FutexInv
  PROVE  /\ \A t \in Thread : OwnsSlot(t) => KeyOf(t) \in Key
         /\ \A t \in Thread : Unwoken(t) => OwnsSlot(t) /\ ~Flagged(t)
         /\ \A t \in Thread : Flagged(t) => OwnsSlot(t)
<1>1. ASSUME NEW t \in Thread, OwnsSlot(t) PROVE KeyOf(t) \in Key
  <2>1. call[t] \in WaitCalls
    BY <1>1 DEF FutexInv, SlotOwnership, CallsMatchPC
  <2> QED
    BY <2>1, CallFacts, FutexAssumption DEF KeyOf, Key
<1> QED
  BY <1>1 DEF FutexInv, SlotOwnership, OwnsSlot, Unwoken, Flagged

(* The waiters of the bridge, one by one. *)
LEMMA WaitingFact ==
  ASSUME TypeOK, FutexInv
  PROVE  \A t \in Thread, k \in Key :
           <<t, k>> \in UnwokenWaiters <=> k = KeyOf(t) /\ Unwoken(t)
BY DEF UnwokenWaiters

(* The wakes owed, one by one, and whose they are. *)
LEMMA OwedFacts ==
  ASSUME TypeOK, FutexInv
  PROVE  /\ \A u \in Thread, k \in Key :
              <<u, k>> \in OwedWakes <=> k = KeyOf(u) /\ Owes(u)
         /\ \A u \in Thread : Owes(u) => KeyOf(u) \in Key
<1>1. ASSUME NEW u \in Thread, Owes(u) PROVE KeyOf(u) \in Key
  <2>1. call[u].addr \in Addr
    BY <1>1, CallFacts DEF Owes, FutexInv, CallsMatchPC
  <2> QED
    BY <2>1, FutexAssumption DEF KeyOf, Key
<1> QED
  BY <1>1 DEF OwedWakes

(* Wakes stay owed as long as nobody asks for one, does one or gives up. *)
LEMMA StillOwed ==
  ASSUME \A u \in Thread : Owes(u)' <=> Owes(u),
         \A u \in Thread : Owes(u) => call'[u] = call[u]
  PROVE  UNCHANGED OwedWakes
<1>1. \A u \in Thread : Owes(u) => KeyOf(u)' = KeyOf(u)
  BY DEF KeyOf
<1> QED
  BY <1>1 DEF OwedWakes

(* Steps of a thread that is not in a WAKE, before or after, and that      *)
(* leave the calls of the others alone, even if they wake some of them.    *)
LEMMA NoneAsks ==
  ASSUME NEW t \in Thread, UNCHANGED woken,
         pc[t] \notin {"wakecall", "scan"}, pc'[t] \notin {"wakecall", "scan"},
         \A u \in Thread \ {t} :
           /\ call'[u] = call[u]
           /\ pc'[u] = pc[u] \/ (pc[u] = "asleep" /\ pc'[u] = "notified")
  PROVE  UNCHANGED OwedWakes
<1>1. \A u \in Thread : /\ Owes(u)' <=> Owes(u)
                        /\ Owes(u) => call'[u] = call[u]
  BY DEF Owes
<1> QED
  BY <1>1, StillOwed

(* If no waiter is flagged or leaves, the bridge does not see the step. *)
LEMMA SameWaiters ==
  ASSUME \A t \in Thread : /\ Unwoken(t)' <=> Unwoken(t)
                           /\ Flagged(t)' <=> Flagged(t)
                           /\ Unwoken(t) => KeyOf(t)' = KeyOf(t)
  PROVE  UNCHANGED <<UnwokenWaiters, FlaggedWaiters>>
<1>1. UnwokenWaiters' = UnwokenWaiters
  BY DEF UnwokenWaiters
<1>2. FlaggedWaiters' = FlaggedWaiters
  BY DEF FlaggedWaiters
<1> QED
  BY <1>1, <1>2

(* Slots keep their owners and flags, and those who wait their calls. *)
LEMMA StillWaiters ==
  ASSUME TypeOK, FutexInv,
         \A s \in Slot : /\ futexes'[s].thread = futexes[s].thread
                         /\ futexes'[s].wake = futexes[s].wake,
         \A t \in Thread : pc[t] \in Waiting => call'[t] = call[t]
  PROVE  UNCHANGED <<UnwokenWaiters, FlaggedWaiters>>
<1>1. \A t \in Thread, s \in Slot : Owns(t, s)' <=> Owns(t, s)
  BY DEF Owns
<1>2. \A t \in Thread : /\ Unwoken(t)' <=> Unwoken(t)
                        /\ Flagged(t)' <=> Flagged(t)
  BY <1>1 DEF Unwoken, Flagged
<1>3. \A t \in Thread : Unwoken(t) => KeyOf(t)' = KeyOf(t)
  BY WaiterFacts DEF KeyOf, FutexInv, SlotOwnership
<1> QED
  BY <1>2, <1>3, SameWaiters

(* The initial states of the futex are the bridge's. *)
LEMMA BridgeStart == Init => Bridge!BridgeInit
<1> SUFFICES ASSUME Init PROVE Bridge!BridgeInit
  OBVIOUS
<1>1. \A t \in Thread, s \in Slot : ~Owns(t, s)
  BY FutexAssumption DEF Init, Owns, FreeSlot
<1>2. UnwokenWaiters = {} /\ FlaggedWaiters = {}
  BY <1>1 DEF UnwokenWaiters, FlaggedWaiters, Unwoken, Flagged
<1>3. pending = [k \in Key |-> 0]
  BY DEF Init
<1>4. OwedWakes = {} /\ Terminated = {}
  BY DEF Init, OwedWakes, Owes, NoCall, Terminated
<1> QED
  BY <1>2, <1>3, <1>4 DEF Bridge!BridgeInit

(* A WAIT registers while nothing is pending for its key: the bridge's     *)
(* Enter.                                                                  *)
LEMMA RegisterEnters ==
  ASSUME TypeOK, FutexInv, NEW t \in Thread, Register(t)
  PROVE  Bridge!BridgeNext
<1>1. PICK s \in Slot :
        /\ futexes[s].thread = NoThread
        /\ futexes' = [futexes EXCEPT ![s] =
            [thread |-> t, address |-> call[t].addr, wake |-> FALSE,
             mask |-> {}, timed |-> call[t].timed]]
  BY DEF Register, NewSlot
<1>2. /\ pc[t] = "compared" /\ pending[KeyOf(t)] = 0
      /\ UNCHANGED <<pending, call>>
  BY DEF Register, NewSlot
<1>3. /\ futexes'[s].thread = t /\ ~futexes'[s].wake
      /\ \A s2 \in Slot : s2 # s => futexes'[s2] = futexes[s2]
  BY <1>1 DEF TypeOK
<1>4. \A u \in Thread, s2 \in Slot :
        Owns(u, s2)' <=> Owns(u, s2) \/ (u = t /\ s2 = s)
  BY <1>1, <1>3, FutexAssumption DEF Owns
<1>5. \A s2 \in Slot : ~Owns(t, s2)
  BY <1>2 DEF FutexInv, SlotOwnership, OwnsSlot, Waiting
<1>6. ~Owns(t, s)' \/ Owns(t, s)'
  OBVIOUS
<1>7. \A u \in Thread : ~Owns(u, s)
  BY <1>1, FutexAssumption DEF Owns
<1>8. \A u \in Thread : /\ Unwoken(u)' <=> Unwoken(u) \/ u = t
                        /\ Flagged(u)' <=> Flagged(u)
  BY <1>3, <1>4, <1>5, <1>7 DEF Unwoken, Flagged
<1>9. KeyOf(t) \in Key /\ \A u \in Thread : KeyOf(u)' = KeyOf(u)
  <2>1. call[t] \in WaitCalls
    BY <1>2 DEF FutexInv, CallsMatchPC
  <2> QED
    BY <1>2, <2>1, CallFacts, FutexAssumption DEF KeyOf, Key
<1>10. UnwokenWaiters' = UnwokenWaiters \cup {<<t, KeyOf(t)>>}
  BY <1>8, <1>9 DEF UnwokenWaiters
<1>11. FlaggedWaiters' = FlaggedWaiters
  BY <1>8 DEF FlaggedWaiters
<1>12. UNCHANGED <<OwedWakes, Terminated>>
  <2>1. pc' = [pc EXCEPT ![t] =
                 IF call[t].cmd = "WAIT_BITSET" THEN "registered" ELSE "parking"]
    BY DEF Register, NewSlot
  <2>2. UNCHANGED <<call, woken, terminating>>
    BY DEF Register, NewSlot, ending
  <2>3. UNCHANGED OwedWakes
    BY <1>2, <2>1, <2>2, NoneAsks DEF TypeOK
  <2> QED
    BY <2>2, <2>3 DEF Terminated
<1>13. Bridge!Enter(t, KeyOf(t))
  BY <1>2, <1>10, <1>11, <1>12 DEF Bridge!Enter
<1> QED
  BY <1>9, <1>13 DEF Bridge!BridgeNext

(* A WAIT that gives its slot back was woken (Return), or gave up.         *)
LEMMA LeaveReturns ==
  ASSUME TypeOK, FutexInv, NEW t \in Thread, NEW s \in Slot, Owns(t, s),
         LeaveWait(t, s), UNCHANGED <<pending, OwedWakes, Terminated>>
  PROVE  Bridge!BridgeNext
<1>1. /\ \A s2 \in Slot :
           /\ futexes'[s2].thread = IF s2 = s THEN NoThread ELSE futexes[s2].thread
           /\ futexes'[s2].wake = futexes[s2].wake
      /\ \A u \in Thread : u # t => call'[u] = call[u]
  BY DEF LeaveWait, TypeOK, SlotType
<1>2. \A u \in Thread, s2 \in Slot : Owns(u, s2)' <=> Owns(u, s2) /\ u # t
  <2> SUFFICES ASSUME NEW u \in Thread, NEW s2 \in Slot
               PROVE  Owns(u, s2)' <=> Owns(u, s2) /\ u # t
    OBVIOUS
  <2>1. Owns(t, s2) => s2 = s
    BY DEF FutexInv, SlotOwnership
  <2> QED
    BY <1>1, <2>1, FutexAssumption DEF Owns
<1>3. \A u \in Thread : /\ Unwoken(u)' <=> Unwoken(u) /\ u # t
                        /\ Flagged(u)' <=> Flagged(u) /\ u # t
                        /\ u # t => KeyOf(u)' = KeyOf(u)
  BY <1>1, <1>2 DEF Unwoken, Flagged, KeyOf
<1>4. FlaggedWaiters' = FlaggedWaiters \ {t}
  BY <1>3 DEF FlaggedWaiters
<1>5. UnwokenWaiters' = UnwokenWaiters \ {<<t, KeyOf(t)>>}
  BY <1>3 DEF UnwokenWaiters
<1>6. KeyOf(t) \in Key
  BY WaiterFacts DEF OwnsSlot
<1>7. CASE Flagged(t)
  <2>1. ~Unwoken(t)
    BY <1>7, WaiterFacts
  <2>2. UnwokenWaiters' = UnwokenWaiters
    BY <1>5, <1>6, <2>1, WaitingFact
  <2>3. t \in FlaggedWaiters
    BY <1>7 DEF FlaggedWaiters
  <2>4. Bridge!Return(t)
    BY <1>4, <2>2, <2>3 DEF Bridge!Return
  <2> QED
    BY <2>4 DEF Bridge!BridgeNext
<1>8. CASE ~Flagged(t)
  <2>1. Unwoken(t)
    BY <1>8 DEF Unwoken, Flagged
  <2>2. <<t, KeyOf(t)>> \in UnwokenWaiters
    BY <1>6, <2>1, WaitingFact
  <2>3. FlaggedWaiters' = FlaggedWaiters
    BY <1>4, <1>8 DEF FlaggedWaiters
  <2>4. Bridge!GiveUp(t, KeyOf(t))
    BY <1>5, <2>2, <2>3 DEF Bridge!GiveUp
  <2> QED
    BY <1>6, <2>4 DEF Bridge!BridgeNext
<1> QED
  BY <1>7, <1>8

(* A turn of the wait loop leaves, or goes on to wait unseen. *)
LEMMA LoopReturns ==
  ASSUME TypeOK, FutexInv, NEW t \in Thread, NEW s \in Slot, Owns(t, s),
         LoopTurn(t, s), UNCHANGED <<pending, OwedWakes, Terminated>>
  PROVE  Bridge!BridgeNext \/ UNCHANGED Seen
<1>1. CASE LeaveWait(t, s)
  BY <1>1, LeaveReturns
<1>2. CASE ~LeaveWait(t, s)
  <2>1. UNCHANGED <<futexes, call>>
    BY <1>2 DEF LoopTurn
  <2>2. UNCHANGED <<UnwokenWaiters, FlaggedWaiters>>
    BY <2>1, StillWaiters
  <2> QED
    BY <2>2 DEF Seen
<1> QED
  BY <1>1, <1>2

(* The scan flags a waiter of its key: the bridge's Release. *)
LEMMA VisitReleases ==
  ASSUME TypeOK, FutexInv, NEW t \in Thread, WakeVisit(t)
  PROVE  Bridge!BridgeNext \/ UNCHANGED Seen
<1>1. scanPos \in Slot /\ UNCHANGED <<pending, call, Terminated>>
  BY FutexAssumption DEF WakeVisit, TypeOK, Slot, Terminated, ending
<1>2. CASE ~Matches(t, scanPos)
  <2>1. UNCHANGED futexes
    BY <1>2 DEF WakeVisit
  <2>2. UNCHANGED <<UnwokenWaiters, FlaggedWaiters>>
    BY <1>1, <2>1, StillWaiters
  <2>3. UNCHANGED OwedWakes
    BY <1>1, <1>2, StillOwed DEF WakeVisit, Owes
  <2> QED
    BY <1>1, <2>2, <2>3 DEF Seen
<1>3. CASE Matches(t, scanPos)
  <2> DEFINE u == futexes[scanPos].thread
  <2>1. /\ futexes[scanPos] \in SlotType
        /\ u \in Thread /\ Owns(u, scanPos) /\ ~futexes[scanPos].wake
    BY <1>1, <1>3 DEF Matches, TypeOK, SlotType, Owns
  <2> HIDE DEF u
  <2>2. \A s \in Slot : /\ futexes'[s].thread = futexes[s].thread
                        /\ futexes'[s].wake <=> futexes[s].wake \/ s = scanPos
    <3>1. /\ futexes'[scanPos] = [futexes[scanPos] EXCEPT !.wake = TRUE]
          /\ \A s \in Slot : s # scanPos => futexes'[s] = futexes[s]
      BY <1>1, <1>3 DEF TypeOK, WakeVisit
    <3>2. futexes'[scanPos].thread = futexes[scanPos].thread /\ futexes'[scanPos].wake
      BY <2>1, <3>1 DEF SlotType
    <3> QED
      BY <3>1, <3>2
  <2>3. \A v \in Thread, s \in Slot : Owns(v, s)' <=> Owns(v, s)
    BY <2>2 DEF Owns
  <2>4. \A s \in Slot : Owns(u, s) => s = scanPos
    BY <1>1, <2>1 DEF FutexInv, SlotOwnership
  <2>5. \A v \in Thread : Owns(v, scanPos) => v = u
    BY <2>1 DEF Owns
  <2>6. \A v \in Thread : /\ Unwoken(v)' <=> Unwoken(v) /\ v # u
                          /\ Flagged(v)' <=> Flagged(v) \/ v = u
                          /\ KeyOf(v)' = KeyOf(v)
    BY <1>1, <2>1, <2>2, <2>3, <2>4, <2>5 DEF Unwoken, Flagged, KeyOf
  <2>7. Unwoken(u) /\ KeyOf(u) \in Key
    BY <1>1, <2>1, WaiterFacts DEF Unwoken, OwnsSlot
  <2>8. UnwokenWaiters' = UnwokenWaiters \ {<<u, KeyOf(u)>>}
    BY <2>6 DEF UnwokenWaiters
  <2>9. FlaggedWaiters' = FlaggedWaiters \cup {u}
    BY <2>1, <2>6 DEF FlaggedWaiters
  <2>10. <<u, KeyOf(u)>> \in UnwokenWaiters
    BY <2>1, <2>7, WaitingFact
  <2>11. KeyOf(u) = KeyOf(t)
    BY <1>1, <1>3, <2>1 DEF Matches, KeyOf, Owns, FutexInv, SlotAddress
  <2>12. OwedWakes' = OwedWakes \ {<<t, KeyOf(t)>>}
    <3>1. pc[t] = "scan" /\ woken' = woken + 1 /\ woken \in Nat
      BY <1>3 DEF WakeVisit, TypeOK
    <3>2. \A v \in Thread : pc[v] = "scan" => v = t
      BY <3>1 DEF FutexInv, BucketOwner
    <3>3. \A v \in Thread : pc'[v] = pc[v] \/ (pc[v] = "asleep" /\ pc'[v] = "notified")
      BY <1>3 DEF WakeVisit, Notify, TypeOK
    <3>4. ~Owes(t)'
      BY <3>1, <3>3 DEF Owes
    <3>5. \A v \in Thread : v # t => (Owes(v)' <=> Owes(v))
      BY <1>1, <3>2, <3>3 DEF Owes
    <3>6. \A v \in Thread : KeyOf(v)' = KeyOf(v)
      BY <2>6
    <3> QED
      BY <3>4, <3>5, <3>6 DEF OwedWakes
  <2>13. Bridge!Release(t, u, KeyOf(u))
    BY <1>1, <2>8, <2>9, <2>10, <2>11, <2>12 DEF Bridge!Release
  <2> QED
    BY <2>1, <2>7, <2>13 DEF Bridge!BridgeNext
<1> QED
  BY <1>2, <1>3

(* The bridge counts its banked keys as the futex does.                   *)
LEMMA SameCardinality == \A S : Bridge!Cardinality(S) = Cardinality(S)
BY DEF Bridge!Cardinality, Cardinality

(* A WAKE that returns owes nothing: it has flagged somebody, or it banks  *)
(* its wake over no waiter (the bridge's Bank, with the record the full    *)
(* table gives up).                                                        *)
LEMMA EndBanks ==
  ASSUME TypeOK, FutexInv, NEW t \in Thread, WakeEnd(t)
  PROVE  Bridge!BridgeNext \/ UNCHANGED Seen
<1>1. /\ pc[t] = "scan" /\ UNCHANGED futexes
      /\ \A u \in Thread : u # t => call'[u] = call[u]
  BY DEF WakeEnd, TypeOK
<1>2. UNCHANGED <<UnwokenWaiters, FlaggedWaiters>>
  <2>1. \A u \in Thread : pc[u] \in Waiting => call'[u] = call[u]
    BY <1>1 DEF Waiting
  <2> QED
    BY <1>1, <2>1, StillWaiters
<1>3. UNCHANGED Terminated
  BY DEF WakeEnd, Terminated, ending
<1>4. /\ ~Owes(t)' /\ (Owes(t) <=> woken = 0 /\ call[t].cmd = "WAKE")
      /\ \A u \in Thread : u # t => (Owes(u)' <=> Owes(u)) /\ KeyOf(u)' = KeyOf(u)
  <2>1. /\ pc'[t] \notin {"wakecall", "scan"} /\ UNCHANGED woken
        /\ \A u \in Thread : u # t => pc'[u] = pc[u]
    BY DEF WakeEnd, TypeOK
  <2> QED
    BY <1>1, <2>1 DEF Owes, KeyOf
<1>5. CASE ~(woken = 0 /\ call[t].cmd = "WAKE")
  <2>1. UNCHANGED <<pending, OwedWakes>>
    BY <1>4, <1>5 DEF WakeEnd, OwedWakes
  <2> QED
    BY <1>2, <1>3, <2>1 DEF Seen
<1>6. CASE woken = 0 /\ call[t].cmd = "WAKE"
  <2>0. RecordPending(KeyOf(t))
    BY <1>6 DEF WakeEnd
  <2>1. call[t].addr \in Addr /\ call[t].val \in Nat \ {0}
    BY <1>1, CallFacts DEF FutexInv, CallsMatchPC
  <2>2. KeyOf(t) \in Key
    BY <2>1, FutexAssumption DEF KeyOf, Key
  <2>3. \A s \in Slot : s < scanPos
    BY <1>6, <2>1, FutexAssumption DEF WakeEnd, Slot
  <2>4. \A u \in Thread : Unwoken(u) => KeyOf(u) # KeyOf(t)
    BY <1>1, <1>6, <2>3 DEF Unwoken, FutexInv, NothingLeftBehind
  <2>5. ~Bridge!Blocked(KeyOf(t))
    BY <2>2, <2>4, WaitingFact DEF Bridge!Blocked
  <2>6. OwedWakes' = OwedWakes \ {<<t, KeyOf(t)>>} /\ <<t, KeyOf(t)>> \in OwedWakes
    BY <1>4, <1>6 DEF OwedWakes
  <2> DEFINE k == KeyOf(t)
  <2>7. /\ k \in Key /\ ~Bridge!Blocked(k) /\ RecordPending(k)
        /\ OwedWakes' = OwedWakes \ {<<t, k>>} /\ <<t, k>> \in OwedWakes
    BY <2>0, <2>2, <2>5, <2>6
  <2> HIDE DEF k
  <2>8. Bridge!Banked = Recorded /\ (k \in Recorded <=> pending[k] > 0)
    BY <2>7 DEF Bridge!Banked, Recorded
  <2>9. pending[k] \in Nat
    BY <2>7 DEF TypeOK
  <2>10. Bridge!Bank(t, k)
    <3>1. CASE pending[k] > 0
      BY <1>2, <1>3, <2>7, <2>8, <3>1 DEF RecordPending, Bridge!Bank
    <3>2. CASE /\ pending[k] = 0 /\ Cardinality(Recorded) < MaxPendingWakes
               /\ pending' = [pending EXCEPT ![k] = 1]
      <4>1. pending' = [pending EXCEPT ![k] =
                          IF pending[k] < 2 THEN pending[k] + 1 ELSE pending[k]]
        BY <3>2
      <4>2. Cardinality(Bridge!Banked) < MaxPendingWakes
        BY <2>8, <3>2
      <4> QED
        BY <1>2, <1>3, <2>7, <4>1, <4>2, SameCardinality DEF Bridge!Bank
    <3>3. CASE /\ pending[k] = 0 /\ Cardinality(Recorded) >= MaxPendingWakes
               /\ \E victim \in Recorded :
                    pending' = [pending EXCEPT ![victim] = 0, ![k] = 1]
      <4>1. k \notin Bridge!Banked /\ Cardinality(Bridge!Banked) >= MaxPendingWakes
        BY <2>8, <3>3
      <4>2. \E victim \in Bridge!Banked :
              pending' = [pending EXCEPT ![victim] = 0, ![k] = 1]
        BY <2>8, <3>3
      <4> QED
        BY <1>2, <1>3, <2>7, <4>1, <4>2, SameCardinality DEF Bridge!Bank
    <3> QED
      BY <2>7, <3>1, <3>2, <3>3 DEF RecordPending
  <2> QED
    BY <2>7, <2>10 DEF Bridge!BridgeNext
<1> QED
  BY <1>5, <1>6

(* A call of WAKE asks for a wake, if it is not a BITSET one.              *)
LEMMA CallAsks ==
  ASSUME TypeOK, FutexInv, NEW t \in Thread, ~Owes(t),
         pc[t] \in {"user", "cleanup", "wakecall"},
         NEW c \in WakeCalls \cup ExitCalls, IssueWake(t, c),
         UNCHANGED <<futexes, pending, woken, terminating>>
  PROVE  Bridge!BridgeNext \/ UNCHANGED Seen
<1>1. /\ pc'[t] = "wakecall" /\ call'[t] = c
      /\ \A u \in Thread \ {t} : pc'[u] = pc[u] /\ call'[u] = call[u]
  BY DEF IssueWake, TypeOK
<1>2. UNCHANGED <<UnwokenWaiters, FlaggedWaiters, pending, Terminated>>
  <2>1. \A u \in Thread : pc[u] \in Waiting => call'[u] = call[u]
    BY <1>1 DEF Waiting
  <2> QED
    BY <2>1, StillWaiters DEF Terminated
<1>3. /\ Owes(t)' <=> c.cmd = "WAKE"
      /\ \A u \in Thread : u # t => (Owes(u)' <=> Owes(u)) /\ KeyOf(u)' = KeyOf(u)
  BY <1>1 DEF Owes, KeyOf
<1>4. CASE c.cmd # "WAKE"
  <2>1. UNCHANGED OwedWakes
    BY <1>1, <1>3, <1>4, StillOwed
  <2> QED
    BY <1>2, <2>1 DEF Seen
<1>5. CASE c.cmd = "WAKE"
  <2> DEFINE k == KeyOf(t)'
  <2>1. k \in Key
    BY <1>1, CallFacts, FutexAssumption DEF KeyOf, Key
  <2>2. OwedWakes' = OwedWakes \cup {<<t, k>>}
    BY <1>3, <1>5 DEF OwedWakes
  <2>3. \A j \in Key : <<t, j>> \notin OwedWakes
    BY OwedFacts
  <2>4. Bridge!Ask(t, k)
    BY <1>2, <2>2, <2>3 DEF Bridge!Ask
  <2> QED
    BY <2>1, <2>4 DEF Bridge!BridgeNext
<1> QED
  BY <1>4, <1>5

(* An exit asks for the wake of clear_child_tid; that of a terminated      *)
(* thread may leave a wake undone.                                         *)
LEMMA ExitAsks ==
  ASSUME TypeOK, FutexInv, NEW t \in Thread, Exit(t)
  PROVE  Bridge!BridgeNext \/ UNCHANGED Seen
<1>1. /\ pc[t] \in {"user", "cleanup", "wakecall"}
      /\ pc[t] = "wakecall" => terminating[t]
      /\ UNCHANGED <<futexes, pending, woken, terminating>>
  BY DEF Exit, Exits
<1>2. /\ pc'[t] \in {"dead", "wakecall"}
      /\ \A u \in Thread \ {t} : pc'[u] = pc[u] /\ call'[u] = call[u]
  BY DEF Exit, IssueWake, TypeOK
<1>3. UNCHANGED <<UnwokenWaiters, FlaggedWaiters, pending, Terminated>>
  <2>1. \A u \in Thread : pc[u] \in Waiting => call'[u] = call[u]
    BY <1>1, <1>2 DEF Waiting
  <2> QED
    BY <1>1, <2>1, StillWaiters DEF Terminated
<1>4. \A u \in Thread : u # t => (Owes(u)' <=> Owes(u)) /\ KeyOf(u)' = KeyOf(u)
  BY <1>1, <1>2 DEF Owes, KeyOf
<1>5. CASE ~Owes(t) /\ ClearTid[t] = NoAddr
  <2>1. pc'[t] = "dead"
    BY <1>5 DEF Exit, TypeOK
  <2>2. UNCHANGED OwedWakes
    BY <1>2, <1>4, <1>5, <2>1, StillOwed DEF Owes
  <2> QED
    BY <1>3, <2>2 DEF Seen
<1>6. CASE ~Owes(t) /\ ClearTid[t] # NoAddr
  <2>1. ExitWake(ClearTid[t]) \in ExitCalls
    BY <1>6, CallFacts, FutexAssumption
  <2> QED
    BY <1>1, <1>6, <2>1, CallAsks DEF Exit
<1>7. CASE Owes(t)
  <2>1. t \in Terminated
    BY <1>1, <1>7 DEF Owes, Terminated
  <2>2. KeyOf(t) \in Key /\ <<t, KeyOf(t)>> \in OwedWakes
    BY <1>7, OwedFacts
  <2>3. ~Owes(t)' => OwedWakes' = OwedWakes \ {<<t, KeyOf(t)>>}
    BY <1>4 DEF OwedWakes
  <2>4. Owes(t)' => KeyOf(t)' \in Key
    <3>1. ClearTid[t] # NoAddr => call'[t] = ExitWake(ClearTid[t])
      BY DEF Exit, IssueWake, TypeOK
    <3>2. ClearTid[t] = NoAddr => pc'[t] = "dead"
      BY DEF Exit, TypeOK
    <3>3. Owes(t)' => call'[t].addr \in Addr
      BY <3>1, <3>2, CallFacts, FutexAssumption DEF Owes
    <3> QED
      BY <3>3, FutexAssumption DEF KeyOf, Key
  <2>5. Owes(t)' => OwedWakes' = (OwedWakes \ {<<t, KeyOf(t)>>}) \cup {<<t, KeyOf(t)'>>}
    BY <1>4 DEF OwedWakes
  <2>6. Bridge!Abandon(t, KeyOf(t))
    BY <1>3, <2>1, <2>2, <2>3, <2>4, <2>5 DEF Bridge!Abandon
  <2> QED
    BY <2>2, <2>6 DEF Bridge!BridgeNext
<1> QED
  BY <1>5, <1>6, <1>7

(* Every step is a step of the bridge, or leaves what it sees alone.       *)
LEMMA BridgeStep ==
  TypeOK /\ FutexInv /\ [Next]_vars => Bridge!BridgeNext \/ UNCHANGED Seen
<1> SUFFICES ASSUME TypeOK, FutexInv, [Next]_vars
             PROVE  Bridge!BridgeNext \/ UNCHANGED Seen
  OBVIOUS
<1>1. ASSUME UNCHANGED <<futexes, pending, terminating>>,
             \A t \in Thread : pc[t] \in Waiting => call'[t] = call[t]
      PROVE  UNCHANGED <<UnwokenWaiters, FlaggedWaiters, pending, Terminated>>
  BY <1>1, StillWaiters DEF Terminated
<1>2. ASSUME NEW t \in Thread, NEW c \in GuestWaits[t], Compare(t, c)
      PROVE  UNCHANGED Seen
  <2>1. UNCHANGED OwedWakes
    BY <1>2, NoneAsks DEF Compare, TypeOK
  <2> QED
    BY <1>1, <1>2, <2>1 DEF Compare, TypeOK, Waiting, Seen, ending
<1>3. ASSUME NEW t \in Thread, ConsumePending(t) PROVE Bridge!BridgeNext
  <2>1. KeyOf(t) \in Key
    <3>1. call[t] \in WaitCalls
      BY <1>3 DEF ConsumePending, FutexInv, CallsMatchPC
    <3> QED
      BY <3>1, CallFacts, FutexAssumption DEF KeyOf, Key
  <2>2. UNCHANGED futexes /\ \A u \in Thread : pc[u] \in Waiting => call'[u] = call[u]
    BY <1>3 DEF ConsumePending, TypeOK, Waiting
  <2>3. UNCHANGED <<UnwokenWaiters, FlaggedWaiters, Terminated>>
    BY <1>3, <2>2, StillWaiters DEF ConsumePending, Terminated, ending
  <2>4. UNCHANGED OwedWakes
    BY <1>3, NoneAsks DEF ConsumePending, TypeOK
  <2>5. Bridge!Spend(KeyOf(t))
    BY <1>3, <2>3, <2>4 DEF ConsumePending, Bridge!Spend
  <2> QED
    BY <2>1, <2>5 DEF Bridge!BridgeNext
<1>4. ASSUME NEW t \in Thread, Register(t) PROVE Bridge!BridgeNext
  BY <1>4, RegisterEnters
<1>5. ASSUME NEW t \in Thread, NEW s \in Slot, SetMask(t, s) PROVE UNCHANGED Seen
  <2>1. \A s2 \in Slot : /\ futexes'[s2].thread = futexes[s2].thread
                         /\ futexes'[s2].wake = futexes[s2].wake
    <3>1. /\ futexes'[s] = [futexes[s] EXCEPT !.mask = call[t].mask]
          /\ \A s2 \in Slot : s2 # s => futexes'[s2] = futexes[s2]
      BY <1>5 DEF SetMask, TypeOK
    <3>2. futexes[s] \in SlotType
      BY DEF TypeOK
    <3> QED
      BY <3>1, <3>2 DEF SlotType
  <2>2. UNCHANGED OwedWakes
    BY <1>5, NoneAsks DEF SetMask, TypeOK
  <2> QED
    BY <1>5, <2>1, <2>2, StillWaiters DEF SetMask, Seen, Terminated, ending
<1>6. ASSUME NEW t \in Thread, NEW s \in Slot, Park(t, s) \/ Resume(t, s)
      PROVE  Bridge!BridgeNext \/ UNCHANGED Seen
  <2>1. /\ Owns(t, s) /\ UNCHANGED <<pending, Terminated, woken>>
        /\ pc[t] \in {"parking", "notified"}
        /\ LeaveWait(t, s) \/ LoopTurn(t, s)
    BY <1>6 DEF Park, Resume, Terminated, ending
  <2>2. /\ pc'[t] \in {"user", "checked"}
        /\ \A u \in Thread \ {t} : pc'[u] = pc[u] /\ call'[u] = call[u]
    BY <2>1 DEF LoopTurn, LeaveWait, TypeOK
  <2>3. UNCHANGED OwedWakes
    BY <2>1, <2>2, NoneAsks
  <2> QED
    BY <2>1, <2>3, LeaveReturns, LoopReturns
<1>7. ASSUME NEW t \in Thread, Sleep(t) \/ Stir(t) PROVE UNCHANGED Seen
  <2>1. UNCHANGED OwedWakes
    BY <1>7, NoneAsks DEF Sleep, Stir, TypeOK
  <2> QED
    BY <1>1, <1>7, <2>1 DEF Sleep, Stir, Seen, ending
<1>8. ASSUME NEW t \in Thread, NEW c \in GuestWakes,
             Alert(t, c) \/ \E w \in Word : StoreThenWake(t, c, w)
      PROVE  Bridge!BridgeNext \/ UNCHANGED Seen
  <2>1. /\ pc[t] = "user" /\ IssueWake(t, c)
        /\ UNCHANGED <<futexes, pending, woken, terminating>>
    BY <1>8 DEF Alert, StoreThenWake, ending
  <2>2. ~Owes(t) /\ c \in WakeCalls
    BY <2>1, FutexAssumption DEF Owes
  <2> QED
    BY <2>1, <2>2, CallAsks
<1>9. ASSUME NEW t \in Thread, WakeBegin(t) PROVE UNCHANGED Seen
  <2>1. \A u \in Thread : pc[u] # "scan"
    BY <1>9, FutexAssumption DEF WakeBegin, FutexInv, BucketOwner
  <2>2. \A u \in Thread : Owes(u)' <=> Owes(u)
    BY <1>9, <2>1 DEF WakeBegin, StartScan, Owes, TypeOK
  <2>3. UNCHANGED OwedWakes
    BY <1>9, <2>2, StillOwed DEF WakeBegin, StartScan
  <2> QED
    BY <1>1, <1>9, <2>3 DEF WakeBegin, StartScan, Seen, ending
<1>10. ASSUME NEW t \in Thread, WakeVisit(t)
       PROVE  Bridge!BridgeNext \/ UNCHANGED Seen
  BY <1>10, VisitReleases
<1>11. ASSUME NEW t \in Thread, WakeEnd(t)
       PROVE  Bridge!BridgeNext \/ UNCHANGED Seen
  BY <1>11, EndBanks
<1>12. ASSUME NEW t \in Thread, PostSignal(t) \/ DeliverSignal(t)
       PROVE  UNCHANGED Seen
  <2>1. UNCHANGED OwedWakes
    BY <1>12, StillOwed DEF PostSignal, DeliverSignal, Owes
  <2> QED
    BY <1>1, <1>12, <2>1 DEF PostSignal, DeliverSignal, Seen, ending
<1>13. ASSUME NEW t \in Thread, Exit(t)
       PROVE  Bridge!BridgeNext \/ UNCHANGED Seen
  BY <1>13, ExitAsks
<1>14. ASSUME NEW t \in Thread, NEW parent \in Thread, NEW w \in Word,
              Clone(parent, t, w)
       PROVE  UNCHANGED Seen
  <2>1. UNCHANGED OwedWakes
    BY <1>14, NoneAsks DEF Clone, TypeOK
  <2> QED
    BY <1>1, <1>14, <2>1 DEF Clone, Seen
<1>15. ASSUME NEW t \in Thread, TerminateFlag(t) PROVE Bridge!BridgeNext
  <2>1. Terminated' = Terminated \cup {t}
    BY <1>15 DEF TerminateFlag, TypeOK, Terminated
  <2>2. UNCHANGED OwedWakes
    BY <1>15, StillOwed DEF TerminateFlag, Owes
  <2>3. UNCHANGED <<UnwokenWaiters, FlaggedWaiters, pending>>
    BY <1>15, StillWaiters DEF TerminateFlag
  <2>4. Bridge!Doom(t)
    BY <2>1, <2>2, <2>3 DEF Bridge!Doom
  <2> QED
    BY <2>4 DEF Bridge!BridgeNext
<1>16. ASSUME NEW t \in Thread, TerminateRead(t) \/ TerminateSignal(t)
       PROVE  UNCHANGED Seen
  <2>1. \A u \in Thread :
          pc'[u] = pc[u] \/ (pc[u] = "asleep" /\ pc'[u] = "notified")
    BY <1>16 DEF TerminateRead, TerminateSignal, Notify
  <2>2. UNCHANGED OwedWakes
    BY <1>16, <2>1, StillOwed DEF TerminateRead, TerminateSignal, Owes
  <2> QED
    BY <1>1, <1>16, <2>2 DEF TerminateRead, TerminateSignal, Seen
<1>17. CASE UNCHANGED vars
  <2>1. UNCHANGED OwedWakes
    BY <1>17, StillOwed DEF vars, Owes
  <2> QED
    BY <1>1, <1>17, <2>1 DEF vars, Seen, ending
<1> QED
  BY <1>2, <1>3, <1>4, <1>5, <1>6, <1>7, <1>8, <1>9, <1>10, <1>11, <1>12,
     <1>13, <1>14, <1>15, <1>16, <1>17 DEF Next, Wait, Wake, Terminate

(* The futex keeps the promise made to edge-triggered guests, whatever     *)
(* they call and however WAIT and WAKE interleave: every WAKE that returns *)
(* has released a waiter or is banked over none, and no thread starts to   *)
(* wait over a banked wake.                                                *)
THEOREM BridgeImplemented == Spec => ImplementsBridge
<1>1. Init => Bridge!BridgeInit
  BY BridgeStart
<1>2. TypeOK /\ FutexInv /\ [Next]_vars => [Bridge!BridgeNext]_Bridge!bridgeVars
  BY BridgeStep DEF Seen, Bridge!bridgeVars
<1> QED
  BY <1>1, <1>2, TypeCorrect, InvCorrect, PTL
  DEF Spec, ImplementsBridge, Bridge!BridgeSpec
=============================================================================
