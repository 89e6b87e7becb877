----------------------------- MODULE WakeBridge ------------------------------
(***************************************************************************)
(* What the 64-bit futex promises to an edge-triggered guest (wine's       *)
(* NtAlertThreadByThreadId waits on a word that never changes), stated     *)
(* without slots, scans or locks: a wake that somebody asked for is owed   *)
(* until it has released a thread that waits, or is banked as a credit     *)
(* that a later wait spends instead of blocking.  No thread starts to wait *)
(* over a credit, and no credit is banked over a thread that waits.  Only  *)
(* a thread that is being terminated may leave a wake undone.  The bank    *)
(* has Room for so many keys: a full one gives up a key for another, and   *)
(* the credits of one key are counted up to two.                           *)
(***************************************************************************)
EXTENDS Integers, FiniteSets

CONSTANTS Thread, Key, Room

VARIABLES
  waiting,    \* threads that wait for a wake, with the key they wait on
  released,   \* threads a wake released, which have not returned yet
  credit,     \* wakes banked for each key
  owed,       \* threads that asked for a wake nothing has come of yet, with its key
  doomed      \* threads that are being terminated

bridgeVars == <<waiting, released, credit, owed, doomed>>

BridgeInit ==
  /\ waiting = {}
  /\ released = {}
  /\ credit = [k \in Key |-> 0]
  /\ owed = {}
  /\ doomed = {}

Blocked(k) == \E t \in Thread : <<t, k>> \in waiting
Banked == {k \in Key : credit[k] > 0}

Enter(t, k) ==
  /\ credit[k] = 0
  /\ waiting' = waiting \cup {<<t, k>>}
  /\ UNCHANGED <<released, credit, owed, doomed>>

Spend(k) ==
  /\ credit[k] > 0
  /\ credit' = [credit EXCEPT ![k] = @ - 1]
  /\ UNCHANGED <<waiting, released, owed, doomed>>

\* u asks for a wake
Ask(u, k) ==
  /\ \A j \in Key : <<u, j>> \notin owed
  /\ owed' = owed \cup {<<u, k>>}
  /\ UNCHANGED <<waiting, released, credit, doomed>>

\* a wake of u releases t
Release(u, t, k) ==
  /\ <<t, k>> \in waiting
  /\ waiting' = waiting \ {<<t, k>>}
  /\ UNCHANGED <<credit, doomed>>
  /\ released' = released \cup {t}
  /\ owed' = owed \ {<<u, k>>}

\* a wake of u finds nobody
Bank(u, k) ==
  /\ <<u, k>> \in owed
  /\ ~Blocked(k)
  /\ \/ /\ k \in Banked \/ Cardinality(Banked) < Room
        /\ credit' = [credit EXCEPT ![k] = IF @ < 2 THEN @ + 1 ELSE @]
     \/ /\ k \notin Banked /\ Cardinality(Banked) >= Room
        /\ \E victim \in Banked :
             credit' = [credit EXCEPT ![victim] = 0, ![k] = 1]
  /\ owed' = owed \ {<<u, k>>}
  /\ UNCHANGED <<waiting, released, doomed>>

\* a released thread returns
Return(t) ==
  /\ t \in released
  /\ released' = released \ {t}
  /\ UNCHANGED <<waiting, credit, owed, doomed>>

\* a timeout, a signal, a word that moved, or termination
GiveUp(t, k) ==
  /\ <<t, k>> \in waiting
  /\ waiting' = waiting \ {<<t, k>>}
  /\ UNCHANGED <<released, credit, owed, doomed>>

Doom(u) ==
  /\ doomed' = doomed \cup {u}
  /\ UNCHANGED <<waiting, released, credit, owed>>

\* a thread that is terminated before its wake was done may ask for another
Abandon(u, k) ==
  /\ u \in doomed
  /\ <<u, k>> \in owed
  /\ \/ owed' = owed \ {<<u, k>>}
     \/ \E j \in Key : owed' = (owed \ {<<u, k>>}) \cup {<<u, j>>}
  /\ UNCHANGED <<waiting, released, credit, doomed>>

BridgeNext ==
  \/ \E t \in Thread : Return(t) \/ Doom(t)
  \/ \E k \in Key :
       \/ Spend(k)
       \/ \E t \in Thread :
            \/ Enter(t, k) \/ GiveUp(t, k) \/ Ask(t, k) \/ Bank(t, k) \/ Abandon(t, k)
            \/ \E u \in Thread : Release(u, t, k)

BridgeSpec == BridgeInit /\ [][BridgeNext]_bridgeVars
=============================================================================
