----------------------------- MODULE RecordLocks -----------------------------
(***************************************************************************)
(* What record locks on a file promise to programs: a process has          *)
(* descriptors of the file and bytes that it has locked.  There are no     *)
(* ranges, lists, sleepers or calls under way.                             *)
(***************************************************************************)
CONSTANTS
  Proc,
  Desc,    \* descriptors of the file
  Asked    \* the sets of bytes that are locked and unlocked

VARIABLES
  descs,   \* the descriptors of each process
  held     \* the bytes each process has locked

vars == <<descs, held>>

Init ==
  /\ descs = [p \in Proc |-> {}]
  /\ held = [p \in Proc |-> {}]

Open(p, d) ==
  /\ d \notin descs[p]
  /\ descs' = [descs EXCEPT ![p] = @ \cup {d}]
  /\ UNCHANGED held

\* With any one of its descriptors go all locks of the process.
Close(p, d) ==
  /\ d \in descs[p]
  /\ descs' = [descs EXCEPT ![p] = @ \ {d}]
  /\ held' = [held EXCEPT ![p] = {}]

Lock(p, bytes) ==
  /\ descs[p] # {}
  /\ \A q \in Proc \ {p} : held[q] \cap bytes = {}
  /\ held' = [held EXCEPT ![p] = @ \cup bytes]
  /\ UNCHANGED descs

\* The process may lose more of its own bytes than it asked for.
Unlock(p, bytes) ==
  /\ descs[p] # {}
  /\ \E kept \in SUBSET (held[p] \ bytes) : held' = [held EXCEPT ![p] = kept]
  /\ UNCHANGED descs

Next ==
  \E p \in Proc :
    \/ \E d \in Desc : Open(p, d) \/ Close(p, d)
    \/ \E bytes \in Asked : Lock(p, bytes) \/ Unlock(p, bytes)

Spec == Init /\ [][Next]_vars
=============================================================================
