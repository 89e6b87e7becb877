---------------------------- MODULE AddressSpaces ----------------------------
(***************************************************************************)
(* What mmap, munmap, fork and stores promise to programs, without page    *)
(* tables, host pages, reference counts or faults.  A page of a process    *)
(* has contents of its own, or is a page of a file: a shared page always,  *)
(* a private one until the process writes it.                              *)
(***************************************************************************)
CONSTANTS
  Proc, First,   \* processes, and the one that runs at the start
  Page,          \* pages of each
  Value, Zero,   \* contents of a page; a new page holds Zero
  File, Disk,    \* pages of files, and their first contents
  MapKinds,      \* what is mapped: [file, shared, write]
  NoFile

VARIABLES
  alive,   \* the processes
  image,   \* the contents of each file page
  back,    \* what a page is: "none", "own", or a file
  shared,  \* whether it is a shared mapping
  own      \* its own contents

vars == <<alive, image, back, shared, own>>

Init ==
  /\ alive = {First}
  /\ image = Disk
  /\ back = [p \in Proc |-> [g \in Page |-> "none"]]
  /\ shared = [p \in Proc |-> [g \in Page |-> FALSE]]
  /\ own = [p \in Proc |-> [g \in Page |-> Zero]]

Becomes(p, g, b, s, v) ==
  /\ back' = [back EXCEPT ![p][g] = b]
  /\ shared' = [shared EXCEPT ![p][g] = s]
  /\ own' = [own EXCEPT ![p][g] = v]

Map(p, g, k) ==
  /\ p \in alive
  /\ Becomes(p, g, IF k.file = NoFile THEN "own" ELSE k.file, k.shared, Zero)
  /\ UNCHANGED <<alive, image>>

Unmap(p, g) ==
  /\ p \in alive
  /\ Becomes(p, g, "none", FALSE, Zero)
  /\ UNCHANGED <<alive, image>>

Write(p, g, v) ==
  /\ p \in alive /\ back[p][g] # "none"
  /\ IF shared[p][g] /\ back[p][g] \in File
     THEN /\ image' = [image EXCEPT ![back[p][g]] = v]
          /\ UNCHANGED <<back, shared, own>>
     ELSE /\ Becomes(p, g, "own", shared[p][g], v)
          /\ UNCHANGED image
  /\ UNCHANGED alive

\* The child may get copies of private file pages (taken) at once.
Fork(p, q, taken) ==
  /\ p \in alive /\ q \notin alive
  /\ \A g \in taken : back[p][g] \in File /\ ~shared[p][g]
  /\ alive' = alive \cup {q}
  /\ back' = [back EXCEPT ![q] = [g \in Page |-> IF g \in taken THEN "own" ELSE back[p][g]]]
  /\ shared' = [shared EXCEPT ![q] = shared[p]]
  /\ own' = [own EXCEPT ![q] =
               [g \in Page |-> IF g \in taken THEN image[back[p][g]] ELSE own[p][g]]]
  /\ UNCHANGED image

Exit(p) ==
  /\ p \in alive /\ \A g \in Page : back[p][g] = "none"
  /\ alive' = alive \ {p}
  /\ UNCHANGED <<image, back, shared, own>>

Next ==
  \E p \in Proc :
    \/ \E g \in Page :
         \/ \E k \in MapKinds : Map(p, g, k)
         \/ Unmap(p, g)
         \/ \E v \in Value : Write(p, g, v)
    \/ \E q \in Proc, taken \in SUBSET Page : Fork(p, q, taken)
    \/ Exit(p)

Spec == Init /\ [][Next]_vars
=============================================================================
