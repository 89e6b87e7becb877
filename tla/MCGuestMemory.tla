---------------------------- MODULE MCGuestMemory ----------------------------
(***************************************************************************)
(* Instances of GuestMemory for TLC: what the programs of each run map.    *)
(***************************************************************************)
EXTENDS GuestMemory, TLC

CONSTANTS f, w1, w2

OnDisk == [x \in File |-> 1]
Blank  == [x \in File |-> Zero]

Anonymous     == [file |-> NoFile, shared |-> FALSE, write |-> TRUE]
PrivateFile   == [file |-> f, shared |-> FALSE, write |-> TRUE]
SharedFile    == [file |-> f, shared |-> TRUE, write |-> TRUE]

AllPrograms     == {Anonymous, PrivateFile, SharedFile}
PrivatePrograms == {Anonymous, PrivateFile}

Symmetry       == Permutations(Ram)
ThreadSymmetry == Symmetry \cup Permutations({w1, w2})
=============================================================================
