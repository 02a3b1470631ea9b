----------------------------- MODULE MCGralloc ------------------------------
(***************************************************************************)
(* An instance of Gralloc: two threads that share two handles, and two     *)
(* places in the address space.                                            *)
(***************************************************************************)
EXTENDS Gralloc, TLC

CONSTANTS t1, t2, h1, h2, a1, a2

MCThreads == {t1, t2}
MCHandles == {h1, h2}
MCAddresses == {a1, a2}
Symmetry ==
    Permutations(MCThreads) \cup Permutations(MCHandles) \cup Permutations(MCAddresses)
=============================================================================
