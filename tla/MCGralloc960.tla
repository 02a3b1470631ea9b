---------------------------- MODULE MCGralloc960 ----------------------------
(***************************************************************************)
(* Instance of Gralloc960 for TLC: two threads, two buffers, two addresses *)
(* and five descriptors, enough for both buffers with their attributes and *)
(* a client, and to run out of when the framebuffer is there.              *)
(* Behaviours are followed until more than MaxMishaps of what the history  *)
(* variables count have happened.  Buffers are locked only before the      *)
(* first of them, and not when the framebuffer has slots, whose operations *)
(* have nothing to do with locks; only one of the buffers is locked at a   *)
(* time, and one may be from another process instead of a mishap.          *)
(***************************************************************************)
EXTENDS Gralloc960, TLC

CONSTANTS t1, t2, h1, h2, a1, a2, MaxMishaps

MCThreads     == {t1, t2}
MCHandles     == {h1, h2}
MCAddresses   == {a1, a2}
MCDescriptors == 3..7

Mishaps ==
    Cardinality(lost) + Cardinality(strays) + Cardinality(lostSlots)
        + (IF undercut THEN 1 ELSE 0) + (IF interfered THEN 1 ELSE 0)

FewMishaps ==
    /\ Mishaps <= MaxMishaps
    /\ (Mishaps > 0 \/ fb.numBuffers > 1)
           => /\ \A t \in Threads : held[t] = NoLock
              /\ \A h \in Handles : ~hnd[h].writeOwner
    /\ Cardinality({held[t].handle : t \in Threads} \ {NoHandle}) <= 1
    /\ Cardinality({h \in Handles : hnd[h].kind = "clone"}) + Mishaps <= 1

Symmetry == Permutations(MCThreads) \cup Permutations(MCHandles)
            \cup Permutations(MCAddresses)
=============================================================================
