--------------------------- MODULE MCIdtDownload ---------------------------
(***************************************************************************)
(* Instance of IdtDownload for TLC: frames of two bytes, numbers modulo 3, *)
(* two attempts for each frame, and at most two answers under way or read. *)
(***************************************************************************)
EXTENDS IdtDownload

\* No second image and two of them; a full last frame, a short one, and enough frames
\* for their numbers to come round.
MCLengths == {<<3, 0>>, <<8, 0>>, <<9, 0>>, <<2, 3>>}

FewAnswers == Cardinality(air) + Len(input) <= 2
=============================================================================
