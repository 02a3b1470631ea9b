----------------------------- MODULE MCAudioOut -----------------------------
(***************************************************************************)
(* Instance of AudioOut for TLC: two streams share the card, and two       *)
(* threads use them.                                                       *)
(***************************************************************************)
EXTENDS AudioOut

CONSTANTS t1, t2, s1, s2

MCThreads == {t1, t2}
MCStreams == {s1, s2}
=============================================================================
