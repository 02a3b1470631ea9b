------------------------------- MODULE MCUim -------------------------------
(***************************************************************************)
(* Instance of Uim for TLC: a custom speed, a BD address, and three        *)
(* descriptors besides the standard input, for one repeated install.       *)
(***************************************************************************)
EXTENDS Uim
=============================================================================
