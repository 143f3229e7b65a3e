------------------------------- MODULE MCTone -------------------------------
(***************************************************************************)
(* Small instances of the tone functions for TLC.                          *)
(***************************************************************************)
EXTENDS Tone
=============================================================================
