------------------------------ MODULE MCWiring ------------------------------
(***************************************************************************)
(* Small instances of the clock for TLC.                                   *)
(***************************************************************************)
EXTENDS Wiring
=============================================================================
