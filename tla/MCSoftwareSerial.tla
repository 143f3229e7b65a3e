-------------------------- MODULE MCSoftwareSerial --------------------------
(***************************************************************************)
(* Small instances of the software serial ports for TLC.                   *)
(***************************************************************************)
EXTENDS SoftwareSerial, TLC

CONSTANTS o1, o2, d1, d2

PortSymmetry == Permutations({o1, o2}) \cup Permutations({d1, d2})
=============================================================================
