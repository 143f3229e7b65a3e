-------------------------- MODULE MCHardwareSerial --------------------------
(***************************************************************************)
(* Instances of HardwareSerial for model checking.                         *)
(***************************************************************************)
EXTENDS HardwareSerial, TLC

\* The values of the bytes do not matter, only which is which.
ByteSymmetry == Permutations(Byte)

\* A sketch mostly sends or mostly receives, so that TLC need not explore
\* every combination of full rings.
OneWay == Len(written) <= 1 \/ arrivals = 0
=============================================================================
