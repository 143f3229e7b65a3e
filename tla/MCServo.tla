------------------------------ MODULE MCServo -------------------------------
(***************************************************************************)
(* Small instances of the servo library for TLC.                           *)
(***************************************************************************)
EXTENDS Servo

\* Servos that keep their pins and change their widths; servos that come
\* and go.
MCSketches == {{"write"}, {"detach", "move"}}
=============================================================================
