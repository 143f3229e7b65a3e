--------------------------- MODULE MCKeyboardHost ---------------------------
(***************************************************************************)
(* Small instances of the keyboard host for TLC.                           *)
(***************************************************************************)
EXTENDS KeyboardHost

\* Nothing but plugging and unplugging; failing requests, connections and
\* power; cables of the other kind.
MCFaultSets == {{}, {"refuse", "nodevice", "vbus"}, {"swap"}}
=============================================================================
