---------------------------- MODULE MCBootloader ----------------------------
(***************************************************************************)
(* Small instances of the CDC bootloader for TLC.                          *)
(***************************************************************************)
EXTENDS Bootloader

Session(bytes, high, commands, events) ==
  [bytes |-> bytes, high |-> high, commands |-> commands, events |-> events]

\* Programming and reading back by the block; flash and EEPROM blocks with the
\* cable pulled; the commands that only answer and addresses beyond 32 KB;
\* words of flash, with bus resets; words and bytes.
MCSessions ==
  { Session({0, 1}, {0}, {"A", "e", "BF", "gF", "E"}, {}),
    Session({1}, {0}, {"BF", "gF"}, {"unplug"}),
    Session({1}, {0}, {"A", "BE", "gE"}, {"unplug"}),
    Session({1}, {0, 64, 128}, {"A", "E", "T", "L", "t", "l", "r", "b", "sync", "?"}, {"unplug", "reset"}),
    Session({1}, {0}, {"C", "m", "R"}, {"unplug", "reset"}),
    Session({1}, {0}, {"c", "D", "d", "e"}, {"unplug"}) }
=============================================================================
