------------------------------- MODULE MCWire -------------------------------
(***************************************************************************)
(* Small instances of the Wire library for TLC.                            *)
(***************************************************************************)
EXTENDS Wire

CONSTANT d1

\* The only master on the bus; a slave; a slave that is sent too much, on a
\* bus with errors; one of two masters; a slave with slow callbacks.
Alone == [master |-> FALSE, error |-> TRUE, slow |-> FALSE, data |-> {Null, d1}, remote |-> 0,
          transfers |-> 2, size |-> 3]
Slave == [master |-> TRUE, error |-> FALSE, slow |-> FALSE, data |-> {Null, d1}, remote |-> 2,
          transfers |-> 0, size |-> 3]
Overlong == [master |-> TRUE, error |-> TRUE, slow |-> FALSE, data |-> {Null, d1}, remote |-> 4,
             transfers |-> 0, size |-> 1]
Contended == [master |-> TRUE, error |-> FALSE, slow |-> FALSE, data |-> {Null}, remote |-> 2,
              transfers |-> 1, size |-> 1]
Slow == [master |-> TRUE, error |-> FALSE, slow |-> TRUE, data |-> {Null}, remote |-> 2,
         transfers |-> 0, size |-> 1]

MCBuses == {Alone, Slave, Overlong, Contended, Slow}
=============================================================================
