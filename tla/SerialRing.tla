----------------------------- MODULE SerialRing -----------------------------
(***************************************************************************)
(* The index arithmetic of struct ring_buffer (HardwareSerial.cpp): head   *)
(* is the slot the next character goes to, tail the slot the next one is   *)
(* taken from, both uint8_t, and one slot always stays free so that        *)
(* head = tail means empty.                                                *)
(***************************************************************************)
EXTENDS Integers

CONSTANT SERIAL_BUFFER_SIZE

\* HardwareSerial.h:127 allows every size below 256; a ring of one slot could
\* hold nothing.
ASSUME SizeAssumption == SERIAL_BUFFER_SIZE \in 2..255

Slot == 0..(SERIAL_BUFFER_SIZE - 1)

UInt8(n) == n % 256

\* The slot after i, as write(), read(), store_char() and the UDRE handler
\* compute it.
NextSlot(i) == UInt8(i + 1) % SERIAL_BUFFER_SIZE

\* What available() returns: the cast to uint8_t comes before the modulo.
Available(head, tail) ==
  UInt8(SERIAL_BUFFER_SIZE + head - tail) % SERIAL_BUFFER_SIZE
=============================================================================
