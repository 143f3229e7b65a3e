------------------------------ MODULE ByteFifo ------------------------------
(***************************************************************************)
(* What a serial ring buffer promises: a first-in first-out channel that   *)
(* never holds more than Capacity bytes, never loses, duplicates, reorders *)
(* or invents one, and (for the receive side, where end() throws away what *)
(* was not read) may be emptied.                                           *)
(***************************************************************************)
EXTENDS Integers, Sequences

CONSTANTS Byte, Capacity, MayDiscard

VARIABLES accepted,   \* every byte the channel took and did not discard
          delivered   \* every byte it handed over, in order

fifoVars == <<accepted, delivered>>

Pending == Len(accepted) - Len(delivered)

FifoInit == accepted = <<>> /\ delivered = <<>>

Put ==
  /\ Pending < Capacity
  /\ \E c \in Byte : accepted' = Append(accepted, c)
  /\ UNCHANGED delivered

Get ==
  /\ Pending > 0
  /\ delivered' = Append(delivered, accepted[Len(delivered) + 1])
  /\ UNCHANGED accepted

Discard ==
  /\ MayDiscard
  /\ accepted' = delivered
  /\ UNCHANGED delivered

FifoNext == Put \/ Get \/ Discard

FifoSpec == FifoInit /\ [][FifoNext]_fifoVars
=============================================================================
