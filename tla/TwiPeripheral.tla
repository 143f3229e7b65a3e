--------------------------- MODULE TwiPeripheral ---------------------------
(***************************************************************************)
(* The two-wire serial interface of the AT90USB and the bus it is on, as   *)
(* the driver (libraries/Wire/utility/twi.c) uses them.  The hardware is   *)
(* not part of the repository: it raises one status at a time (TWINT set,  *)
(* TW_STATUS readable) and then holds the clock until the driver writes    *)
(* TWCR, which clears TWINT and chooses what the hardware does next.       *)
(***************************************************************************)
EXTENDS Integers, Sequences

CONSTANTS
  Data,          \* the bytes devices and sketches exchange
  Null,          \* the byte 0x00
  Buses          \* the buses to consider

\* What happens on a bus besides our transfers, and the bounds.
BusType ==
  [ master : BOOLEAN,      \* another master addresses us, and competes for the bus
    error : BOOLEAN,       \* START and STOP conditions where none may be
    slow : BOOLEAN,        \* our callbacks may last until we are addressed again
    data : SUBSET (Data \cup {Null}),    \* the bytes that are sent
    remote : Nat,          \* bound: bytes another master sends us before its STOP
    transfers : Nat,       \* bound: transfers our sketch starts
    size : Nat ]           \* bound: bytes of its messages, requests and replies

ASSUME BusAssumption ==
  /\ Null \notin Data
  /\ Data \cap {"TW_WRITE", "TW_READ"} = {}
  /\ Buses \subseteq BusType

Byte == Data \cup {Null}

VARIABLES
  bus,                 \* the bus we are on
  status,              \* TW_STATUS while TWINT is set, otherwise "none"
  phase,               \* what the hardware does while TWINT is clear
  twdr,                \* TWDR
  twie, twea, twsta,   \* bits of TWCR: interrupt, acknowledge, start
  transfer,            \* history: the transfer we are master of, until the call returns
  heard,               \* history: bytes of the message sent to us, until it is over
  answered             \* history: how many bytes the master that asks has got

peripheral == <<status, phase, twdr, twie, twea, twsta>>
busHist == <<transfer, heard, answered>>

AddressedReceive == {"TW_SR_SLA_ACK", "TW_SR_ARB_LOST_SLA_ACK"}
AddressedTransmit == {"TW_ST_SLA_ACK", "TW_ST_ARB_LOST_SLA_ACK"}

Status == {"none", "TW_START", "TW_REP_START", "TW_MT_SLA_ACK", "TW_MT_SLA_NACK",
           "TW_MT_DATA_ACK", "TW_MT_DATA_NACK", "TW_MT_ARB_LOST",
           "TW_MR_SLA_ACK", "TW_MR_SLA_NACK", "TW_MR_DATA_ACK", "TW_MR_DATA_NACK",
           "TW_SR_DATA_ACK", "TW_SR_DATA_NACK", "TW_SR_STOP",
           "TW_ST_DATA_ACK", "TW_ST_DATA_NACK", "TW_ST_LAST_DATA",
           "TW_BUS_ERROR"} \cup AddressedReceive \cup AddressedTransmit

Phase == {"off", "idle", "restart", "address", "mt", "mr", "sr", "st"}

NoTransfer == [sla |-> "none", bytes |-> <<>>, nacked |-> FALSE]

PeripheralTypeOK ==
  /\ bus \in Buses
  /\ status \in Status /\ phase \in Phase
  /\ twdr \in Byte \cup {"TW_WRITE", "TW_READ"}
  /\ twie \in BOOLEAN /\ twea \in BOOLEAN /\ twsta \in BOOLEAN
  /\ transfer \in [sla : {"none", "ack", "nack"}, bytes : Seq(Byte),
                   nacked : BOOLEAN]
  /\ heard \in Seq(Byte) /\ answered \in Nat

PeripheralInit ==
  /\ bus \in Buses
  /\ status = "none" /\ phase = "off" /\ twdr = Null
  /\ twie = FALSE /\ twea = FALSE /\ twsta = FALSE
  /\ transfer = NoTransfer /\ heard = <<>> /\ answered = 0

-----------------------------------------------------------------------------
(***************************************************************************)
(* Writing TWCR with TWINT set.                                            *)
(***************************************************************************)

\* What the hardware does after TWINT is cleared while it reported s in p.
PhaseAfter(s, p, sta, sto) ==
  IF sto THEN "idle" ELSE
  CASE s = "none" -> p
    [] s \in {"TW_START", "TW_REP_START"} -> "address"
    [] s \in {"TW_MT_SLA_ACK", "TW_MT_DATA_ACK"} -> IF sta THEN "restart" ELSE "mt"
    [] s \in {"TW_MR_SLA_ACK", "TW_MR_DATA_ACK"} -> "mr"
    [] s = "TW_MR_DATA_NACK" /\ sta -> "restart"
    [] s \in AddressedReceive \cup {"TW_SR_DATA_ACK"} -> "sr"
    [] s \in AddressedTransmit \cup {"TW_ST_DATA_ACK"} -> "st"
    [] OTHER -> "idle"

TWCR(ie, ea, sta, sto) ==
  /\ status' = "none"
  /\ phase' = PhaseAfter(status, phase, sta, sto)
  /\ twie' = ie /\ twea' = ea /\ twsta' = sta

-----------------------------------------------------------------------------
(***************************************************************************)
(* What the hardware and the other devices do while TWINT is clear.        *)
(***************************************************************************)

Raise(s) ==
  /\ status = "none"
  /\ status' = s
  /\ UNCHANGED <<phase, twie, twea, twsta>>

\* The bus is free and a START was asked for.
SendStart ==
  /\ phase = "idle" /\ twsta
  /\ Raise("TW_START")
  /\ UNCHANGED <<twdr, busHist>>

SendRepeatedStart ==
  /\ phase = "restart" /\ twsta
  /\ Raise("TW_REP_START")
  /\ UNCHANGED <<twdr, busHist>>

\* A device answers our SLA+W or SLA+R, or does not.
AddressAnswered ==
  /\ phase = "address"
  /\ \E ack \in {"ack", "nack"} :
       /\ transfer' = [NoTransfer EXCEPT !.sla = ack]
       /\ Raise(CASE twdr = "TW_READ" /\ ack = "ack" -> "TW_MR_SLA_ACK"
                  [] twdr = "TW_READ" /\ ack = "nack" -> "TW_MR_SLA_NACK"
                  [] twdr # "TW_READ" /\ ack = "ack" -> "TW_MT_SLA_ACK"
                  [] OTHER -> "TW_MT_SLA_NACK")
  /\ UNCHANGED <<twdr, heard, answered>>

\* The device takes our byte, or refuses it.
DataSent ==
  /\ phase = "mt"
  /\ \/ /\ Raise("TW_MT_DATA_ACK")
        /\ transfer' = [transfer EXCEPT !.bytes = Append(@, twdr)]
     \/ /\ Raise("TW_MT_DATA_NACK")
        /\ transfer' = [transfer EXCEPT !.nacked = TRUE]
  /\ UNCHANGED <<twdr, heard, answered>>

\* The device sends a byte, which TWEA acknowledges or not.
DataReceived ==
  /\ phase = "mr"
  /\ \E d \in bus.data :
       /\ twdr' = d
       /\ transfer' = [transfer EXCEPT !.bytes = Append(@, d), !.nacked = ~twea]
  /\ Raise(IF twea THEN "TW_MR_DATA_ACK" ELSE "TW_MR_DATA_NACK")
  /\ UNCHANGED <<heard, answered>>

\* A transfer that fails in its address phase took place without a device.
TransferCut == IF phase = "address" THEN NoTransfer ELSE transfer

\* Another master addresses us while we are not on the bus, or wins the
\* arbitration against our address and addresses us.
Addressed ==
  /\ bus.master /\ twea
  /\ \/ /\ phase = "idle"
        /\ \/ Raise("TW_SR_SLA_ACK") /\ heard' = <<>> /\ UNCHANGED answered
           \/ Raise("TW_ST_SLA_ACK") /\ answered' = 0 /\ UNCHANGED heard
     \/ /\ phase = "address"
        /\ \/ Raise("TW_SR_ARB_LOST_SLA_ACK") /\ heard' = <<>> /\ UNCHANGED answered
           \/ Raise("TW_ST_ARB_LOST_SLA_ACK") /\ answered' = 0 /\ UNCHANGED heard
  /\ transfer' = TransferCut
  /\ UNCHANGED twdr

\* Another master wins the arbitration and addresses some other device.
ArbitrationLost ==
  /\ bus.master
  /\ phase \in {"address", "mt", "mr"}
  /\ Raise("TW_MT_ARB_LOST")
  /\ transfer' = TransferCut
  /\ UNCHANGED <<twdr, heard, answered>>

\* A byte for us; heard keeps the ones we acknowledged.
SlaveDataReceived ==
  /\ phase = "sr" /\ Len(heard) < bus.remote
  /\ \E d \in bus.data :
       /\ twdr' = d
       /\ heard' = Append(heard, d)
  /\ Raise(IF twea THEN "TW_SR_DATA_ACK" ELSE "TW_SR_DATA_NACK")
  /\ UNCHANGED <<transfer, answered>>

SlaveStopReceived ==
  /\ phase = "sr"
  /\ Raise("TW_SR_STOP")
  /\ UNCHANGED <<twdr, busHist>>

\* Our byte goes to the other master, which asks for more or does not.
SlaveDataSent ==
  /\ phase = "st"
  /\ answered' = answered + 1
  /\ \/ Raise(IF twea THEN "TW_ST_DATA_ACK" ELSE "TW_ST_LAST_DATA")
     \/ Raise("TW_ST_DATA_NACK")
  /\ UNCHANGED <<twdr, transfer, heard>>

BusError ==
  /\ bus.error
  /\ phase \in {"address", "mt", "mr", "sr", "st"}
  /\ Raise("TW_BUS_ERROR")
  /\ transfer' = TransferCut
  /\ UNCHANGED <<twdr, heard, answered>>

PeripheralNext ==
  \/ SendStart \/ SendRepeatedStart \/ AddressAnswered \/ DataSent
  \/ DataReceived \/ Addressed \/ ArbitrationLost \/ SlaveDataReceived
  \/ SlaveStopReceived \/ SlaveDataSent \/ BusError
=============================================================================
