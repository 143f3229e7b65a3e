-------------------------------- MODULE Twi --------------------------------
(***************************************************************************)
(* The two-wire driver (libraries/Wire/utility/twi.c): twi_readFrom and    *)
(* twi_writeTo, which the sketch's thread runs and which wait for the      *)
(* interrupt handler TWI_vect to finish the transfer, and the handler.     *)
(* The buffers are arrays with an index and a length, all uint8_t.         *)
(***************************************************************************)
EXTENDS TwiPeripheral

CONSTANT TWI_BUFFER_LENGTH

ASSUME TwiLengthAssumption == TWI_BUFFER_LENGTH \in 1..254

VARIABLES
  twi_state, twi_slarw, twi_sendStop, twi_inRepStart, twi_error,
  masterBuffer, masterIndex, masterLength,   \* twi_masterBuffer...
  slaveTx, slaveTxIndex, slaveTxLength,      \* twi_txBuffer...
  slaveRx, slaveRxIndex,                     \* twi_rxBuffer...
  isr,                                       \* the callback TWI_vect is in
  pc, mode, length, sendStop                 \* the sketch and its arguments

master == <<masterBuffer, masterIndex, masterLength>>
slave == <<slaveTx, slaveTxIndex, slaveTxLength, slaveRx, slaveRxIndex>>
flags == <<twi_state, twi_slarw, twi_sendStop, twi_inRepStart, twi_error>>
call == <<pc, mode, length, sendStop>>
driver == <<flags, master, slave, isr, call>>

Cell == 0..(TWI_BUFFER_LENGTH - 1)
UInt8(n) == n % 256

TwiTypeOK ==
  /\ twi_state \in {"TWI_READY", "TWI_MRX", "TWI_MTX", "TWI_SRX", "TWI_STX"}
  /\ twi_slarw \in {"TW_WRITE", "TW_READ"}
  /\ twi_sendStop \in BOOLEAN /\ twi_inRepStart \in BOOLEAN
  /\ twi_error \in Status
  /\ masterBuffer \in [Cell -> Byte]
  /\ masterIndex \in 0..255 /\ masterLength \in 0..255
  /\ slaveTx \in [Cell -> Byte]
  /\ slaveTxIndex \in 0..255 /\ slaveTxLength \in 0..255
  /\ slaveRx \in [Cell -> Byte] /\ slaveRxIndex \in 0..255
  /\ isr \in {"none", "onSlaveReceive", "received", "onSlaveTransmit", "filled"}
  /\ pc \in {"off", "idle", "store", "ready", "claim", "setup", "start", "wait",
             "requested"}
  /\ mode \in {"TWI_MRX", "TWI_MTX"}
  /\ length \in 0..255 /\ sendStop \in BOOLEAN

TwiInit ==
  /\ twi_state = "TWI_READY" /\ twi_slarw = "TW_WRITE"
  /\ twi_sendStop = FALSE /\ twi_inRepStart = FALSE /\ twi_error = "none"
  /\ masterBuffer = [i \in Cell |-> Null] /\ masterIndex = 0 /\ masterLength = 0
  /\ slaveTx = [i \in Cell |-> Null] /\ slaveTxIndex = 0 /\ slaveTxLength = 0
  /\ slaveRx = [i \in Cell |-> Null] /\ slaveRxIndex = 0
  /\ isr = "none" /\ pc = "off" /\ mode = "TWI_MTX" /\ length = 0 /\ sendStop = FALSE

\* An enabled interrupt is taken before the sketch's next step.
Interrupt == isr = "none" /\ status # "none" /\ twie
SketchRuns == isr = "none" /\ ~Interrupt

-----------------------------------------------------------------------------
(***************************************************************************)
(* The sketch's side.  An interrupt can come between any two of the steps. *)
(***************************************************************************)

\* Called by begin().  Writing TWCR without TWINT leaves a raised status.
twi_init ==
  /\ twi_state' = "TWI_READY" /\ twi_sendStop' = TRUE /\ twi_inRepStart' = FALSE
  /\ twie' = TRUE /\ twea' = TRUE /\ twsta' = FALSE
  /\ phase' = (IF phase = "off" THEN "idle" ELSE phase)
  /\ UNCHANGED <<status, twdr, busHist, twi_slarw, twi_error, master, slave, isr>>

\* twi_readFrom and twi_writeTo up to the wait for TWI_READY.
Call(m, n, stop) ==
  /\ pc' = "ready" /\ mode' = m /\ length' = n /\ sendStop' = stop
  /\ UNCHANGED <<flags, master, slave, isr, peripheral, busHist>>

\* The wait for TWI_READY ends.
AwaitReady ==
  /\ SketchRuns /\ pc = "ready" /\ twi_state = "TWI_READY"
  /\ pc' = "claim"
  /\ UNCHANGED <<flags, master, slave, isr, mode, length, sendStop, peripheral, busHist>>

\* twi_state is set: the handler may have left TWI_READY meanwhile.
Claim ==
  /\ SketchRuns /\ pc = "claim"
  /\ twi_state' = mode
  /\ pc' = "setup"
  /\ UNCHANGED <<twi_slarw, twi_sendStop, twi_inRepStart, twi_error, master, slave,
                 isr, mode, length, sendStop, peripheral, busHist>>

\* masterLength is the number of bytes to acknowledge, all but the last.
twi_readFrom_setup ==
  /\ SketchRuns /\ pc = "setup" /\ mode = "TWI_MRX"
  /\ twi_sendStop' = sendStop /\ twi_error' = "none" /\ twi_slarw' = "TW_READ"
  /\ masterIndex' = 0 /\ masterLength' = UInt8(length - 1)
  /\ pc' = "start"
  /\ UNCHANGED <<twi_state, twi_inRepStart, masterBuffer, slave, isr, mode, length,
                 sendStop, peripheral, busHist>>

twi_writeTo_setup(data) ==
  /\ SketchRuns /\ pc = "setup" /\ mode = "TWI_MTX"
  /\ twi_sendStop' = sendStop /\ twi_error' = "none" /\ twi_slarw' = "TW_WRITE"
  /\ masterIndex' = 0 /\ masterLength' = length
  /\ masterBuffer' = [i \in Cell |-> IF i < length THEN data[i] ELSE masterBuffer[i]]
  /\ pc' = "start"
  /\ UNCHANGED <<twi_state, twi_inRepStart, slave, isr, mode, length, sendStop,
                 peripheral, busHist>>

\* Fault variant: the repeated start is not left before the address is sent.
Start_stuck ==
  /\ SketchRuns /\ pc = "start"
  /\ pc' = "wait"
  /\ IF twi_inRepStart
     THEN /\ status = "TW_REP_START"
          /\ twdr' = twi_slarw
          /\ TWCR(TRUE, TRUE, FALSE, FALSE)
     ELSE TWCR(TRUE, TRUE, TRUE, FALSE) /\ UNCHANGED twdr
  /\ UNCHANGED <<twi_state, twi_slarw, twi_sendStop, twi_inRepStart, twi_error, master,
                 slave, isr, mode, length, sendStop, busHist>>

\* The START, or the address if a repeated START was sent when the last
\* transfer ended.  That START is taken to be on the bus by now, as the
\* comment at twi.c:148 hopes.
Start ==
  /\ SketchRuns /\ pc = "start"
  /\ pc' = "wait"
  /\ twi_inRepStart' = FALSE
  /\ IF twi_inRepStart
     THEN /\ status = "TW_REP_START"
          /\ twdr' = twi_slarw
          /\ TWCR(TRUE, TRUE, FALSE, FALSE)
     ELSE TWCR(TRUE, TRUE, TRUE, FALSE) /\ UNCHANGED twdr
  /\ UNCHANGED <<twi_state, twi_slarw, twi_sendStop, twi_error, master, slave, isr,
                 mode, length, sendStop, busHist>>

\* The wait for the handler ends.
Done(m) == SketchRuns /\ pc = "wait" /\ mode = m /\ twi_state # m

\* The value twi_writeTo returns.
WriteStatus ==
  CASE twi_error = "none" -> 0
    [] twi_error = "TW_MT_SLA_NACK" -> 2
    [] twi_error = "TW_MT_DATA_NACK" -> 3
    [] OTHER -> 4

\* The value twi_readFrom returns.
ReadLength == IF masterIndex < length THEN masterIndex ELSE length

-----------------------------------------------------------------------------
(***************************************************************************)
(* TWI_vect, one action per case of its switch.                            *)
(***************************************************************************)

twi_reply(ack) == TWCR(TRUE, ack, FALSE, FALSE)

\* The STOP is over when twi_stop returns.
twi_stop == TWCR(TRUE, TRUE, FALSE, TRUE) /\ twi_state' = "TWI_READY"

twi_releaseBus == TWCR(TRUE, TRUE, FALSE, FALSE) /\ twi_state' = "TWI_READY"

\* A transfer ends with a STOP, or with a START whose interrupt is left to
\* the next transfer.
EndTransfer ==
  /\ IF twi_sendStop
     THEN twi_stop /\ UNCHANGED twi_inRepStart
     ELSE /\ twi_inRepStart' = TRUE
          /\ TWCR(FALSE, FALSE, TRUE, FALSE)
          /\ twi_state' = "TWI_READY"
  /\ UNCHANGED <<twi_slarw, twi_sendStop, twi_error>>

Handle(s) ==
  /\ Interrupt /\ status \in s
  /\ answered' = IF status \in {"TW_ST_DATA_NACK", "TW_ST_LAST_DATA"} THEN 0 ELSE answered
  /\ UNCHANGED <<call, transfer, heard>>

OnStart ==
  /\ Handle({"TW_START", "TW_REP_START"})
  /\ twdr' = twi_slarw /\ twi_reply(TRUE)
  /\ UNCHANGED <<flags, master, slave, isr>>

\* Fault variant: one byte too few is sent.
OnMasterTransmit_short ==
  /\ Handle({"TW_MT_SLA_ACK", "TW_MT_DATA_ACK"})
  /\ IF masterIndex + 1 < masterLength
     THEN /\ twdr' = masterBuffer[masterIndex]
          /\ masterIndex' = UInt8(masterIndex + 1)
          /\ twi_reply(TRUE)
          /\ UNCHANGED flags
     ELSE EndTransfer /\ UNCHANGED <<twdr, masterIndex>>
  /\ UNCHANGED <<masterBuffer, masterLength, slave, isr>>

OnMasterTransmit ==
  /\ Handle({"TW_MT_SLA_ACK", "TW_MT_DATA_ACK"})
  /\ IF masterIndex < masterLength
     THEN /\ twdr' \in IF masterIndex \in Cell THEN {masterBuffer[masterIndex]} ELSE Byte
          /\ masterIndex' = UInt8(masterIndex + 1)
          /\ twi_reply(TRUE)
          /\ UNCHANGED flags
     ELSE EndTransfer /\ UNCHANGED <<twdr, masterIndex>>
  /\ UNCHANGED <<masterBuffer, masterLength, slave, isr>>

\* A refused address, a refused byte, a bus error: the transfer is given up.
\* A refused SLA+R leaves twi_error alone.
OnRefused ==
  /\ Handle({"TW_MT_SLA_NACK", "TW_MT_DATA_NACK", "TW_BUS_ERROR", "TW_MR_SLA_NACK"})
  /\ twi_error' = (IF status = "TW_MR_SLA_NACK" THEN twi_error ELSE status)
  /\ twi_stop
  /\ UNCHANGED <<twdr, twi_slarw, twi_sendStop, twi_inRepStart, master, slave, isr>>

OnArbitrationLost ==
  /\ Handle({"TW_MT_ARB_LOST"})
  /\ twi_error' = "TW_MT_ARB_LOST"
  /\ twi_releaseBus
  /\ UNCHANGED <<twdr, twi_slarw, twi_sendStop, twi_inRepStart, master, slave, isr>>

\* A byte received is stored; the next is acknowledged unless it is the last.
OnMasterReceive ==
  /\ Handle({"TW_MR_DATA_ACK", "TW_MR_SLA_ACK"})
  /\ IF status = "TW_MR_DATA_ACK"
     THEN /\ masterBuffer' = [masterBuffer EXCEPT ![masterIndex] = twdr]
          /\ masterIndex' = UInt8(masterIndex + 1)
     ELSE UNCHANGED <<masterBuffer, masterIndex>>
  /\ twi_reply(masterIndex' < masterLength)
  /\ UNCHANGED <<twdr, flags, masterLength, slave, isr>>

OnLastByte ==
  /\ Handle({"TW_MR_DATA_NACK"})
  /\ masterBuffer' = [masterBuffer EXCEPT ![masterIndex] = twdr]
  /\ masterIndex' = UInt8(masterIndex + 1)
  /\ EndTransfer
  /\ UNCHANGED <<twdr, masterLength, slave, isr>>

\* Fault variant: the bytes of the last message are kept.
OnAddressedReceive_append ==
  /\ Handle(AddressedReceive)
  /\ twi_state' = "TWI_SRX"
  /\ twi_reply(TRUE)
  /\ UNCHANGED <<twdr, twi_slarw, twi_sendStop, twi_inRepStart, twi_error, master,
                 slaveTx, slaveTxIndex, slaveTxLength, slaveRx, slaveRxIndex, isr>>

OnAddressedReceive ==
  /\ Handle(AddressedReceive)
  /\ twi_state' = "TWI_SRX"
  /\ slaveRxIndex' = 0
  /\ twi_reply(TRUE)
  /\ UNCHANGED <<twdr, twi_slarw, twi_sendStop, twi_inRepStart, twi_error, master,
                 slaveTx, slaveTxIndex, slaveTxLength, slaveRx, isr>>

\* Fault variant: the room in the buffer is not tested.
OnSlaveData_nocheck ==
  /\ Handle({"TW_SR_DATA_ACK"})
  /\ slaveRx' = [slaveRx EXCEPT ![slaveRxIndex] = twdr]
  /\ slaveRxIndex' = UInt8(slaveRxIndex + 1)
  /\ twi_reply(TRUE)
  /\ UNCHANGED <<twdr, flags, master, slaveTx, slaveTxIndex, slaveTxLength, isr>>

OnSlaveData ==
  /\ Handle({"TW_SR_DATA_ACK"})
  /\ IF slaveRxIndex < TWI_BUFFER_LENGTH
     THEN /\ slaveRx' = [slaveRx EXCEPT ![slaveRxIndex] = twdr]
          /\ slaveRxIndex' = UInt8(slaveRxIndex + 1)
          /\ twi_reply(TRUE)
     ELSE twi_reply(FALSE) /\ UNCHANGED <<slaveRx, slaveRxIndex>>
  /\ UNCHANGED <<twdr, flags, master, slaveTx, slaveTxIndex, slaveTxLength, isr>>

OnSlaveRefused ==
  /\ Handle({"TW_SR_DATA_NACK"})
  /\ twi_reply(FALSE)
  /\ UNCHANGED <<twdr, flags, master, slave, isr>>

\* The message is over: up to the call of twi_onSlaveReceive ...
OnSlaveStop ==
  /\ Handle({"TW_SR_STOP"})
  /\ slaveRx' = [i \in Cell |-> IF i = slaveRxIndex THEN Null ELSE slaveRx[i]]
  /\ twi_stop
  /\ isr' = "onSlaveReceive"
  /\ UNCHANGED <<twdr, twi_slarw, twi_sendStop, twi_inRepStart, twi_error, master,
                 slaveTx, slaveTxIndex, slaveTxLength, slaveRxIndex>>

\* ... and after it.  Whatever status was raised meanwhile is cleared.
OnSlaveStopDone ==
  /\ isr = "received"
  /\ slaveRxIndex' = 0
  /\ twi_releaseBus
  /\ isr' = "none"
  /\ heard' = <<>>
  /\ UNCHANGED <<twdr, twi_slarw, twi_sendStop, twi_inRepStart, twi_error, master,
                 slaveTx, slaveTxIndex, slaveTxLength, slaveRx, call, transfer, answered>>

\* Up to the call of twi_onSlaveTransmit.
OnAddressedTransmit ==
  /\ Handle(AddressedTransmit)
  /\ twi_state' = "TWI_STX"
  /\ slaveTxIndex' = 0 /\ slaveTxLength' = 0
  /\ isr' = "onSlaveTransmit"
  /\ UNCHANGED <<twi_slarw, twi_sendStop, twi_inRepStart, twi_error, master, slaveTx,
                 slaveRx, slaveRxIndex, peripheral>>

\* Fault variant: one byte more than the reply has is announced.
NextSlaveByte_more(buffer, n) ==
  /\ twdr' \in IF slaveTxIndex \in Cell THEN {buffer[slaveTxIndex]} ELSE Byte
  /\ slaveTxIndex' = UInt8(slaveTxIndex + 1)
  /\ twi_reply(slaveTxIndex' <= n)

\* The next byte for the other master; TWEA says whether more follow.
NextSlaveByte(buffer, n) ==
  /\ twdr' \in IF slaveTxIndex \in Cell THEN {buffer[slaveTxIndex]} ELSE Byte
  /\ slaveTxIndex' = UInt8(slaveTxIndex + 1)
  /\ twi_reply(slaveTxIndex' < n)

\* After twi_onSlaveTransmit: one zero byte if the callback gave none.
OnFilled ==
  /\ isr = "filled"
  /\ isr' = "none"
  /\ slaveTx' = [i \in Cell |-> IF slaveTxLength = 0 /\ i = 0 THEN Null ELSE slaveTx[i]]
  /\ slaveTxLength' = (IF slaveTxLength = 0 THEN 1 ELSE slaveTxLength)
  /\ NextSlaveByte(slaveTx', slaveTxLength')
  /\ UNCHANGED <<flags, master, slaveRx, slaveRxIndex, call, busHist>>

OnSlaveByteSent ==
  /\ Handle({"TW_ST_DATA_ACK"})
  /\ NextSlaveByte(slaveTx, slaveTxLength)
  /\ UNCHANGED <<flags, master, slaveTx, slaveTxLength, slaveRx, slaveRxIndex, isr>>

\* Fault variant: the driver stays slave transmitter.
OnSlaveSent_keep ==
  /\ Handle({"TW_ST_DATA_NACK", "TW_ST_LAST_DATA"})
  /\ twi_reply(TRUE)
  /\ UNCHANGED <<twdr, twi_state, twi_slarw, twi_sendStop, twi_inRepStart, twi_error, master,
                 slave, isr>>

OnSlaveSent ==
  /\ Handle({"TW_ST_DATA_NACK", "TW_ST_LAST_DATA"})
  /\ twi_reply(TRUE)
  /\ twi_state' = "TWI_READY"
  /\ UNCHANGED <<twdr, twi_slarw, twi_sendStop, twi_inRepStart, twi_error, master,
                 slave, isr>>

TWI_vect ==
  \/ OnStart \/ OnMasterTransmit \/ OnRefused \/ OnArbitrationLost
  \/ OnMasterReceive \/ OnLastByte \/ OnAddressedReceive \/ OnSlaveData
  \/ OnSlaveRefused \/ OnSlaveStop \/ OnSlaveStopDone \/ OnAddressedTransmit
  \/ OnFilled \/ OnSlaveByteSent \/ OnSlaveSent

\* Called by the transmit callback, with the reply.
twi_transmit(data) ==
  IF Len(data) <= TWI_BUFFER_LENGTH /\ twi_state = "TWI_STX"
  THEN /\ slaveTxLength' = Len(data)
       /\ slaveTx' = [i \in Cell |-> IF i < Len(data) THEN data[i + 1] ELSE slaveTx[i]]
  ELSE UNCHANGED <<slaveTx, slaveTxLength>>

=============================================================================
