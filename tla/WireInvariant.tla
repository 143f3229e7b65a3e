--------------------------- MODULE WireInvariant ----------------------------
(***************************************************************************)
(* The inductive invariant of the Wire library and the two-wire driver, and *)
(* what the proofs need to know of the steps.  bus never changes: a sole    *)
(* master and a slave without transfers of its own have separate parts of   *)
(* the invariant.                                                           *)
(***************************************************************************)
EXTENDS Wire

Size == TWI_BUFFER_LENGTH
InCall == {"ready", "claim", "setup", "start", "wait"}

\* The types of the peripheral and of the driver's variables.
PlainType ==
  /\ bus \in Buses /\ status \in Status /\ phase \in Phase
  /\ twdr \in Byte \cup {"TW_WRITE", "TW_READ"}
  /\ phase = "mt" \/ status \in {"TW_MR_DATA_ACK", "TW_MR_DATA_NACK", "TW_SR_DATA_ACK"} => twdr \in Byte
  /\ twie \in BOOLEAN /\ twea \in BOOLEAN /\ twsta \in BOOLEAN

HistoryType ==
  /\ transfer \in [sla : {"none", "ack", "nack"}, bytes : Seq(Byte), nacked : BOOLEAN]
  /\ heard \in Seq(Byte) /\ answered \in Nat

FlagType ==
  /\ twi_state \in {"TWI_READY", "TWI_MRX", "TWI_MTX", "TWI_SRX", "TWI_STX"}
  /\ twi_slarw \in {"TW_WRITE", "TW_READ"}
  /\ twi_sendStop \in BOOLEAN /\ twi_inRepStart \in BOOLEAN
  /\ twi_error \in Status

MasterType ==
  masterBuffer \in [Cell -> Byte] /\ masterIndex \in 0..255 /\ masterLength \in 0..255

\* The slave's indices stay inside the buffers.
SlaveType ==
  /\ slaveTx \in [Cell -> Byte] /\ slaveTxIndex \in 0..255 /\ slaveTxLength \in 0..Size
  /\ slaveRx \in [Cell -> Byte] /\ slaveRxIndex \in 0..Size

\* twi_writeTo and twi_readFrom are called for no more than the buffer holds.
CallType ==
  /\ isr \in {"none", "onSlaveReceive", "received", "onSlaveTransmit", "filled"}
  /\ pc \in {"off", "idle", "store", "requested"} \cup InCall
  /\ mode \in {"TWI_MRX", "TWI_MTX"}
  /\ length \in 0..Size /\ sendStop \in BOOLEAN
  /\ pc \in InCall /\ mode = "TWI_MRX" => length > 0

WireType ==
  /\ rxBuffer \in [Slot -> Byte]
  /\ rxBufferIndex \in 0..BUFFER_LENGTH /\ rxBufferLength \in 0..BUFFER_LENGTH
  /\ txBuffer \in [Slot -> Byte]
  /\ txBufferIndex \in 0..255 /\ txBufferLength \in 0..255
  /\ transmitting \in BOOLEAN
  /\ user \subseteq {"onReceive", "onRequest"}
  /\ datum \in Byte
  /\ transfers \in 0..bus.transfers
  /\ composed \in Seq(Byte) /\ asked \in 0..BUFFER_LENGTH
  /\ given \in Seq(Byte)

TypeInv ==
  PlainType /\ HistoryType /\ FlagType /\ MasterType /\ SlaveType /\ CallType /\ WireType

\* What the hardware can report in a phase.
StatusIn(p) ==
  CASE p = "idle" -> {"TW_START", "TW_SR_SLA_ACK", "TW_ST_SLA_ACK"}
    [] p = "restart" -> {"TW_REP_START"}
    [] p = "address" -> {"TW_MT_SLA_ACK", "TW_MT_SLA_NACK", "TW_MR_SLA_ACK", "TW_MR_SLA_NACK",
                         "TW_SR_ARB_LOST_SLA_ACK", "TW_ST_ARB_LOST_SLA_ACK", "TW_MT_ARB_LOST",
                         "TW_BUS_ERROR"}
    [] p = "mt" -> {"TW_MT_DATA_ACK", "TW_MT_DATA_NACK", "TW_MT_ARB_LOST", "TW_BUS_ERROR"}
    [] p = "mr" -> {"TW_MR_DATA_ACK", "TW_MR_DATA_NACK", "TW_MT_ARB_LOST", "TW_BUS_ERROR"}
    [] p = "sr" -> {"TW_SR_DATA_ACK", "TW_SR_DATA_NACK", "TW_SR_STOP", "TW_BUS_ERROR"}
    [] p = "st" -> {"TW_ST_DATA_ACK", "TW_ST_DATA_NACK", "TW_ST_LAST_DATA", "TW_BUS_ERROR"}
    [] OTHER -> {}

\* On every bus: the interrupt is off only before begin() and while a repeated
\* START is kept for the next transfer.
LineInv ==
  /\ status = "none" \/ status \in StatusIn(phase)
  /\ pc = "off" => phase = "off" /\ isr = "none" /\ ~twi_inRepStart /\ ~twie /\ ~twsta
  /\ twi_inRepStart =>
       phase = "restart" /\ ~twie /\ isr = "none" /\ (twsta \/ status = "TW_REP_START")
  /\ pc # "off" /\ ~twi_inRepStart => twie /\ phase \notin {"off", "restart"}
  /\ isr \in {"onSlaveTransmit", "filled"} => status \in AddressedTransmit
  /\ isr \in {"onSlaveReceive", "received"} => phase = "idle"

\* The first n bytes of an array are the sequence s.
Holds(s, buffer, n) == Len(s) = n /\ \A i \in 1..n : s[i] = buffer[i - 1]

\* A sole master: the transfer is on, and the sketch waits for the handler.
Running == pc = "wait" /\ twi_state = mode

\* The driver is ready and the bus at rest except from Claim to the end of the
\* transfer, which the handler alone announces.
SoleInv ==
  ~bus.master =>
    /\ isr = "none" /\ phase \in {"off", "idle", "restart", "address", "mt", "mr"}
    /\ status \notin AddressedReceive \cup AddressedTransmit \cup {"TW_MT_ARB_LOST"}
    /\ pc \in {"setup", "start"} => twi_state = mode
    /\ pc = "wait" => twi_state \in {"TWI_READY", mode}
    /\ pc \notin {"setup", "start", "wait"} => twi_state = "TWI_READY"
    /\ ~Running => phase \in {"off", "idle", "restart"}
    /\ ~Running /\ phase = "idle" => status = "none" /\ ~twsta
    /\ Running => ~twi_inRepStart

\* The message composed is in Wire's buffer, and then in the driver's.
ComposeInv ==
  ~bus.master =>
    /\ transmitting => /\ txBufferIndex = Len(composed) /\ txBufferLength = Len(composed)
                       /\ Len(composed) <= BUFFER_LENGTH
                       /\ Holds(composed, txBuffer, Len(composed))
    /\ pc = "off" => ~transmitting
    /\ pc = "store" => transmitting /\ Len(composed) < BUFFER_LENGTH
    /\ pc \in InCall /\ mode = "TWI_MTX" => transmitting /\ length = Len(composed)
    /\ pc \in {"start", "wait"} /\ mode = "TWI_MTX" => Holds(composed, masterBuffer, length)
    /\ pc \in InCall /\ mode = "TWI_MRX" => asked = length

\* How far the transfer is.
MasterInv ==
  ~bus.master =>
    /\ masterIndex <= Size
    /\ pc = "start" \/ Running =>
         /\ twi_error = "none"
         /\ twi_slarw = IF mode = "TWI_MTX" THEN "TW_WRITE" ELSE "TW_READ"
         /\ masterLength = IF mode = "TWI_MTX" THEN length ELSE length - 1
         /\ masterIndex <= masterLength
    /\ pc = "start" => masterIndex = 0
    /\ Running /\ phase = "idle" => masterIndex = 0 /\ twsta
    /\ Running /\ phase = "address" =>
         /\ masterIndex = 0
         /\ status = "none" => twdr = twi_slarw
         /\ status \in {"TW_MT_SLA_ACK", "TW_MT_SLA_NACK"} => mode = "TWI_MTX"
         /\ status \in {"TW_MR_SLA_ACK", "TW_MR_SLA_NACK"} => mode = "TWI_MRX"
    /\ Running /\ phase = "mt" => mode = "TWI_MTX"
    /\ Running /\ phase = "mr" => mode = "TWI_MRX"

\* What the device has been sent, or has sent, while the transfer is on ...
AddressInv ==
  ~bus.master /\ Running /\ phase = "address" /\ status # "none" =>
    /\ transfer.bytes = <<>> /\ ~transfer.nacked
    /\ status \in {"TW_MT_SLA_ACK", "TW_MR_SLA_ACK"} => transfer.sla = "ack"
    /\ status \in {"TW_MT_SLA_NACK", "TW_MR_SLA_NACK"} => transfer.sla = "nack"
    /\ status = "TW_BUS_ERROR" => transfer.sla = "none"

SendInv ==
  ~bus.master /\ Running /\ phase = "mt" =>
    /\ transfer.sla = "ack"
    /\ status \in {"none", "TW_MT_DATA_ACK"} => ~transfer.nacked
    /\ status = "none" => /\ masterIndex > 0 /\ twdr = masterBuffer[masterIndex - 1]
                          /\ Holds(transfer.bytes, masterBuffer, masterIndex - 1)
    /\ status = "TW_MT_DATA_ACK" => Holds(transfer.bytes, masterBuffer, masterIndex)
    /\ status = "TW_MT_DATA_NACK" => transfer.nacked

FetchInv ==
  ~bus.master /\ Running /\ phase = "mr" =>
    /\ transfer.sla = "ack"
    /\ status = "none" => twea = (masterIndex < masterLength)
    /\ status \in {"none", "TW_BUS_ERROR"} => Holds(transfer.bytes, masterBuffer, masterIndex)
    /\ status \in {"TW_MR_DATA_ACK", "TW_MR_DATA_NACK"} =>
         /\ Len(transfer.bytes) = masterIndex + 1 /\ transfer.bytes[masterIndex + 1] = twdr
         /\ \A i \in 1..masterIndex : transfer.bytes[i] = masterBuffer[i - 1]
    /\ status = "TW_MR_DATA_ACK" => masterIndex < masterLength
    /\ status = "TW_MR_DATA_NACK" => masterIndex = masterLength /\ transfer.nacked

\* ... and once it is over, until the call returns.
SentInv ==
  ~bus.master /\ pc = "wait" /\ ~Running /\ mode = "TWI_MTX" =>
    /\ twi_error = "none" => /\ transfer.sla = "ack" /\ ~transfer.nacked
                             /\ Holds(transfer.bytes, masterBuffer, length)
    /\ twi_error = "TW_MT_SLA_NACK" => transfer.sla = "nack"
    /\ twi_error = "TW_MT_DATA_NACK" => transfer.sla = "ack" /\ transfer.nacked

FetchedInv ==
  ~bus.master =>
    /\ pc = "wait" /\ ~Running /\ mode = "TWI_MRX" =>
         /\ masterIndex <= length /\ Holds(transfer.bytes, masterBuffer, masterIndex)
         /\ transfer.sla # "ack" \/ twi_error # "none" \/ (masterIndex = length /\ transfer.nacked)
    /\ pc = "requested" =>
         /\ Holds(transfer.bytes, rxBuffer, length)
         /\ transfer.sla # "ack" \/ twi_error # "none" \/ (length = asked /\ transfer.nacked)

\* Nobody asks a sole master for a reply.
SilentInv == ~bus.master => slaveTxIndex = 0

\* A slave without transfers of its own never enters a master's phase.
SlaveInv ==
  bus.master /\ bus.transfers = 0 =>
    /\ pc \in {"off", "idle"} /\ ~transmitting /\ ~twi_inRepStart /\ ~twsta /\ masterIndex = 0
    /\ phase \in {"off", "idle", "sr", "st"} /\ status # "TW_START"

\* With short callbacks, its reply is in the buffer and goes out byte by byte.
ReplyInv ==
  bus.master /\ bus.transfers = 0 /\ ~bus.slow =>
    /\ slaveTxIndex <= Size
    /\ status \in AddressedTransmit => answered = 0
    /\ isr \in {"onSlaveTransmit", "filled"} => slaveTxIndex = 0 /\ twi_state = "TWI_STX"
    /\ isr = "onSlaveTransmit" => slaveTxLength = 0
    /\ isr = "filled" =>
         IF Len(given) \in 1..Size THEN Holds(given, slaveTx, slaveTxLength) ELSE slaveTxLength = 0
    /\ phase = "st" =>
         /\ Holds(Reply, slaveTx, slaveTxLength)
         /\ status = "none" => /\ slaveTxIndex = answered + 1 /\ slaveTxIndex <= slaveTxLength
                               /\ twdr = slaveTx[slaveTxIndex - 1]
                               /\ twea = (slaveTxIndex < slaveTxLength)
         /\ status = "TW_ST_DATA_ACK" => slaveTxIndex = answered /\ slaveTxIndex < slaveTxLength

\* The first n bytes of s are in the buffer, as many as fit; k of them do.
Kept(s, n, buffer, k) ==
  /\ k = IF n < Size THEN n ELSE Size
  /\ \A i \in 1..k : s[i] = buffer[i - 1]

\* On every bus, with short callbacks.
MessageInv ==
  ~bus.slow =>
    /\ isr \in {"onSlaveReceive", "received"} => status = "none"
    /\ isr = "onSlaveReceive" => Kept(heard, Len(heard), slaveRx, slaveRxIndex)
    /\ status \in AddressedReceive => heard = <<>>
    /\ phase = "sr" =>
         /\ status # "TW_SR_DATA_ACK" => Kept(heard, Len(heard), slaveRx, slaveRxIndex)
         /\ status = "none" /\ ~twea => slaveRxIndex = Size
         /\ status = "TW_SR_DATA_ACK" => /\ Len(heard) > 0 /\ heard[Len(heard)] = twdr
                                        /\ Kept(heard, Len(heard) - 1, slaveRx, slaveRxIndex)

TransferInv == AddressInv /\ SendInv /\ FetchInv /\ SentInv /\ FetchedInv

IInv ==
  /\ TypeInv /\ LineInv
  /\ SoleInv /\ ComposeInv /\ MasterInv /\ TransferInv
  /\ SilentInv /\ SlaveInv /\ ReplyInv /\ MessageInv

\* The sketch's side of Wire, and the calls' beginnings and ends.
Quiet ==
  \/ onReceive \/ onRequest \/ beginTransmission \/ write \/ endTransmission \/ requestFrom \/ read
  \/ write_store \/ twi_writeTo_return \/ twi_readFrom_return \/ requestFrom_return

\* twi_writeTo and twi_readFrom.
Driver ==
  /\ AwaitReady \/ Claim \/ Start \/ twi_writeTo_setup(txBuffer) \/ twi_readFrom_setup
  /\ UNCHANGED wire

\* TWI_vect as master and as slave.
MasterVect ==
  /\ OnStart \/ OnMasterTransmit \/ OnRefused \/ OnArbitrationLost \/ OnMasterReceive \/ OnLastByte
  /\ UNCHANGED wire

SlaveVect ==
  /\ \/ OnAddressedReceive \/ OnSlaveData \/ OnSlaveRefused \/ OnSlaveStop \/ OnSlaveStopDone
     \/ OnAddressedTransmit \/ OnFilled \/ OnSlaveByteSent \/ OnSlaveSent
  /\ UNCHANGED wire

-----------------------------------------------------------------------------
(* What the steps do, as the proofs use it.                                *)

\* The tuples, one variable at a time.
Apart ==
  /\ UNCHANGED peripheral => UNCHANGED <<status, phase, twdr, twie, twea, twsta>>
  /\ UNCHANGED busHist => UNCHANGED <<transfer, heard, answered>>
  /\ UNCHANGED flags => UNCHANGED <<twi_state, twi_slarw, twi_sendStop, twi_inRepStart, twi_error>>
  /\ UNCHANGED master => UNCHANGED <<masterBuffer, masterIndex, masterLength>>
  /\ UNCHANGED slave => UNCHANGED <<slaveTx, slaveTxIndex, slaveTxLength, slaveRx, slaveRxIndex>>
  /\ UNCHANGED call => UNCHANGED <<pc, mode, length, sendStop>>
  /\ UNCHANGED driver => UNCHANGED <<flags, master, slave, isr, call>>
  /\ UNCHANGED wireRx => UNCHANGED <<rxBuffer, rxBufferIndex, rxBufferLength>>
  /\ UNCHANGED wireTx => UNCHANGED <<txBuffer, txBufferIndex, txBufferLength, transmitting>>
  /\ UNCHANGED history => UNCHANGED <<transfers, composed, asked, given>>
  /\ UNCHANGED wire => UNCHANGED <<wireRx, wireTx, user, datum, history>>
  /\ UNCHANGED vars => UNCHANGED <<bus, peripheral, busHist, driver, wire>>

\* What the callbacks leave alone.
CallbacksKeep ==
  /\ onReceiveService => UNCHANGED <<peripheral, busHist, flags, master, slave, call, wireTx, user, datum, history>>
  /\ onRequestService => UNCHANGED <<peripheral, busHist, flags, master, call, wireRx, transmitting, user,
                                     datum, transfers, composed, asked, slaveTxIndex, slaveRx, slaveRxIndex>>

\* TWCR has been written, and the hardware is in phase p.
After(p, ie, ea, sta) ==
  status' = "none" /\ phase' = p /\ twie' = ie /\ twea' = ea /\ twsta' = sta

\* The transfer has ended, with a STOP or with a repeated START.
Ended ==
  /\ \/ After("idle", TRUE, TRUE, FALSE) /\ UNCHANGED twi_inRepStart
     \/ After("restart", FALSE, FALSE, TRUE) /\ twi_inRepStart' = TRUE
  /\ twi_state' = "TWI_READY"
  /\ UNCHANGED <<twi_slarw, twi_sendStop, twi_error>>

\* What the start of a transfer and TWI_vect do to the peripheral and the
\* driver, with the phase that follows.
StartDoes ==
    /\ twi_inRepStart => /\ status = "TW_REP_START"
                         /\ After("address", TRUE, TRUE, FALSE) /\ twdr' = twi_slarw
    /\ ~twi_inRepStart => /\ After(PhaseAfter(status, phase, TRUE, FALSE), TRUE, TRUE, TRUE)
                          /\ UNCHANGED twdr
    /\ twi_inRepStart' = FALSE /\ pc = "start" /\ pc' = "wait" /\ SketchRuns
    /\ UNCHANGED <<twi_state, twi_slarw, twi_sendStop, twi_error, master, slave, isr,
                   mode, length, sendStop, busHist>>

MasterDoes ==
  /\ OnStart => /\ status \in {"TW_START", "TW_REP_START"}
                /\ After("address", TRUE, TRUE, FALSE) /\ twdr' = twi_slarw /\ UNCHANGED <<flags, master>>
  /\ OnMasterTransmit =>
       /\ status \in {"TW_MT_SLA_ACK", "TW_MT_DATA_ACK"} /\ UNCHANGED <<masterBuffer, masterLength>>
       /\ \/ /\ masterIndex < masterLength /\ masterIndex' = UInt8(masterIndex + 1)
             /\ twdr' \in IF masterIndex \in Cell THEN {masterBuffer[masterIndex]} ELSE Byte
             /\ After("mt", TRUE, TRUE, FALSE) /\ UNCHANGED flags
          \/ /\ ~(masterIndex < masterLength) /\ Ended /\ UNCHANGED <<twdr, masterIndex>>
  /\ OnRefused => /\ status \in {"TW_MT_SLA_NACK", "TW_MT_DATA_NACK", "TW_BUS_ERROR", "TW_MR_SLA_NACK"}
                  /\ twi_error' = IF status = "TW_MR_SLA_NACK" THEN twi_error ELSE status
                  /\ After("idle", TRUE, TRUE, FALSE) /\ twi_state' = "TWI_READY"
                  /\ UNCHANGED <<twdr, twi_slarw, twi_sendStop, twi_inRepStart, master>>
  /\ OnArbitrationLost => /\ status = "TW_MT_ARB_LOST" /\ twi_error' = "TW_MT_ARB_LOST"
                          /\ After("idle", TRUE, TRUE, FALSE) /\ twi_state' = "TWI_READY"
                          /\ UNCHANGED <<twdr, twi_slarw, twi_sendStop, twi_inRepStart, master>>
  /\ OnMasterReceive =>
       /\ \/ /\ status = "TW_MR_DATA_ACK" /\ masterIndex' = UInt8(masterIndex + 1)
             /\ masterBuffer' = [masterBuffer EXCEPT ![masterIndex] = twdr]
          \/ status = "TW_MR_SLA_ACK" /\ UNCHANGED <<masterBuffer, masterIndex>>
       /\ After("mr", TRUE, masterIndex' < masterLength, FALSE)
       /\ UNCHANGED <<twdr, flags, masterLength>>
  /\ OnLastByte => /\ status = "TW_MR_DATA_NACK" /\ masterIndex' = UInt8(masterIndex + 1)
                   /\ masterBuffer' = [masterBuffer EXCEPT ![masterIndex] = twdr]
                   /\ Ended /\ UNCHANGED <<twdr, masterLength>>

SlaveDoes ==
  /\ OnAddressedReceive =>
       /\ status \in AddressedReceive /\ After("sr", TRUE, TRUE, FALSE)
       /\ twi_state' = "TWI_SRX" /\ slaveRxIndex' = 0
       /\ UNCHANGED <<twdr, slaveTx, slaveTxIndex, slaveTxLength, slaveRx, isr, heard, answered>>
  /\ OnSlaveData =>
       /\ status = "TW_SR_DATA_ACK"
       /\ \/ /\ slaveRxIndex < Size /\ After("sr", TRUE, TRUE, FALSE)
             /\ slaveRx' = [slaveRx EXCEPT ![slaveRxIndex] = twdr]
             /\ slaveRxIndex' = UInt8(slaveRxIndex + 1)
          \/ /\ ~(slaveRxIndex < Size) /\ After("sr", TRUE, FALSE, FALSE)
             /\ UNCHANGED <<slaveRx, slaveRxIndex>>
       /\ UNCHANGED <<twdr, twi_state, slaveTx, slaveTxIndex, slaveTxLength, isr, heard, answered>>
  /\ OnSlaveRefused =>
       /\ status = "TW_SR_DATA_NACK" /\ After("idle", TRUE, FALSE, FALSE)
       /\ UNCHANGED <<twdr, twi_state, slave, isr, heard, answered>>
  /\ OnSlaveStop =>
       /\ status = "TW_SR_STOP" /\ After("idle", TRUE, TRUE, FALSE)
       /\ twi_state' = "TWI_READY" /\ isr' = "onSlaveReceive"
       /\ slaveRx' = [i \in Cell |-> IF i = slaveRxIndex THEN Null ELSE slaveRx[i]]
       /\ UNCHANGED <<twdr, slaveTx, slaveTxIndex, slaveTxLength, slaveRxIndex, heard, answered>>
  /\ OnAddressedTransmit =>
       /\ status \in AddressedTransmit /\ twi_state' = "TWI_STX" /\ isr' = "onSlaveTransmit"
       /\ slaveTxIndex' = 0 /\ slaveTxLength' = 0
       /\ UNCHANGED <<peripheral, slaveTx, slaveRx, slaveRxIndex, heard, answered>>
  /\ OnSlaveByteSent =>
       /\ status = "TW_ST_DATA_ACK"
       /\ twdr' \in IF slaveTxIndex \in Cell THEN {slaveTx[slaveTxIndex]} ELSE Byte
       /\ slaveTxIndex' = UInt8(slaveTxIndex + 1)
       /\ After("st", TRUE, slaveTxIndex' < slaveTxLength, FALSE)
       /\ UNCHANGED <<twi_state, slaveTx, slaveTxLength, slaveRx, slaveRxIndex, isr, heard, answered>>
  /\ OnSlaveSent =>
       /\ status \in {"TW_ST_DATA_NACK", "TW_ST_LAST_DATA"} /\ After("idle", TRUE, TRUE, FALSE)
       /\ twi_state' = "TWI_READY" /\ answered' = 0
       /\ UNCHANGED <<twdr, slave, isr, heard>>

\* The end of a message, and of the filling of the buffer, after the callback.
StopDoneDoes ==
    /\ isr = "received" /\ isr' = "none"
    /\ After(PhaseAfter(status, phase, FALSE, FALSE), TRUE, TRUE, FALSE)
    /\ twi_state' = "TWI_READY" /\ slaveRxIndex' = 0 /\ heard' = <<>>
    /\ UNCHANGED <<twdr, slaveTx, slaveTxIndex, slaveTxLength, slaveRx, answered>>

FilledDoes ==
    /\ isr = "filled" /\ isr' = "none"
    /\ slaveTx' = [i \in Cell |-> IF slaveTxLength = 0 /\ i = 0 THEN Null ELSE slaveTx[i]]
    /\ slaveTxLength' = (IF slaveTxLength = 0 THEN 1 ELSE slaveTxLength)
    /\ twdr' \in IF slaveTxIndex \in Cell THEN {slaveTx'[slaveTxIndex]} ELSE Byte
    /\ slaveTxIndex' = UInt8(slaveTxIndex + 1)
    /\ After("st", TRUE, slaveTxIndex' < slaveTxLength', FALSE)
    /\ UNCHANGED <<twi_state, slaveRx, slaveRxIndex, heard, answered>>

\* What can happen while nobody else is master.
SoleStep ==
  \/ begin \/ Quiet \/ Driver
  \/ /\ Running /\ ~twi_inRepStart
     /\ OnStart \/ OnMasterTransmit \/ OnRefused \/ OnMasterReceive \/ OnLastByte
     /\ MasterVect
  \/ Hardware /\ SendRepeatedStart
  \/ Hardware /\ Running /\ (SendStart \/ AddressAnswered \/ DataSent \/ DataReceived \/ BusError)

\* A status tells the phase it was raised in.
PhaseMeans ==
    /\ status = "TW_START" => phase = "idle"
    /\ status = "TW_REP_START" => phase = "restart"
    /\ status \in {"TW_MT_SLA_ACK", "TW_MT_SLA_NACK", "TW_MR_SLA_ACK", "TW_MR_SLA_NACK"} => phase = "address"
    /\ status \in {"TW_MT_DATA_ACK", "TW_MT_DATA_NACK"} => phase = "mt"
    /\ status \in {"TW_MR_DATA_ACK", "TW_MR_DATA_NACK"} => phase = "mr"
    /\ status \in {"TW_SR_DATA_ACK", "TW_SR_DATA_NACK", "TW_SR_STOP"} => phase = "sr"
    /\ status \in {"TW_ST_DATA_ACK", "TW_ST_DATA_NACK", "TW_ST_LAST_DATA"} => phase = "st"
    /\ status \in AddressedReceive \cup AddressedTransmit => phase \in {"idle", "address"}

\* What MasterInv says while the transfer is on.
RunningMeans ==
    /\ twi_error = "none" /\ mode \in {"TWI_MRX", "TWI_MTX"}
    /\ mode = "TWI_MTX" => twi_slarw = "TW_WRITE" /\ masterLength = length
    /\ mode = "TWI_MRX" => twi_slarw = "TW_READ" /\ masterLength = length - 1 /\ length > 0
    /\ masterIndex \in 0..255 /\ masterIndex <= masterLength /\ masterLength <= length /\ length \in 0..Size
    /\ phase = "idle" => masterIndex = 0 /\ twsta
    /\ phase = "address" =>
         /\ masterIndex = 0
         /\ status = "none" => twdr = twi_slarw
         /\ status \in {"TW_MT_SLA_ACK", "TW_MT_SLA_NACK"} => mode = "TWI_MTX"
         /\ status \in {"TW_MR_SLA_ACK", "TW_MR_SLA_NACK"} => mode = "TWI_MRX"
    /\ phase = "mt" => mode = "TWI_MTX"
    /\ phase = "mr" => mode = "TWI_MRX"

\* What can happen to it.
SlaveStep ==
  \/ begin
  \/ Quiet /\ pc' = "idle" /\ UNCHANGED <<transmitting, given>>
  \/ MasterVect /\ OnRefused
  \/ SlaveVect \/ onReceiveService \/ onRequestService
  \/ /\ Hardware
     /\ (Addressed /\ phase = "idle") \/ SlaveDataReceived \/ SlaveStopReceived \/ SlaveDataSent \/ BusError
=============================================================================
