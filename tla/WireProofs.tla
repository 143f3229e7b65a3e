----------------------------- MODULE WireProofs -----------------------------
(***************************************************************************)
(* Proofs about the Wire library and the two-wire driver, for every bus,    *)
(* every set of bytes and every size of the buffers.                        *)
(***************************************************************************)
EXTENDS WireInvariant, TLAPS

-----------------------------------------------------------------------------
(* Sequences of bytes.                                                      *)

\* A sequence of bytes is a function from its indices to bytes.
LEMMA ByteSequence ==
  ASSUME NEW s \in Seq(Byte)
  PROVE  /\ Len(s) \in Nat /\ s \in [1..Len(s) -> Byte]
         /\ \A i \in 1..Len(s) : s[i] \in Byte
OBVIOUS

\* What a byte at the end of a sequence changes.
LEMMA ByteAppended ==
  ASSUME NEW s \in Seq(Byte), NEW b \in Byte
  PROVE  /\ Append(s, b) \in Seq(Byte) /\ Len(Append(s, b)) = Len(s) + 1
         /\ \A i \in 1..Len(s) : Append(s, b)[i] = s[i]
         /\ Append(s, b)[Len(s) + 1] = b
OBVIOUS

\* Sequences with the same bytes are the same.
LEMMA ByteSequencesEqual ==
  ASSUME NEW s \in Seq(Byte), NEW t \in Seq(Byte), Len(s) = Len(t), \A i \in 1..Len(s) : s[i] = t[i]
  PROVE  s = t
OBVIOUS

\* The first bytes of a buffer, as a sequence.
LEMMA BytePrefix ==
  ASSUME NEW s, NEW n \in Nat, \A i \in 1..n : s[i] \in Byte
  PROVE  /\ SubSeq(s, 1, n) \in Seq(Byte) /\ Len(SubSeq(s, 1, n)) = n
         /\ \A i \in 1..n : SubSeq(s, 1, n)[i] = s[i]
OBVIOUS

-----------------------------------------------------------------------------
(* The steps.                                                               *)

\* Every step is one of a few kinds, and the bus stays the same.
LEMMA Steps ==
  ASSUME [Next]_vars
  PROVE  /\ bus' = bus
         /\ \/ UNCHANGED vars \/ begin \/ Quiet \/ Driver \/ MasterVect \/ SlaveVect
            \/ onReceiveService \/ onRequestService \/ Hardware
<1> USE Zenon
<1>1. CASE UNCHANGED vars  BY <1>1 DEF vars
<1>2. ASSUME Next
      PROVE  \/ begin \/ Quiet \/ Driver \/ MasterVect \/ SlaveVect
             \/ onReceiveService \/ onRequestService \/ Hardware
  <2>1. CASE SketchNext  BY <2>1 DEF SketchNext, Quiet
  <2>2. CASE Continue  BY <2>2 DEF Continue, Quiet, Driver, twi_writeTo, twi_readFrom
  <2>3. CASE Handler  BY <2>3 DEF Handler, TWI_vect, MasterVect, SlaveVect
  <2> QED  BY <1>2, <2>1, <2>2, <2>3 DEF Next
<1> QED  BY <1>1, <1>2 DEF Next

\* An unchanged tuple has unchanged parts.
LEMMA Tuples == Apart
<1> USE Zenon
<1> USE DEF Apart
<1>1. /\ UNCHANGED peripheral => UNCHANGED <<status, phase, twdr, twie, twea, twsta>>
      /\ UNCHANGED busHist => UNCHANGED <<transfer, heard, answered>>
  BY DEF peripheral, busHist
<1>2. /\ UNCHANGED flags => UNCHANGED <<twi_state, twi_slarw, twi_sendStop, twi_inRepStart, twi_error>>
      /\ UNCHANGED master => UNCHANGED <<masterBuffer, masterIndex, masterLength>>
      /\ UNCHANGED slave => UNCHANGED <<slaveTx, slaveTxIndex, slaveTxLength, slaveRx, slaveRxIndex>>
      /\ UNCHANGED call => UNCHANGED <<pc, mode, length, sendStop>>
  BY DEF flags, master, slave, call
<1>3. /\ UNCHANGED wireRx => UNCHANGED <<rxBuffer, rxBufferIndex, rxBufferLength>>
      /\ UNCHANGED wireTx => UNCHANGED <<txBuffer, txBufferIndex, txBufferLength, transmitting>>
      /\ UNCHANGED history => UNCHANGED <<transfers, composed, asked, given>>
  BY DEF wireRx, wireTx, history
<1>4. /\ UNCHANGED driver => UNCHANGED <<flags, master, slave, isr, call>>
      /\ UNCHANGED wire => UNCHANGED <<wireRx, wireTx, user, datum, history>>
      /\ UNCHANGED vars => UNCHANGED <<bus, peripheral, busHist, driver, wire>>
  BY DEF driver, wire, vars
<1> QED  BY <1>1, <1>2, <1>3, <1>4

\* The steps of the sketch outside twi_writeTo and twi_readFrom touch neither
\* the peripheral nor the driver.
LEMMA QuietFrame ==
  ASSUME Quiet
  PROVE  UNCHANGED <<peripheral, heard, answered, flags, master, slave, isr>>
<1> USE Zenon
<1>1. CASE onReceive \/ onRequest \/ beginTransmission \/ read
  BY <1>1, Tuples DEF onReceive, onRequest, beginTransmission, read, Apart
<1>2. CASE write \/ write_store  BY <1>2, Tuples DEF write, write_store, Apart
<1>3. CASE endTransmission  BY <1>3, Tuples DEF endTransmission, Call, Apart
<1>4. CASE requestFrom  BY <1>4, Tuples DEF requestFrom, Call, Apart
<1>5. CASE twi_writeTo_return \/ twi_readFrom_return \/ requestFrom_return
  BY <1>5, Tuples DEF twi_writeTo_return, twi_readFrom_return, requestFrom_return, Apart
<1> QED  BY <1>1, <1>2, <1>3, <1>4, <1>5 DEF Quiet

\* The steps inside twi_writeTo and twi_readFrom.
LEMMA DriverFrame ==
  ASSUME Driver
  PROVE  /\ UNCHANGED <<busHist, slave, isr, mode, length, sendStop, wire>>
         /\ Start \/ UNCHANGED <<peripheral, twi_inRepStart>>
BY ONLY Driver, Tuples, Zenon DEF Driver, AwaitReady, Claim, Start, twi_writeTo_setup, twi_readFrom_setup, Apart

\* TWI_vect as master leaves the slave's buffers and the sketch alone.
LEMMA MasterFrame ==
  ASSUME MasterVect
  PROVE  UNCHANGED <<transfer, heard, answered, slave, isr, call, twi_slarw, twi_sendStop, masterLength, wire>>
<1>1. UNCHANGED <<transfer, heard, call, slave, isr, wire>>
  BY ONLY MasterVect, Zenon DEF MasterVect, OnStart, OnMasterTransmit, OnRefused, OnArbitrationLost,
     OnMasterReceive, OnLastByte, Handle
<1>2. UNCHANGED <<twi_slarw, twi_sendStop, masterLength>>
  BY ONLY MasterVect, Tuples, Zenon DEF MasterVect, OnStart, OnMasterTransmit, OnRefused, OnArbitrationLost,
     OnMasterReceive, OnLastByte, EndTransfer, Apart
<1>3. answered' = answered
  BY ONLY MasterVect, Zenon DEF MasterVect, OnStart, OnMasterTransmit, OnRefused, OnArbitrationLost,
     OnMasterReceive, OnLastByte, Handle
<1> QED  BY ONLY <1>1, <1>2, <1>3

\* TWI_vect as slave leaves the master's buffer and the sketch alone.
LEMMA SlaveFrame ==
  ASSUME SlaveVect
  PROVE  UNCHANGED <<transfer, master, call, twi_slarw, twi_sendStop, twi_inRepStart, twi_error, wire>>
<1>1. UNCHANGED <<transfer, master, call, wire>>
  BY ONLY SlaveVect, Tuples, Zenon DEF SlaveVect, OnAddressedReceive, OnSlaveData, OnSlaveRefused, OnSlaveStop,
     OnSlaveStopDone, OnAddressedTransmit, OnFilled, OnSlaveByteSent, OnSlaveSent, Handle, Apart
<1>2. UNCHANGED <<twi_slarw, twi_sendStop, twi_inRepStart, twi_error>>
  BY ONLY SlaveVect, Tuples, Zenon DEF SlaveVect, OnAddressedReceive, OnSlaveData, OnSlaveRefused, OnSlaveStop,
     OnSlaveStopDone, OnAddressedTransmit, OnFilled, OnSlaveByteSent, OnSlaveSent, Apart
<1> QED  BY ONLY <1>1, <1>2

\* The callbacks of the sketch.
LEMMA CallbackFrame == CallbacksKeep
<1> USE DEF CallbacksKeep
<1>1. onReceiveService => UNCHANGED <<peripheral, busHist, flags, master, slave, call, wireTx, user, datum, history>>
  BY ONLY Zenon DEF onReceiveService, history
<1>2. onRequestService => UNCHANGED <<slaveTxIndex, slaveRx, slaveRxIndex>>
  BY ONLY Tuples, Zenon DEF onRequestService, Apart
<1>3. onRequestService => UNCHANGED <<peripheral, busHist, flags, master, call, wireRx, transmitting, user,
                                     datum, transfers, composed, asked>>
  BY ONLY Zenon DEF onRequestService
<1> QED  BY ONLY <1>1, <1>2, <1>3

\* The hardware changes only its status, TWDR and what it has seen.
LEMMA HardwareFrame ==
  ASSUME Hardware
  PROVE  /\ UNCHANGED <<driver, wire, phase, twie, twea, twsta>>
         /\ status = "none" /\ (isr = "none" \/ bus.slow)
<1>1. UNCHANGED <<phase, twie, twea, twsta>> /\ status = "none"
  BY ONLY Hardware, Zenon DEF Hardware, PeripheralNext, SendStart, SendRepeatedStart, AddressAnswered, DataSent,
     DataReceived, Addressed, ArbitrationLost, SlaveDataReceived, SlaveStopReceived, SlaveDataSent, BusError, Raise
<1> QED  BY ONLY <1>1, Hardware, Zenon DEF Hardware

-----------------------------------------------------------------------------
(* What TWI_vect does to the peripheral.                                    *)

\* twi_stop, or the START without a STOP before the next transfer.
LEMMA EndTransferEffect ==
  ASSUME EndTransfer, status \in {"TW_MT_SLA_ACK", "TW_MT_DATA_ACK", "TW_MR_DATA_NACK"}
  PROVE  Ended
<1>1. PhaseAfter(status, phase, FALSE, TRUE) = "idle" /\ PhaseAfter(status, phase, TRUE, FALSE) = "restart"
  BY ONLY status \in {"TW_MT_SLA_ACK", "TW_MT_DATA_ACK", "TW_MR_DATA_NACK"}
     DEF PhaseAfter, AddressedReceive, AddressedTransmit
<1> QED  BY ONLY <1>1, EndTransfer, Zenon DEF EndTransfer, twi_stop, TWCR, Ended, After

\* The START that twi_writeTo and twi_readFrom ask for.
LEMMA StartEffect ==
  ASSUME Start
  PROVE  StartDoes
<1> USE DEF StartDoes
<1>1. status = "TW_REP_START" => PhaseAfter(status, phase, FALSE, FALSE) = "address"
  BY ONLY DEF PhaseAfter, AddressedReceive, AddressedTransmit
<1> QED  BY ONLY <1>1, Start, Zenon DEF Start, TWCR, After

\* TWI_vect, one case of the switch after the other, as master.
LEMMA MasterEffect == MasterDoes
<1> USE Zenon
<1> USE DEF MasterDoes
<1> USE DEF Handle, twi_reply, TWCR, After
<1>1. ASSUME OnStart
      PROVE  /\ status \in {"TW_START", "TW_REP_START"}
             /\ After("address", TRUE, TRUE, FALSE) /\ twdr' = twi_slarw /\ UNCHANGED <<flags, master>>
  <2>1. status \in {"TW_START", "TW_REP_START"}  BY <1>1 DEF OnStart
  <2>2. PhaseAfter(status, phase, FALSE, FALSE) = "address"
    BY ONLY <2>1 DEF PhaseAfter, AddressedReceive, AddressedTransmit
  <2> QED  BY <1>1, <2>1, <2>2 DEF OnStart
<1>2. ASSUME OnMasterTransmit
      PROVE  /\ status \in {"TW_MT_SLA_ACK", "TW_MT_DATA_ACK"} /\ UNCHANGED <<masterBuffer, masterLength>>
             /\ \/ /\ masterIndex < masterLength /\ masterIndex' = UInt8(masterIndex + 1)
                   /\ twdr' \in IF masterIndex \in Cell THEN {masterBuffer[masterIndex]} ELSE Byte
                   /\ After("mt", TRUE, TRUE, FALSE) /\ UNCHANGED flags
                \/ /\ ~(masterIndex < masterLength) /\ Ended /\ UNCHANGED <<twdr, masterIndex>>
  <2>1. status \in {"TW_MT_SLA_ACK", "TW_MT_DATA_ACK"}  BY <1>2 DEF OnMasterTransmit
  <2>2. PhaseAfter(status, phase, FALSE, FALSE) = "mt"
    BY ONLY <2>1 DEF PhaseAfter, AddressedReceive, AddressedTransmit
  <2>3. CASE masterIndex < masterLength  BY <1>2, <2>1, <2>2, <2>3 DEF OnMasterTransmit
  <2>4. CASE ~(masterIndex < masterLength)
    <3>1. EndTransfer /\ UNCHANGED <<twdr, masterIndex>>  BY <1>2, <2>4 DEF OnMasterTransmit
    <3>2. Ended  BY ONLY <3>1, <2>1, EndTransferEffect
    <3> QED  BY <1>2, <2>1, <2>4, <3>1, <3>2 DEF OnMasterTransmit
  <2> QED  BY <2>3, <2>4
<1>3. ASSUME OnRefused
      PROVE  /\ status \in {"TW_MT_SLA_NACK", "TW_MT_DATA_NACK", "TW_BUS_ERROR", "TW_MR_SLA_NACK"}
             /\ twi_error' = IF status = "TW_MR_SLA_NACK" THEN twi_error ELSE status
             /\ After("idle", TRUE, TRUE, FALSE) /\ twi_state' = "TWI_READY"
             /\ UNCHANGED <<twdr, twi_slarw, twi_sendStop, twi_inRepStart, master>>
  <2>1. PhaseAfter(status, phase, FALSE, TRUE) = "idle"  BY SMT DEF PhaseAfter
  <2> QED  BY <1>3, <2>1 DEF OnRefused, twi_stop
<1>4. ASSUME OnArbitrationLost
      PROVE  /\ status = "TW_MT_ARB_LOST" /\ twi_error' = "TW_MT_ARB_LOST"
             /\ After("idle", TRUE, TRUE, FALSE) /\ twi_state' = "TWI_READY"
             /\ UNCHANGED <<twdr, twi_slarw, twi_sendStop, twi_inRepStart, master>>
  <2>1. status = "TW_MT_ARB_LOST"  BY <1>4 DEF OnArbitrationLost
  <2>2. PhaseAfter(status, phase, FALSE, FALSE) = "idle"
    BY ONLY <2>1 DEF PhaseAfter, AddressedReceive, AddressedTransmit
  <2> QED  BY <1>4, <2>1, <2>2 DEF OnArbitrationLost, twi_releaseBus
<1>5. ASSUME OnMasterReceive
      PROVE  /\ \/ /\ status = "TW_MR_DATA_ACK" /\ masterIndex' = UInt8(masterIndex + 1)
                   /\ masterBuffer' = [masterBuffer EXCEPT ![masterIndex] = twdr]
                \/ status = "TW_MR_SLA_ACK" /\ UNCHANGED <<masterBuffer, masterIndex>>
             /\ After("mr", TRUE, masterIndex' < masterLength, FALSE)
             /\ UNCHANGED <<twdr, flags, masterLength>>
  <2>1. status \in {"TW_MR_DATA_ACK", "TW_MR_SLA_ACK"}  BY <1>5 DEF OnMasterReceive
  <2>2. PhaseAfter(status, phase, FALSE, FALSE) = "mr"
    BY ONLY <2>1 DEF PhaseAfter, AddressedReceive, AddressedTransmit
  <2>3. CASE status = "TW_MR_DATA_ACK"  BY <1>5, <2>3, <2>2 DEF OnMasterReceive
  <2>4. CASE status = "TW_MR_SLA_ACK"  BY <1>5, <2>4, <2>2 DEF OnMasterReceive
  <2> QED  BY <2>1, <2>3, <2>4
<1>6. ASSUME OnLastByte
      PROVE  /\ status = "TW_MR_DATA_NACK" /\ masterIndex' = UInt8(masterIndex + 1)
             /\ masterBuffer' = [masterBuffer EXCEPT ![masterIndex] = twdr]
             /\ Ended /\ UNCHANGED <<twdr, masterLength>>
  <2>1. status = "TW_MR_DATA_NACK" /\ EndTransfer  BY <1>6 DEF OnLastByte
  <2>2. Ended  BY <2>1, EndTransferEffect
  <2> QED  BY <1>6, <2>1, <2>2 DEF OnLastByte
<1> QED  BY <1>1, <1>2, <1>3, <1>4, <1>5, <1>6

\* The same as slave.
LEMMA SlaveEffect == SlaveDoes
<1> USE Zenon
<1> USE DEF SlaveDoes
<1> USE DEF Handle, twi_reply, TWCR, After
<1>1. ASSUME OnAddressedReceive
      PROVE  /\ status \in AddressedReceive /\ After("sr", TRUE, TRUE, FALSE)
             /\ twi_state' = "TWI_SRX" /\ slaveRxIndex' = 0
             /\ UNCHANGED <<twdr, slaveTx, slaveTxIndex, slaveTxLength, slaveRx, isr, heard, answered>>
  <2>1. status \in AddressedReceive  BY <1>1 DEF OnAddressedReceive
  <2>2. answered' = answered  BY ONLY <1>1, <2>1 DEF OnAddressedReceive, AddressedReceive, AddressedTransmit
  <2>3. PhaseAfter(status, phase, FALSE, FALSE) = "sr"
    BY ONLY <2>1 DEF PhaseAfter, AddressedReceive, AddressedTransmit
  <2> QED  BY <1>1, <2>1, <2>2, <2>3, Tuples DEF OnAddressedReceive, Apart
<1>2. ASSUME OnSlaveData
      PROVE  /\ status = "TW_SR_DATA_ACK"
             /\ \/ /\ slaveRxIndex < Size /\ After("sr", TRUE, TRUE, FALSE)
                   /\ slaveRx' = [slaveRx EXCEPT ![slaveRxIndex] = twdr]
                   /\ slaveRxIndex' = UInt8(slaveRxIndex + 1)
                \/ /\ ~(slaveRxIndex < Size) /\ After("sr", TRUE, FALSE, FALSE)
                   /\ UNCHANGED <<slaveRx, slaveRxIndex>>
             /\ UNCHANGED <<twdr, twi_state, slaveTx, slaveTxIndex, slaveTxLength, isr, heard, answered>>
  <2>1. status = "TW_SR_DATA_ACK"  BY <1>2 DEF OnSlaveData
  <2>2. answered' = answered  BY ONLY <1>2, <2>1 DEF OnSlaveData, AddressedReceive, AddressedTransmit
  <2>3. PhaseAfter(status, phase, FALSE, FALSE) = "sr"
    BY ONLY <2>1 DEF PhaseAfter, AddressedReceive, AddressedTransmit
  <2> QED  BY <1>2, <2>1, <2>2, <2>3, Tuples DEF OnSlaveData, Size, Apart
<1>3. ASSUME OnSlaveRefused
      PROVE  /\ status = "TW_SR_DATA_NACK" /\ After("idle", TRUE, FALSE, FALSE)
             /\ UNCHANGED <<twdr, twi_state, slave, isr, heard, answered>>
  <2>1. status = "TW_SR_DATA_NACK"  BY <1>3 DEF OnSlaveRefused
  <2>2. answered' = answered  BY ONLY <1>3, <2>1 DEF OnSlaveRefused, AddressedReceive, AddressedTransmit
  <2>3. PhaseAfter(status, phase, FALSE, FALSE) = "idle"
    BY ONLY <2>1 DEF PhaseAfter, AddressedReceive, AddressedTransmit
  <2> QED  BY <1>3, <2>1, <2>2, <2>3, Tuples DEF OnSlaveRefused, Apart
<1>4. ASSUME OnSlaveStop
      PROVE  /\ status = "TW_SR_STOP" /\ After("idle", TRUE, TRUE, FALSE)
             /\ twi_state' = "TWI_READY" /\ isr' = "onSlaveReceive"
             /\ slaveRx' = [i \in Cell |-> IF i = slaveRxIndex THEN Null ELSE slaveRx[i]]
             /\ UNCHANGED <<twdr, slaveTx, slaveTxIndex, slaveTxLength, slaveRxIndex, heard, answered>>
  <2>1. status = "TW_SR_STOP"  BY <1>4 DEF OnSlaveStop
  <2>2. answered' = answered  BY ONLY <1>4, <2>1 DEF OnSlaveStop, AddressedReceive, AddressedTransmit
  <2>3. PhaseAfter(status, phase, FALSE, TRUE) = "idle"
    BY ONLY <2>1 DEF PhaseAfter, AddressedReceive, AddressedTransmit
  <2> QED  BY <1>4, <2>1, <2>2, <2>3, Tuples DEF OnSlaveStop, twi_stop, Apart
<1>5. ASSUME OnAddressedTransmit
      PROVE  /\ status \in AddressedTransmit /\ twi_state' = "TWI_STX" /\ isr' = "onSlaveTransmit"
             /\ slaveTxIndex' = 0 /\ slaveTxLength' = 0
             /\ UNCHANGED <<peripheral, slaveTx, slaveRx, slaveRxIndex, heard, answered>>
  <2>1. status \in AddressedTransmit  BY <1>5 DEF OnAddressedTransmit
  <2>2. answered' = answered  BY ONLY <1>5, <2>1 DEF OnAddressedTransmit, AddressedReceive, AddressedTransmit
  <2> QED  BY <1>5, <2>1, <2>2, Tuples DEF OnAddressedTransmit, Apart
<1>6. ASSUME OnSlaveByteSent
      PROVE  /\ status = "TW_ST_DATA_ACK"
             /\ twdr' \in IF slaveTxIndex \in Cell THEN {slaveTx[slaveTxIndex]} ELSE Byte
             /\ slaveTxIndex' = UInt8(slaveTxIndex + 1)
             /\ After("st", TRUE, slaveTxIndex' < slaveTxLength, FALSE)
             /\ UNCHANGED <<twi_state, slaveTx, slaveTxLength, slaveRx, slaveRxIndex, isr, heard, answered>>
  <2>1. status = "TW_ST_DATA_ACK"  BY <1>6 DEF OnSlaveByteSent
  <2>2. answered' = answered  BY ONLY <1>6, <2>1 DEF OnSlaveByteSent, AddressedReceive, AddressedTransmit
  <2>3. PhaseAfter(status, phase, FALSE, FALSE) = "st"
    BY ONLY <2>1 DEF PhaseAfter, AddressedReceive, AddressedTransmit
  <2> QED  BY <1>6, <2>1, <2>2, <2>3, Tuples DEF OnSlaveByteSent, NextSlaveByte, Apart
<1>7. ASSUME OnSlaveSent
      PROVE  /\ status \in {"TW_ST_DATA_NACK", "TW_ST_LAST_DATA"} /\ After("idle", TRUE, TRUE, FALSE)
             /\ twi_state' = "TWI_READY" /\ answered' = 0
             /\ UNCHANGED <<twdr, slave, isr, heard>>
  <2>1. status \in {"TW_ST_DATA_NACK", "TW_ST_LAST_DATA"}  BY <1>7 DEF OnSlaveSent
  <2>2. answered' = 0  BY ONLY <1>7, <2>1 DEF OnSlaveSent, AddressedReceive, AddressedTransmit
  <2>3. PhaseAfter(status, phase, FALSE, FALSE) = "idle"
    BY ONLY <2>1 DEF PhaseAfter, AddressedReceive, AddressedTransmit
  <2> QED  BY <1>7, <2>1, <2>2, <2>3, Tuples DEF OnSlaveSent, Apart
<1> QED  BY <1>1, <1>2, <1>3, <1>4, <1>5, <1>6, <1>7

\* TWI_vect after the sketch has taken a message.
LEMMA StopDoneEffect ==
  ASSUME OnSlaveStopDone
  PROVE  StopDoneDoes
BY ONLY OnSlaveStopDone, Zenon DEF OnSlaveStopDone, twi_releaseBus, TWCR, After, StopDoneDoes

\* TWI_vect after the sketch has filled the buffer.
LEMMA FilledEffect ==
  ASSUME OnFilled, status \in AddressedTransmit
  PROVE  FilledDoes
<1> USE DEF FilledDoes
<1>1. PhaseAfter(status, phase, FALSE, FALSE) = "st"
  BY ONLY status \in AddressedTransmit DEF PhaseAfter, AddressedReceive, AddressedTransmit
<1> QED  BY ONLY OnFilled, <1>1, Tuples, Zenon DEF OnFilled, NextSlaveByte, twi_reply, TWCR, After, Apart

-----------------------------------------------------------------------------
(* Types.                                                                   *)

\* The sizes of the buffers fit a uint8_t.
LEMMA Constants ==
  /\ Size \in Nat /\ 1 <= Size /\ Size <= BUFFER_LENGTH /\ BUFFER_LENGTH \in Nat /\ BUFFER_LENGTH <= 254
  /\ Cell \subseteq Slot
  /\ \A i \in Int : i \in Cell <=> 0 <= i /\ i < Size
BY ONLY TwiLengthAssumption, WireAssumption DEF Cell, Slot, Size

\* The parts of a bus.
LEMMA BusFacts ==
  ASSUME bus \in Buses
  PROVE  /\ bus.data \subseteq Byte /\ bus.transfers \in Nat /\ bus.size \in Nat
         /\ bus.size <= BUFFER_LENGTH + 1
         /\ bus.master \in BOOLEAN /\ bus.slow \in BOOLEAN
BY BusAssumption, WireAssumption DEF BusType, Byte

\* A uint8_t is one.
LEMMA UInt8Type == ASSUME NEW n \in Int PROVE UInt8(n) \in 0..255
BY DEF UInt8

\* A small number fits a uint8_t.
LEMMA UInt8Same == ASSUME NEW n \in 0..255 PROVE UInt8(n) = n
BY DEF UInt8

\* A comparison is true or false.
LEMMA LessBoolean == ASSUME NEW m, NEW n PROVE (m < n) \in BOOLEAN
OBVIOUS

\* A write to TWCR keeps the types.
LEMMA AfterType ==
  ASSUME TypeInv, bus' = bus, NEW p \in Phase, NEW ie \in BOOLEAN, NEW ea \in BOOLEAN, NEW sta \in BOOLEAN,
         After(p, ie, ea, sta), twdr' \in Byte \cup {"TW_WRITE", "TW_READ"}, p = "mt" => twdr' \in Byte
  PROVE  PlainType'
<1>1. bus' \in Buses /\ phase' \in Phase /\ twie' \in BOOLEAN /\ twea' \in BOOLEAN /\ twsta' \in BOOLEAN
  BY ONLY TypeInv, bus' = bus, p \in Phase, ie \in BOOLEAN, ea \in BOOLEAN, sta \in BOOLEAN,
     After(p, ie, ea, sta), Zenon DEF After, TypeInv, PlainType
<1>2. status' = "none" /\ status' \in Status
  BY ONLY After(p, ie, ea, sta) DEF After, Status
<1>3. status' \notin {"TW_MR_DATA_ACK", "TW_MR_DATA_NACK", "TW_SR_DATA_ACK"}  BY ONLY <1>2
<1>4. phase' = "mt" => twdr' \in Byte
  BY ONLY p = "mt" => twdr' \in Byte, After(p, ie, ea, sta), Zenon DEF After
<1> QED  BY ONLY <1>1, <1>2, <1>3, <1>4, twdr' \in Byte \cup {"TW_WRITE", "TW_READ"}, Zenon DEF PlainType

\* The byte the handler puts into TWDR from a buffer.
LEMMA CellByte ==
  ASSUME NEW buffer \in [Cell -> Byte], NEW i, NEW d \in IF i \in Cell THEN {buffer[i]} ELSE Byte
  PROVE  d \in Byte
OBVIOUS

\* The types are kept: of the peripheral,
LEMMA StepPlain ==
  ASSUME TypeInv, LineInv, [Next]_vars
  PROVE  PlainType'
<1> USE Zenon
<1>a. bus' = bus  BY Steps
<1>b. ASSUME UNCHANGED peripheral PROVE PlainType'
  BY <1>a, <1>b, Tuples DEF TypeInv, PlainType, Apart
<1>c. /\ "idle" \in Phase /\ "restart" \in Phase /\ "address" \in Phase /\ "mt" \in Phase /\ "mr" \in Phase
      /\ "sr" \in Phase /\ "st" \in Phase
  BY SMT DEF Phase
<1>d. twdr \in Byte \cup {"TW_WRITE", "TW_READ"} /\ twi_slarw \in Byte \cup {"TW_WRITE", "TW_READ"}
  BY DEF TypeInv, PlainType, FlagType
<1>e. ASSUME NEW p \in Phase \ {"mt"}, NEW ea, After(p, TRUE, ea, FALSE), ea \in BOOLEAN,
             twdr' \in Byte \cup {"TW_WRITE", "TW_READ"}
      PROVE  PlainType'
  <2>1. p \in Phase /\ p # "mt"  BY ONLY <1>e
  <2> QED  BY AfterType, <1>a, <1>e, <2>1
<1>f. ASSUME Ended, twdr' = twdr PROVE PlainType'
  <2>1. CASE After("idle", TRUE, TRUE, FALSE)  BY <1>a, <1>c, <1>d, <1>f, <2>1, AfterType
  <2>2. CASE After("restart", FALSE, FALSE, TRUE)  BY <1>a, <1>c, <1>d, <1>f, <2>2, AfterType
  <2> QED  BY <1>f, <2>1, <2>2 DEF Ended
<1>1. CASE UNCHANGED vars \/ Quiet \/ onReceiveService \/ onRequestService
  BY <1>1, <1>b, Tuples, QuietFrame, CallbackFrame DEF Apart, CallbacksKeep
<1>2. CASE begin
  <2>1. /\ twie' = TRUE /\ twea' = TRUE /\ twsta' = FALSE /\ phase' = (IF phase = "off" THEN "idle" ELSE phase)
        /\ status' = status /\ twdr' = twdr
    BY <1>2 DEF begin, twi_init
  <2>2. phase' \in Phase /\ (phase' = "mt" => phase = "mt")  BY ONLY <2>1, TypeInv, <1>c DEF TypeInv, PlainType
  <2> QED  BY <1>a, <2>1, <2>2 DEF TypeInv, PlainType
<1>3. CASE Driver
  <2>1. CASE UNCHANGED peripheral  BY ONLY <2>1, <1>b
  <2>2. CASE Start
    <3>1. CASE twi_inRepStart  BY <1>a, <1>c, <1>d, <2>2, <3>1, AfterType, StartEffect DEF StartDoes
    <3>2. CASE ~twi_inRepStart
      <4>1. status = "none"
        BY <2>2, <3>2, StartEffect DEF LineInv, SketchRuns, Interrupt, StartDoes
      <4>2. PhaseAfter(status, phase, TRUE, FALSE) = phase
        BY ONLY <4>1 DEF PhaseAfter, AddressedReceive, AddressedTransmit
      <4>3. After(phase, TRUE, TRUE, TRUE) /\ twdr' = twdr  BY <2>2, <3>2, <4>2, StartEffect DEF StartDoes
      <4>4. phase \in Phase /\ (phase = "mt" => twdr' \in Byte)
        BY <4>3 DEF TypeInv, PlainType
      <4> QED  BY <1>a, <1>d, <4>3, <4>4, AfterType
    <3> QED  BY <3>1, <3>2
  <2> QED  BY <2>1, <2>2, <1>3, DriverFrame, Tuples DEF Apart
<1>4. CASE MasterVect
  <2>1. CASE OnStart  BY <2>1, <1>a, <1>c, <1>d, AfterType, MasterEffect DEF MasterDoes
  <2>2. CASE OnMasterTransmit
    <3>1. CASE After("mt", TRUE, TRUE, FALSE) /\ twdr' \in IF masterIndex \in Cell THEN {masterBuffer[masterIndex]} ELSE Byte
      <4>1. masterBuffer \in [Cell -> Byte]  BY DEF TypeInv, MasterType
      <4>2. twdr' \in Byte  BY <3>1, <4>1, CellByte
      <4> QED  BY <3>1, <4>2, <1>a, <1>c, AfterType
    <3>2. CASE Ended /\ twdr' = twdr  BY ONLY <3>2, <1>f
    <3> QED  BY <3>1, <3>2, <2>2, MasterEffect DEF MasterDoes
  <2>3. CASE OnRefused \/ OnArbitrationLost
    BY <2>3, <1>a, <1>c, <1>d, AfterType, MasterEffect DEF MasterDoes
  <2>4. CASE OnMasterReceive
    <3>1. PICK ea \in BOOLEAN : ea = (masterIndex' < masterLength)  BY LessBoolean
    <3>2. After("mr", TRUE, ea, FALSE) /\ twdr' = twdr  BY <2>4, <3>1, MasterEffect DEF MasterDoes
    <3> QED  BY <3>1, <3>2, <1>a, <1>c, <1>d, AfterType
  <2>5. CASE OnLastByte  BY <2>5, <1>f, MasterEffect DEF MasterDoes
  <2> QED  BY <1>4, <2>1, <2>2, <2>3, <2>4, <2>5 DEF MasterVect
<1>5. CASE SlaveVect
  <2>1. CASE OnAddressedReceive \/ OnSlaveRefused \/ OnSlaveStop \/ OnSlaveSent
    BY <2>1, <1>a, <1>c, <1>d, AfterType, SlaveEffect DEF SlaveDoes
  <2>2. CASE OnSlaveData  BY <2>2, <1>a, <1>c, <1>d, AfterType, SlaveEffect DEF SlaveDoes
  <2>3. CASE OnSlaveStopDone
    <3>1. PICK p : p = PhaseAfter(status, phase, FALSE, FALSE)  OBVIOUS
    <3>2. After(p, TRUE, TRUE, FALSE) /\ twdr' = twdr /\ isr = "received"
      BY <2>3, <3>1, StopDoneEffect DEF StopDoneDoes
    <3>3. status = "none" \/ status \in {"TW_START", "TW_SR_SLA_ACK", "TW_ST_SLA_ACK"}
      BY ONLY <3>2, LineInv DEF LineInv, StatusIn
    <3>4. p \in {"idle", "address", "sr", "st"}
      BY ONLY <3>1, <3>2, <3>3, LineInv DEF PhaseAfter, AddressedReceive, AddressedTransmit, LineInv
    <3>5. p \in Phase /\ p # "mt"  BY ONLY <3>4 DEF Phase
    <3> QED  BY <3>2, <3>5, <1>a, <1>d, AfterType
  <2>4. CASE OnAddressedTransmit  BY <2>4, <1>b, SlaveEffect DEF SlaveDoes
  <2>5. CASE OnFilled \/ OnSlaveByteSent
    <3>1. PICK ea \in BOOLEAN : ea = (slaveTxIndex' < slaveTxLength')  BY LessBoolean
    <3>2. CASE OnFilled
      <4>1. status \in AddressedTransmit  BY ONLY <3>2, LineInv DEF OnFilled, LineInv
      <4>2. slaveTx' \in [Cell -> Byte]
        BY ONLY <3>2, <4>1, FilledEffect, TypeInv DEF TypeInv, SlaveType, Byte, FilledDoes
      <4>3. After("st", TRUE, ea, FALSE) /\ twdr' \in Byte
        BY <3>1, <3>2, <4>1, <4>2, FilledEffect, CellByte DEF FilledDoes
      <4> QED  BY <3>1, <4>3, <1>a, <1>c, AfterType
    <3>3. CASE OnSlaveByteSent
      <4>1. slaveTx \in [Cell -> Byte]  BY DEF TypeInv, SlaveType
      <4>2. After("st", TRUE, ea, FALSE) /\ twdr' \in Byte
        BY <3>1, <3>3, <4>1, SlaveEffect, CellByte DEF SlaveDoes
      <4> QED  BY <3>1, <4>2, <1>a, <1>c, AfterType
    <3> QED  BY <2>5, <3>2, <3>3
  <2> QED  BY <1>5, <2>1, <2>2, <2>3, <2>4, <2>5 DEF SlaveVect
<1>6. CASE Hardware
  <2>0. /\ bus.data \subseteq Byte
        /\ UNCHANGED <<phase, twie, twea, twsta>>
    BY <1>6, BusFacts, HardwareFrame DEF TypeInv, PlainType
  <2>1. ASSUME twdr' = twdr, status' \in Status \ {"TW_MR_DATA_ACK", "TW_MR_DATA_NACK", "TW_SR_DATA_ACK"}
        PROVE  PlainType'
    BY ONLY <2>0, <2>1, <1>a, TypeInv DEF TypeInv, PlainType
  <2>2. ASSUME twdr' \in Byte, status' \in Status PROVE PlainType'
    BY <2>0, <2>2, <1>a DEF TypeInv, PlainType
  <2>3. CASE DataReceived \/ SlaveDataReceived
    <3>1. twdr' \in Byte  BY <2>0, <2>3 DEF DataReceived, SlaveDataReceived
    <3>2. status' \in {"TW_MR_DATA_ACK", "TW_MR_DATA_NACK", "TW_SR_DATA_ACK", "TW_SR_DATA_NACK"}
      BY <2>3 DEF DataReceived, SlaveDataReceived, Raise
    <3>3. status' \in Status  BY ONLY <3>2 DEF Status
    <3> QED  BY <2>2, <3>1, <3>3
  <2>4. CASE SendStart \/ SendRepeatedStart \/ ArbitrationLost \/ SlaveStopReceived \/ BusError \/ DataSent
    BY ONLY <2>1, <2>4 DEF SendStart, SendRepeatedStart, ArbitrationLost, SlaveStopReceived, BusError, DataSent,
       Raise, Status
  <2>5. CASE SlaveDataSent \/ Addressed
    BY ONLY <2>1, <2>5 DEF SlaveDataSent, Addressed, Raise, Status, AddressedReceive, AddressedTransmit
  <2>6. CASE AddressAnswered  BY ONLY <2>1, <2>6 DEF AddressAnswered, Raise, Status
  <2> QED  BY <1>6, <2>3, <2>4, <2>5, <2>6 DEF Hardware, PeripheralNext
<1> QED  BY Steps, <1>1, <1>2, <1>3, <1>4, <1>5, <1>6

\* of what was seen on the bus,
LEMMA StepHistory ==
  ASSUME TypeInv, [Next]_vars
  PROVE  HistoryType'
<1> USE Zenon
<1> DEFINE Transfers == [sla : {"none", "ack", "nack"}, bytes : Seq(Byte), nacked : BOOLEAN]
<1>a. NoTransfer \in Transfers  BY ONLY DEF NoTransfer
<1>b. transfer \in Transfers /\ heard \in Seq(Byte) /\ answered \in Nat
  BY DEF TypeInv, HistoryType
<1>c. ASSUME transfer' \in Transfers, heard' \in Seq(Byte), answered' \in Nat PROVE HistoryType'
  BY <1>c DEF HistoryType
<1>d. ASSUME UNCHANGED busHist PROVE HistoryType'  BY <1>b, <1>c, <1>d, Tuples DEF Apart
<1>e. <<>> \in Seq(Byte) /\ 0 \in Nat  BY SMT
<1>f. transfer.bytes \in Seq(Byte)  BY <1>b
<1> HIDE DEF Transfers
<1>1. CASE UNCHANGED vars \/ Driver \/ MasterVect \/ onReceiveService \/ onRequestService
  BY <1>1, <1>d, Tuples, DriverFrame, MasterFrame, CallbackFrame DEF busHist, Apart, CallbacksKeep
<1>2. CASE begin  BY <1>2, <1>d, Tuples DEF begin, twi_init, Apart
<1>3. CASE Quiet
  <2>1. transfer' = transfer \/ transfer' = NoTransfer
    BY <1>3, Tuples DEF Quiet, onReceive, onRequest, beginTransmission, write, endTransmission,
       requestFrom, read, Call, write_store, twi_writeTo_return, twi_readFrom_return, requestFrom_return,
       Apart
  <2> QED  BY <2>1, <1>a, <1>b, <1>c, <1>3, QuietFrame
<1>4. CASE SlaveVect
  <2>1. (heard' = heard \/ heard' = <<>>) /\ (answered' = answered \/ answered' = 0)
    <3>1. CASE OnSlaveStopDone  BY <3>1, StopDoneEffect DEF StopDoneDoes
    <3>2. CASE OnFilled  BY <3>2, Tuples DEF OnFilled, Apart
    <3> QED  BY <1>4, <3>1, <3>2, SlaveEffect DEF SlaveVect, SlaveDoes
  <2> QED  BY <2>1, <1>b, <1>c, <1>e, <1>4, SlaveFrame
<1>5. CASE Hardware
  <2>0. bus.data \subseteq Byte  BY BusFacts DEF TypeInv, PlainType
  <2>1. CASE SendStart \/ SendRepeatedStart \/ SlaveStopReceived
    BY <2>1, <1>d DEF SendStart, SendRepeatedStart, SlaveStopReceived
  <2>2. CASE AddressAnswered
    <3>1. PICK ack \in {"ack", "nack"} : transfer' = [NoTransfer EXCEPT !.sla = ack]
      BY <2>2 DEF AddressAnswered
    <3>2. transfer' \in Transfers
      <4>1. transfer' = [sla |-> ack, bytes |-> <<>>, nacked |-> FALSE]  BY <3>1 DEF NoTransfer
      <4>2. ack \in {"none", "ack", "nack"} /\ <<>> \in Seq(Byte) /\ FALSE \in BOOLEAN  BY <1>e
      <4> QED  BY <4>1, <4>2 DEF Transfers
    <3> QED  BY <2>2, <3>2, <1>b, <1>c DEF AddressAnswered
  <2>3. CASE Addressed \/ ArbitrationLost \/ BusError
    <3>1. /\ transfer' = NoTransfer \/ transfer' = transfer
          /\ heard' = heard \/ heard' = <<>>
          /\ answered' = answered \/ answered' = 0
      BY <2>3 DEF Addressed, ArbitrationLost, BusError, TransferCut
    <3> QED  BY <3>1, <1>a, <1>b, <1>c, <1>e
  <2>4. CASE DataSent
    <3>1. /\ \/ transfer' = [transfer EXCEPT !.bytes = Append(@, twdr)]
             \/ transfer' = [transfer EXCEPT !.nacked = TRUE]
          /\ phase = "mt" /\ UNCHANGED <<heard, answered>>
      BY <2>4 DEF DataSent
    <3>2. twdr \in Byte  BY <3>1 DEF TypeInv, PlainType
    <3>3. transfer' \in Transfers
      <4>1. Append(transfer.bytes, twdr) \in Seq(Byte)  BY <1>f, <3>2, ByteAppended
      <4>2. TRUE \in BOOLEAN  OBVIOUS
      <4> QED  BY <3>1, <4>1, <4>2, <1>b DEF Transfers
    <3> QED  BY <3>1, <3>3, <1>b, <1>c
  <2>5. CASE DataReceived
    <3>1. PICK d \in bus.data : transfer' = [transfer EXCEPT !.bytes = Append(@, d), !.nacked = ~twea]
      BY <2>5 DEF DataReceived
    <3>2. d \in Byte /\ twea \in BOOLEAN  BY <2>0 DEF TypeInv, PlainType
    <3>3. (~twea) \in BOOLEAN /\ Append(transfer.bytes, d) \in Seq(Byte)
      BY <1>f, <3>2, ByteAppended
    <3>4. transfer' \in Transfers  BY <3>1, <3>3, <1>b DEF Transfers
    <3> QED  BY <2>5, <3>4, <1>b, <1>c DEF DataReceived
  <2>6. CASE SlaveDataReceived
    <3>1. PICK d \in bus.data : heard' = Append(heard, d)  BY <2>6 DEF SlaveDataReceived
    <3>2. heard' \in Seq(Byte)  BY ONLY <2>0, <3>1, <1>b
    <3> QED  BY <2>6, <3>2, <1>b, <1>c DEF SlaveDataReceived
  <2>7. CASE SlaveDataSent
    <3>1. answered' = answered + 1 /\ UNCHANGED <<transfer, heard>>  BY <2>7 DEF SlaveDataSent
    <3>2. answered' \in Nat  BY ONLY <3>1, <1>b
    <3> QED  BY <3>1, <3>2, <1>b, <1>c
  <2> QED  BY <1>5, <2>1, <2>2, <2>3, <2>4, <2>5, <2>6, <2>7 DEF Hardware, PeripheralNext
<1> QED  BY Steps, <1>1, <1>2, <1>3, <1>4, <1>5

\* of the flags of the driver,
LEMMA StepFlags ==
  ASSUME TypeInv, [Next]_vars
  PROVE  FlagType'
<1> USE Zenon
<1> DEFINE States == {"TWI_READY", "TWI_MRX", "TWI_MTX", "TWI_SRX", "TWI_STX"}
<1>a. twi_state \in States /\ twi_slarw \in {"TW_WRITE", "TW_READ"} /\ twi_sendStop \in BOOLEAN
      /\ twi_inRepStart \in BOOLEAN /\ twi_error \in Status /\ status \in Status
      /\ mode \in {"TWI_MRX", "TWI_MTX"} /\ sendStop \in BOOLEAN
  BY DEF TypeInv, FlagType, PlainType, CallType
<1>b. /\ "TWI_READY" \in States /\ "TWI_SRX" \in States /\ "TWI_STX" \in States /\ mode \in States
      /\ "none" \in Status /\ "TW_MT_ARB_LOST" \in Status /\ TRUE \in BOOLEAN /\ FALSE \in BOOLEAN
  BY ONLY <1>a DEF Status
<1>c. ASSUME twi_state' \in States, twi_slarw' \in {"TW_WRITE", "TW_READ"}, twi_sendStop' \in BOOLEAN,
             twi_inRepStart' \in BOOLEAN, twi_error' \in Status
      PROVE  FlagType'
  BY <1>c DEF FlagType
<1> HIDE DEF States
<1>d. ASSUME UNCHANGED flags PROVE FlagType'  BY <1>a, <1>c, <1>d, Tuples DEF Apart
<1>1. CASE UNCHANGED vars \/ Quiet \/ onReceiveService \/ onRequestService \/ Hardware
  BY <1>1, <1>d, Tuples, QuietFrame, CallbackFrame, HardwareFrame DEF Apart, CallbacksKeep
<1>2. CASE begin  BY <1>2, <1>a, <1>b, <1>c DEF begin, twi_init
<1>3. CASE Driver
  <2>1. CASE AwaitReady  BY <2>1, <1>d DEF AwaitReady
  <2>2. CASE Claim \/ twi_readFrom_setup \/ twi_writeTo_setup(txBuffer)
    BY <2>2, <1>a, <1>b, <1>c DEF Claim, twi_readFrom_setup, twi_writeTo_setup
  <2>3. CASE Start  BY <2>3, <1>a, <1>b, <1>c, StartEffect DEF StartDoes
  <2> QED  BY <1>3, <2>1, <2>2, <2>3 DEF Driver
<1>4. CASE MasterVect
  <2>1. CASE Ended  BY <2>1, <1>a, <1>b, <1>c DEF Ended
  <2>2. CASE OnRefused \/ OnArbitrationLost  BY <2>2, <1>a, <1>b, <1>c, MasterEffect DEF MasterDoes
  <2> QED  BY <1>4, <1>d, <2>1, <2>2, MasterEffect DEF MasterVect, MasterDoes
<1>5. CASE SlaveVect
  <2>1. twi_state' \in States
    <3>1. CASE OnSlaveStopDone  BY <3>1, <1>b, StopDoneEffect DEF StopDoneDoes
    <3>2. CASE OnFilled  BY <3>2, <1>a, Tuples DEF OnFilled, Apart
    <3> QED  BY <1>5, <1>a, <1>b, <3>1, <3>2, SlaveEffect DEF SlaveVect, SlaveDoes
  <2> QED  BY <1>5, <2>1, <1>a, <1>c, SlaveFrame
<1> QED  BY Steps, <1>1, <1>2, <1>3, <1>4, <1>5

\* of the master's buffer,
LEMMA StepMasterType ==
  ASSUME TypeInv, [Next]_vars
  PROVE  MasterType'
<1> USE Zenon
<1>a. masterBuffer \in [Cell -> Byte] /\ masterIndex \in 0..255 /\ masterLength \in 0..255
  BY DEF TypeInv, MasterType
<1>b. ASSUME masterBuffer' \in [Cell -> Byte], masterIndex' \in 0..255, masterLength' \in 0..255
      PROVE  MasterType'
  BY <1>b DEF MasterType
<1>c. ASSUME UNCHANGED master PROVE MasterType'  BY <1>a, <1>b, <1>c, Tuples DEF Apart
<1>d. UInt8(masterIndex + 1) \in 0..255
  <2>1. masterIndex + 1 \in Int  BY ONLY <1>a
  <2> QED  BY <2>1, UInt8Type
<1>1. CASE UNCHANGED vars \/ Quiet \/ SlaveVect \/ onReceiveService \/ onRequestService \/ Hardware
  BY <1>1, <1>c, Tuples, QuietFrame, SlaveFrame, CallbackFrame, HardwareFrame DEF Apart, CallbacksKeep
<1>2. CASE begin  BY <1>2, <1>c DEF begin, twi_init
<1>3. CASE Driver
  <2>0. length \in 0..255 /\ txBuffer \in [Slot -> Byte] /\ 0 \in 0..255
    BY ONLY TypeInv, Constants DEF TypeInv, CallType, WireType
  <2>1. CASE AwaitReady \/ Claim \/ Start
    BY <2>1, <1>c, StartEffect, Tuples DEF AwaitReady, Claim, Apart, StartDoes
  <2>2. CASE twi_readFrom_setup
    <3>1. length - 1 \in Int  BY ONLY <2>0
    <3>2. UInt8(length - 1) \in 0..255  BY <3>1, UInt8Type
    <3> QED  BY <2>0, <2>2, <3>2, <1>a, <1>b DEF twi_readFrom_setup
  <2>3. CASE twi_writeTo_setup(txBuffer)
    <3>1. [i \in Cell |-> IF i < length THEN txBuffer[i] ELSE masterBuffer[i]] \in [Cell -> Byte]
      BY ONLY <2>0, <1>a, Constants
    <3> QED  BY <2>0, <2>3, <3>1, <1>b DEF twi_writeTo_setup
  <2> QED  BY <1>3, <2>1, <2>2, <2>3 DEF Driver
<1>4. CASE MasterVect
  <2>1. CASE OnStart \/ OnRefused \/ OnArbitrationLost  BY <2>1, <1>c, MasterEffect DEF MasterDoes
  <2>2. CASE OnMasterTransmit  BY <2>2, <1>a, <1>b, <1>d, MasterEffect DEF MasterDoes
  <2>3. CASE OnMasterReceive \/ OnLastByte
    <3>1. CASE status \in {"TW_MR_DATA_ACK", "TW_MR_DATA_NACK"}
      <4>1. twdr \in Byte  BY ONLY <3>1, TypeInv DEF TypeInv, PlainType
      <4>2. [masterBuffer EXCEPT ![masterIndex] = twdr] \in [Cell -> Byte]  BY <4>1, <1>a
      <4>3. UNCHANGED masterBuffer \/ masterBuffer' = [masterBuffer EXCEPT ![masterIndex] = twdr]
        BY <2>3, MasterEffect DEF MasterDoes
      <4> QED  BY <2>3, <4>2, <4>3, <1>a, <1>b, <1>d, MasterEffect DEF MasterDoes
    <3>2. CASE status \notin {"TW_MR_DATA_ACK", "TW_MR_DATA_NACK"}
      <4>1. UNCHANGED <<masterBuffer, masterIndex, masterLength>>  BY <2>3, <3>2, MasterEffect DEF MasterDoes
      <4> QED  BY <4>1, <1>a, <1>b
    <3> QED  BY <3>1, <3>2
  <2> QED  BY <1>4, <2>1, <2>2, <2>3 DEF MasterVect
<1> QED  BY Steps, <1>1, <1>2, <1>3, <1>4

\* of the slave's buffers,
LEMMA StepSlaveType ==
  ASSUME TypeInv, LineInv, [Next]_vars
  PROVE  SlaveType'
<1> USE Zenon
<1>a. /\ slaveTx \in [Cell -> Byte] /\ slaveTxIndex \in 0..255 /\ slaveTxLength \in 0..Size
      /\ slaveRx \in [Cell -> Byte] /\ slaveRxIndex \in 0..Size
  BY DEF TypeInv, SlaveType
<1>b. ASSUME slaveTx' \in [Cell -> Byte], slaveTxIndex' \in 0..255, slaveTxLength' \in 0..Size,
             slaveRx' \in [Cell -> Byte], slaveRxIndex' \in 0..Size
      PROVE  SlaveType'
  BY <1>b DEF SlaveType
<1>c. ASSUME UNCHANGED slave PROVE SlaveType'  BY <1>a, <1>b, <1>c, Tuples DEF Apart
<1>d. 0 \in 0..255 /\ 0 \in 0..Size /\ 1 \in 0..Size /\ Null \in Byte  BY ONLY Constants DEF Byte
<1>e. UInt8(slaveTxIndex + 1) \in 0..255
  <2>1. slaveTxIndex + 1 \in Int  BY ONLY <1>a
  <2> QED  BY <2>1, UInt8Type
<1>1. CASE UNCHANGED vars \/ Quiet \/ Driver \/ MasterVect \/ onReceiveService \/ Hardware
  BY <1>1, <1>c, Tuples, QuietFrame, DriverFrame, MasterFrame, CallbackFrame, HardwareFrame DEF Apart, CallbacksKeep
<1>2. CASE begin  BY <1>2, <1>c DEF begin, twi_init
<1>3. CASE SlaveVect
  <2>1. CASE OnAddressedReceive \/ OnAddressedTransmit  BY <2>1, <1>a, <1>b, <1>d, SlaveEffect DEF SlaveDoes
  <2>2. CASE OnSlaveRefused \/ OnSlaveSent  BY <2>2, <1>c, SlaveEffect DEF SlaveDoes
  <2>3. CASE OnSlaveData
    <3>1. CASE slaveRxIndex < Size
      <4>1. slaveRx' = [slaveRx EXCEPT ![slaveRxIndex] = twdr] /\ slaveRxIndex' = UInt8(slaveRxIndex + 1)
            /\ status = "TW_SR_DATA_ACK"
        BY <2>3, <3>1, SlaveEffect DEF SlaveDoes
      <4>2. twdr \in Byte  BY ONLY <4>1, TypeInv DEF TypeInv, PlainType
      <4>3. slaveRx' \in [Cell -> Byte]  BY <4>1, <4>2, <1>a
      <4>4. PICK n \in 0..255 : n = slaveRxIndex + 1 /\ n \in 0..Size  BY ONLY <3>1, <1>a, Constants
      <4>5. slaveRxIndex' \in 0..Size  BY <4>1, <4>4, UInt8Same
      <4> QED  BY <2>3, <4>3, <4>5, <1>a, <1>b, SlaveEffect DEF SlaveDoes
    <3>2. CASE ~(slaveRxIndex < Size)  BY <2>3, <3>2, <1>a, <1>b, SlaveEffect DEF SlaveDoes
    <3> QED  BY <3>1, <3>2
  <2>4. CASE OnSlaveStop
    <3>1. [i \in Cell |-> IF i = slaveRxIndex THEN Null ELSE slaveRx[i]] \in [Cell -> Byte]  BY ONLY <1>a, <1>d
    <3> QED  BY <2>4, <3>1, <1>a, <1>b, SlaveEffect DEF SlaveDoes
  <2>5. CASE OnSlaveStopDone  BY <2>5, <1>a, <1>b, <1>d, StopDoneEffect DEF StopDoneDoes
  <2>6. CASE OnFilled
    <3>1. status \in AddressedTransmit  BY ONLY <2>6, LineInv DEF OnFilled, LineInv
    <3>2. [i \in Cell |-> IF slaveTxLength = 0 /\ i = 0 THEN Null ELSE slaveTx[i]] \in [Cell -> Byte]
      BY ONLY <1>a, <1>d
    <3> QED  BY <2>6, <3>1, <3>2, <1>a, <1>b, <1>d, <1>e, FilledEffect DEF FilledDoes
  <2>7. CASE OnSlaveByteSent  BY <2>7, <1>a, <1>b, <1>e, SlaveEffect DEF SlaveDoes
  <2> QED  BY <1>3, <2>1, <2>2, <2>3, <2>4, <2>5, <2>6, <2>7 DEF SlaveVect
<1>4. CASE onRequestService
  <2>1. bus.data \subseteq Byte  BY BusFacts DEF TypeInv, PlainType
  <2>2. ASSUME NEW n \in Nat, NEW reply \in [1..n -> bus.data], twi_transmit(reply)
        PROVE  slaveTx' \in [Cell -> Byte] /\ slaveTxLength' \in 0..Size
    <3>1. Len(reply) = n /\ \A i \in Cell : i < n => reply[i + 1] \in Byte
      BY ONLY <2>1, <2>2, Constants DEF Cell
    <3>2. CASE n <= Size /\ twi_state = "TWI_STX"
      <4>1. slaveTxLength' = n /\ slaveTx' = [i \in Cell |-> IF i < n THEN reply[i + 1] ELSE slaveTx[i]]
        BY <2>2, <3>1, <3>2 DEF twi_transmit, Size
      <4> QED  BY ONLY <4>1, <3>1, <3>2, <1>a, n \in Nat, Constants
    <3>3. CASE ~(n <= Size /\ twi_state = "TWI_STX")
      BY <2>2, <3>1, <3>3, <1>a DEF twi_transmit, Size
    <3> QED  BY <3>2, <3>3
  <2>3. slaveTx' \in [Cell -> Byte] /\ slaveTxLength' \in 0..Size
    <3>1. CASE UNCHANGED slave  BY <3>1, <1>a, Tuples DEF Apart
    <3>2. CASE \E n \in 0..bus.size : \E reply \in [1..n -> bus.data] : twi_transmit(reply)
      <4>1. PICK n \in 0..bus.size : \E reply \in [1..n -> bus.data] : twi_transmit(reply)  BY <3>2
      <4>2. n \in Nat  BY ONLY <4>1
      <4> QED  BY <4>1, <4>2, <2>2
    <3> QED  BY <1>4, <3>1, <3>2 DEF onRequestService
  <2> QED  BY <1>4, <2>3, <1>a, <1>b, CallbackFrame DEF CallbacksKeep
<1> QED  BY Steps, <1>1, <1>2, <1>3, <1>4

\* of the call that runs,
LEMMA StepCall ==
  ASSUME TypeInv, [Next]_vars
  PROVE  CallType'
<1> USE Zenon
<1> DEFINE Isrs == {"none", "onSlaveReceive", "received", "onSlaveTransmit", "filled"}
           Places == {"off", "idle", "store", "requested"} \cup InCall
<1>a. /\ isr \in Isrs /\ pc \in Places /\ mode \in {"TWI_MRX", "TWI_MTX"}
      /\ length \in 0..Size /\ sendStop \in BOOLEAN
      /\ pc \in InCall /\ mode = "TWI_MRX" => length > 0
  BY DEF TypeInv, CallType
<1>b. ASSUME isr' \in Isrs, pc' \in Places, mode' \in {"TWI_MRX", "TWI_MTX"}, length' \in 0..Size,
             sendStop' \in BOOLEAN, pc' \in InCall /\ mode' = "TWI_MRX" => length' > 0
      PROVE  CallType'
  BY <1>b DEF CallType
<1>c. "none" \in Isrs /\ "onSlaveReceive" \in Isrs /\ "received" \in Isrs /\ "onSlaveTransmit" \in Isrs
      /\ "filled" \in Isrs
  OBVIOUS
<1>d. "idle" \in Places /\ "store" \in Places /\ "requested" \in Places /\ InCall \subseteq Places
      /\ "idle" \notin InCall /\ "store" \notin InCall /\ "requested" \notin InCall
  BY ONLY DEF InCall
<1>e. "ready" \in InCall /\ "claim" \in InCall /\ "setup" \in InCall /\ "start" \in InCall /\ "wait" \in InCall
  BY ONLY DEF InCall
<1>f. 0 \in 0..Size  BY ONLY Constants
<1> HIDE DEF Isrs, Places
<1>g. ASSUME UNCHANGED call, isr' \in Isrs PROVE CallType'  BY <1>a, <1>b, <1>g, Tuples DEF Apart
<1>1. CASE UNCHANGED vars \/ MasterVect \/ Hardware
  BY <1>1, <1>a, <1>g, Tuples, MasterFrame, HardwareFrame DEF Apart
<1>2. CASE begin  BY <1>2, <1>a, <1>b, <1>d DEF begin, twi_init
<1>3. CASE SlaveVect
  <2>1. isr' \in Isrs
    <3>1. CASE OnSlaveStopDone \/ OnFilled  BY <3>1, <1>c DEF OnSlaveStopDone, OnFilled
    <3> QED  BY <1>3, <1>a, <1>c, <3>1, SlaveEffect, Tuples DEF SlaveVect, Apart, SlaveDoes
  <2> QED  BY <1>3, <2>1, <1>g, SlaveFrame
<1>4. CASE onReceiveService \/ onRequestService
  BY <1>4, <1>c, <1>g, CallbackFrame DEF onReceiveService, onRequestService, CallbacksKeep
<1>5. CASE Driver
  <2>1. pc \in InCall /\ pc' \in InCall
    BY <1>5, <1>e DEF Driver, AwaitReady, Claim, Start, twi_writeTo_setup, twi_readFrom_setup
  <2> QED  BY <1>5, <2>1, <1>a, <1>b, <1>d, DriverFrame
<1>6. CASE Quiet
  <2>0. isr' \in Isrs  BY <1>6, <1>a, QuietFrame
  <2>1. CASE onReceive \/ onRequest \/ beginTransmission \/ read
    BY <2>0, <2>1, <1>g, Tuples DEF onReceive, onRequest, beginTransmission, read, Apart
  <2>2. CASE write \/ write_store  BY <2>0, <2>2, <1>a, <1>b, <1>d DEF write, write_store
  <2>3. CASE twi_writeTo_return \/ requestFrom_return
    BY <2>0, <2>3, <1>a, <1>b, <1>d, <1>f DEF twi_writeTo_return, requestFrom_return
  <2>4. CASE twi_readFrom_return
    <3>1. ReadLength \in 0..Size
      <4>1. masterIndex \in Nat  BY ONLY TypeInv DEF TypeInv, MasterType
      <4> QED  BY ONLY <4>1, <1>a, Constants DEF ReadLength
    <3> QED  BY <2>0, <2>4, <3>1, <1>a, <1>b, <1>d DEF twi_readFrom_return
  <2>5. ASSUME NEW m, NEW n, NEW stop \in BOOLEAN, Call(m, n, stop), m \in {"TWI_MRX", "TWI_MTX"}, n \in 0..Size,
               m = "TWI_MRX" => n > 0
        PROVE  CallType'
    BY <2>0, <2>5, <1>b, <1>d, <1>e DEF Call
  <2>6. CASE endTransmission
    <3>1. CASE Size < txBufferLength
      BY <2>0, <2>6, <3>1, <1>g, Tuples DEF endTransmission, Size, Apart
    <3>2. CASE ~(Size < txBufferLength)
      <4>1. PICK stop \in BOOLEAN : Call("TWI_MTX", txBufferLength, stop)
        BY <2>6, <3>2 DEF endTransmission, Size
      <4>2. txBufferLength \in 0..Size  BY ONLY <3>2, TypeInv, Constants DEF TypeInv, WireType
      <4>3. "TWI_MTX" \in {"TWI_MRX", "TWI_MTX"} /\ "TWI_MTX" # "TWI_MRX"  OBVIOUS
      <4> QED  BY <4>1, <4>2, <4>3, <2>5
    <3> QED  BY <3>1, <3>2
  <2>7. CASE requestFrom
    <3>1. PICK q \in 1..bus.size, stop \in BOOLEAN :
             \/ Size < Fits(q) /\ UNCHANGED driver
             \/ ~(Size < Fits(q)) /\ Call("TWI_MRX", Fits(q), stop)
      BY <2>7 DEF requestFrom, Size
    <3>2. CASE UNCHANGED driver  BY <2>0, <3>2, <1>g, Tuples DEF Apart
    <3>3. CASE ~(Size < Fits(q)) /\ Call("TWI_MRX", Fits(q), stop)
      <4>1. Fits(q) \in 0..Size /\ Fits(q) > 0  BY ONLY <3>1, <3>3, Constants DEF Fits
      <4>2. "TWI_MRX" \in {"TWI_MRX", "TWI_MTX"}  OBVIOUS
      <4> QED  BY <3>1, <3>3, <4>1, <4>2, <2>5
    <3> QED  BY <3>1, <3>2, <3>3
  <2> QED  BY <1>6, <2>1, <2>2, <2>3, <2>4, <2>6, <2>7 DEF Quiet
<1> QED  BY Steps, <1>1, <1>2, <1>3, <1>4, <1>5, <1>6

\* of the receive buffer of Wire,
LEMMA StepWireRx ==
  ASSUME TypeInv, [Next]_vars
  PROVE  /\ rxBuffer' \in [Slot -> Byte]
         /\ rxBufferIndex' \in 0..BUFFER_LENGTH /\ rxBufferLength' \in 0..BUFFER_LENGTH
<1> USE Zenon
<1> DEFINE Goal == /\ rxBuffer' \in [Slot -> Byte]
                   /\ rxBufferIndex' \in 0..BUFFER_LENGTH /\ rxBufferLength' \in 0..BUFFER_LENGTH
<1>a. /\ rxBuffer \in [Slot -> Byte]
      /\ rxBufferIndex \in 0..BUFFER_LENGTH /\ rxBufferLength \in 0..BUFFER_LENGTH
  BY DEF TypeInv, WireType
<1>b. 0 \in 0..BUFFER_LENGTH  BY ONLY Constants
<1>c. ASSUME UNCHANGED wireRx PROVE Goal  BY <1>a, <1>c, Tuples DEF Apart
<1>d. ASSUME NEW n \in 0..Size, NEW buffer \in [Cell -> Byte]
      PROVE  [i \in Slot |-> IF i < n THEN buffer[i] ELSE rxBuffer[i]] \in [Slot -> Byte]
  <2>1. \A i \in Slot : i < n => i \in Cell  BY ONLY <1>d, Constants DEF Slot
  <2> QED  BY ONLY <1>a, <1>d, <2>1
<1>e. \A n \in 0..Size : n \in 0..BUFFER_LENGTH  BY ONLY Constants
<1>1. CASE UNCHANGED vars \/ Driver \/ MasterVect \/ SlaveVect \/ onRequestService \/ Hardware
  BY <1>1, <1>c, Tuples, DriverFrame, MasterFrame, SlaveFrame, CallbackFrame, HardwareFrame DEF Apart, CallbacksKeep
<1>2. CASE begin  BY <1>2, <1>a, <1>b DEF begin
<1>3. CASE onReceiveService
  <2>1. CASE UNCHANGED wireRx  BY ONLY <2>1, <1>c
  <2>2. CASE /\ rxBuffer' = [i \in Slot |-> IF i < slaveRxIndex THEN slaveRx[i] ELSE rxBuffer[i]]
             /\ rxBufferLength' = slaveRxIndex /\ rxBufferIndex' \in 0..slaveRxIndex
    <3>1. slaveRxIndex \in 0..Size /\ slaveRx \in [Cell -> Byte]  BY DEF TypeInv, SlaveType
    <3>2. rxBufferIndex' \in 0..Size  BY ONLY <2>2, <3>1, Constants
    <3> QED  BY <2>2, <3>1, <3>2, <1>d, <1>e
  <2> QED  BY <1>3, <2>1, <2>2 DEF onReceiveService
<1>4. CASE Quiet
  <2>1. CASE onReceive \/ onRequest \/ beginTransmission \/ write \/ write_store
    BY <2>1, <1>c DEF onReceive, onRequest, beginTransmission, write, write_store
  <2>2. CASE endTransmission \/ twi_writeTo_return
    BY <2>2, <1>c, Tuples DEF endTransmission, twi_writeTo_return, EndTail, Apart
  <2>3. CASE requestFrom  BY <2>3, <1>a, <1>b DEF requestFrom
  <2>4. CASE twi_readFrom_return
    <3>1. length' \in 0..Size  BY StepCall DEF CallType
    <3>2. masterBuffer \in [Cell -> Byte]  BY DEF TypeInv, MasterType
    <3> QED  BY <2>4, <3>1, <3>2, <1>a, <1>d DEF twi_readFrom_return
  <2>5. CASE requestFrom_return
    <3>1. length \in 0..Size  BY DEF TypeInv, CallType
    <3> QED  BY <2>5, <3>1, <1>a, <1>b, <1>e DEF requestFrom_return
  <2>6. CASE read
    <3>0. rxBufferIndex < rxBufferLength  BY <2>6 DEF read
    <3>1. rxBufferIndex + 1 \in 0..BUFFER_LENGTH  BY ONLY <3>0, <1>a, Constants
    <3> QED  BY <2>6, <3>1, <1>a DEF read
  <2> QED  BY <1>4, <2>1, <2>2, <2>3, <2>4, <2>5, <2>6 DEF Quiet
<1> QED  BY Steps, <1>1, <1>2, <1>3, <1>4

\* of its transmit buffer,
LEMMA StepWireTx ==
  ASSUME TypeInv, [Next]_vars
  PROVE  /\ txBuffer' \in [Slot -> Byte] /\ txBufferIndex' \in 0..255 /\ txBufferLength' \in 0..255
         /\ transmitting' \in BOOLEAN /\ user' \subseteq {"onReceive", "onRequest"} /\ datum' \in Byte
<1> USE Zenon
<1> DEFINE Goal == /\ txBuffer' \in [Slot -> Byte] /\ txBufferIndex' \in 0..255 /\ txBufferLength' \in 0..255
                   /\ transmitting' \in BOOLEAN /\ user' \subseteq {"onReceive", "onRequest"} /\ datum' \in Byte
<1>a. /\ txBuffer \in [Slot -> Byte] /\ txBufferIndex \in 0..255 /\ txBufferLength \in 0..255
      /\ transmitting \in BOOLEAN /\ user \subseteq {"onReceive", "onRequest"} /\ datum \in Byte
  BY DEF TypeInv, WireType
<1>b. 0 \in 0..255 /\ TRUE \in BOOLEAN /\ FALSE \in BOOLEAN /\ Null \in Byte  BY ONLY DEF Byte
<1>c. ASSUME UNCHANGED wireTx, UNCHANGED <<user, datum>> PROVE Goal  BY <1>a, <1>c, Tuples DEF Apart
<1>d. bus.data \subseteq Byte  BY BusFacts DEF TypeInv, PlainType
<1>1. CASE UNCHANGED vars \/ Driver \/ MasterVect \/ SlaveVect \/ onReceiveService \/ Hardware
  BY <1>1, <1>c, Tuples, DriverFrame, MasterFrame, SlaveFrame, CallbackFrame, HardwareFrame DEF Apart, CallbacksKeep
<1>2. CASE begin  BY <1>2, <1>a, <1>b DEF begin
<1>3. CASE onRequestService
  <2>1. \/ UNCHANGED <<txBuffer, txBufferIndex, txBufferLength>>
        \/ UNCHANGED txBuffer /\ txBufferIndex' = 0 /\ txBufferLength' = 0
        \/ \E n \in 0..bus.size : \E reply \in [1..n -> bus.data] :
             /\ txBuffer' = [i \in Slot |-> IF i < n THEN reply[i + 1] ELSE txBuffer[i]]
             /\ txBufferIndex' = Fits(n) /\ txBufferLength' = Fits(n)
    BY <1>3 DEF onRequestService
  <2>2. ASSUME NEW n \in 0..bus.size, NEW reply \in [1..n -> bus.data]
        PROVE  /\ [i \in Slot |-> IF i < n THEN reply[i + 1] ELSE txBuffer[i]] \in [Slot -> Byte]
               /\ Fits(n) \in 0..255
    <3>1. \A i \in Slot : i < n => reply[i + 1] \in Byte  BY ONLY <2>2, <1>d, Constants DEF Slot
    <3>2. Fits(n) \in 0..255  BY ONLY <2>2, Constants DEF Fits
    <3> QED  BY ONLY <1>a, <3>1, <3>2
  <2>3. txBuffer' \in [Slot -> Byte] /\ txBufferIndex' \in 0..255 /\ txBufferLength' \in 0..255
    <3>1. CASE \E n \in 0..bus.size : \E reply \in [1..n -> bus.data] :
                 /\ txBuffer' = [i \in Slot |-> IF i < n THEN reply[i + 1] ELSE txBuffer[i]]
                 /\ txBufferIndex' = Fits(n) /\ txBufferLength' = Fits(n)
      <4>1. PICK n \in 0..bus.size : \E reply \in [1..n -> bus.data] :
                 /\ txBuffer' = [i \in Slot |-> IF i < n THEN reply[i + 1] ELSE txBuffer[i]]
                 /\ txBufferIndex' = Fits(n) /\ txBufferLength' = Fits(n)
        BY <3>1
      <4>2. PICK reply \in [1..n -> bus.data] :
                 /\ txBuffer' = [i \in Slot |-> IF i < n THEN reply[i + 1] ELSE txBuffer[i]]
                 /\ txBufferIndex' = Fits(n) /\ txBufferLength' = Fits(n)
        BY <4>1
      <4> QED  BY <4>2, <2>2
    <3> QED  BY <2>1, <3>1, <1>a, <1>b
  <2> QED  BY <1>3, <2>3, <1>a, CallbackFrame DEF CallbacksKeep
<1>4. CASE Quiet
  <2>1. CASE onReceive \/ onRequest
    <3>1. user' \subseteq {"onReceive", "onRequest"}  BY <2>1, <1>a DEF onReceive, onRequest
    <3> QED  BY <2>1, <3>1, <1>a, Tuples DEF onReceive, onRequest, Apart
  <2>2. CASE beginTransmission \/ write \/ read
    BY <2>2, <1>a, <1>b, <1>d, Tuples DEF beginTransmission, write, read, Apart
  <2>3. CASE write_store
    <3>1. UInt8(txBufferIndex + 1) \in 0..255
      <4>1. txBufferIndex + 1 \in Int  BY ONLY <1>a
      <4> QED  BY <4>1, UInt8Type
    <3>2. [txBuffer EXCEPT ![txBufferIndex] = datum] \in [Slot -> Byte]  BY <1>a
    <3> QED  BY <2>3, <3>1, <3>2, <1>a, <1>b DEF write_store
  <2>4. CASE endTransmission \/ twi_writeTo_return
    BY <2>4, <1>a, <1>b, <1>c, Tuples DEF endTransmission, twi_writeTo_return, EndTail, Apart
  <2>5. CASE requestFrom \/ twi_readFrom_return \/ requestFrom_return
    BY <2>5, <1>c, Tuples DEF requestFrom, twi_readFrom_return, requestFrom_return, Apart
  <2> QED  BY <1>4, <2>1, <2>2, <2>3, <2>4, <2>5 DEF Quiet
<1> QED  BY Steps, <1>1, <1>2, <1>3, <1>4

\* of what the sketch has asked for,
LEMMA StepWireHistory ==
  ASSUME TypeInv, [Next]_vars
  PROVE  /\ transfers' \in 0..bus'.transfers
         /\ composed' \in Seq(Byte) /\ asked' \in 0..BUFFER_LENGTH /\ given' \in Seq(Byte)
<1> USE Zenon
<1> DEFINE Goal == /\ transfers' \in 0..bus.transfers
                   /\ composed' \in Seq(Byte) /\ asked' \in 0..BUFFER_LENGTH /\ given' \in Seq(Byte)
<1>0. bus' = bus  BY Steps
<1> SUFFICES Goal  BY <1>0, SMT
<1>a. /\ transfers \in 0..bus.transfers
      /\ composed \in Seq(Byte) /\ asked \in 0..BUFFER_LENGTH /\ given \in Seq(Byte)
  BY DEF TypeInv, WireType
<1>b. 0 \in 0..BUFFER_LENGTH /\ <<>> \in Seq(Byte)  BY ONLY Constants
<1>c. ASSUME UNCHANGED history PROVE Goal  BY <1>a, <1>c, Tuples DEF Apart
<1>d. bus.data \subseteq Byte /\ bus.transfers \in Nat  BY BusFacts DEF TypeInv, PlainType
<1>e. transfers < bus.transfers => transfers + 1 \in 0..bus.transfers  BY ONLY <1>a, <1>d
<1>1. CASE UNCHANGED vars \/ Driver \/ MasterVect \/ SlaveVect \/ onReceiveService \/ Hardware
  BY <1>1, <1>c, Tuples, DriverFrame, MasterFrame, SlaveFrame, CallbackFrame, HardwareFrame DEF Apart, CallbacksKeep
<1>2. CASE begin  BY <1>2, <1>c DEF begin
<1>3. CASE onRequestService
  <2>1. given' = <<>> \/ \E n \in 0..bus.size : \E reply \in [1..n -> bus.data] : given' = reply
    BY <1>3 DEF onRequestService
  <2>2. ASSUME NEW n \in 0..bus.size, NEW reply \in [1..n -> bus.data] PROVE reply \in Seq(Byte)
    <3>1. n \in Nat /\ reply \in [1..n -> Byte]  BY ONLY <2>2, <1>d
    <3> QED  BY ONLY <3>1
  <2>3. given' \in Seq(Byte)  BY <2>1, <2>2, <1>b
  <2> QED  BY <1>3, <2>3, <1>a, CallbackFrame DEF CallbacksKeep
<1>4. CASE Quiet
  <2>1. CASE onReceive \/ onRequest \/ write \/ read \/ twi_readFrom_return
    BY <2>1, <1>c DEF onReceive, onRequest, write, read, twi_readFrom_return
  <2>2. CASE beginTransmission  BY <2>2, <1>a, <1>b, <1>e DEF beginTransmission
  <2>3. CASE write_store
    <3>1. datum \in Byte  BY DEF TypeInv, WireType
    <3>2. Append(composed, datum) \in Seq(Byte)  BY <3>1, <1>a, ByteAppended
    <3> QED  BY <2>3, <3>2, <1>a DEF write_store
  <2>4. CASE endTransmission \/ twi_writeTo_return
    BY <2>4, <1>a, <1>b, <1>c, Tuples DEF endTransmission, twi_writeTo_return, EndTail, Apart
  <2>5. CASE requestFrom
    <3>1. /\ \/ UNCHANGED <<transfers, asked>>
             \/ /\ \E q \in 1..bus.size : asked' = Fits(q)
                /\ transfers < bus.transfers /\ transfers' = transfers + 1
          /\ UNCHANGED <<composed, given>>
      BY <2>5 DEF requestFrom
    <3>2. \A q \in 1..bus.size : Fits(q) \in 0..BUFFER_LENGTH  BY ONLY Constants DEF Fits
    <3> QED  BY <3>1, <3>2, <1>a, <1>e
  <2>6. CASE requestFrom_return  BY <2>6, <1>a, <1>b DEF requestFrom_return
  <2> QED  BY <1>4, <2>1, <2>2, <2>3, <2>4, <2>5, <2>6 DEF Quiet
<1> QED  BY Steps, <1>1, <1>2, <1>3, <1>4

\* and so all of them.
LEMMA StepType ==
  ASSUME TypeInv, LineInv, [Next]_vars
  PROVE  TypeInv'
<1>1. WireType'
  BY ONLY TypeInv, [Next]_vars, StepWireRx, StepWireTx, StepWireHistory, Zenon DEF WireType
<1> QED
  BY ONLY TypeInv, LineInv, [Next]_vars, <1>1, StepPlain, StepHistory, StepFlags, StepMasterType, StepSlaveType,
     StepCall, Zenon DEF TypeInv

-----------------------------------------------------------------------------
(* The line.                                                                *)

\* Where the sketch is when it takes a step.
LEMMA Places ==
  /\ Quiet => pc # "off" /\ pc' # "off" /\ SketchRuns
  /\ Driver => pc \in InCall /\ pc' \in InCall /\ SketchRuns
<1> USE Zenon
<1>1. Quiet => pc # "off" /\ SketchRuns
  BY DEF Quiet, onReceive, onRequest, beginTransmission, write, endTransmission, requestFrom, read,
     write_store, twi_writeTo_return, twi_readFrom_return, requestFrom_return, SketchIdle, Done
<1>2. ASSUME Quiet PROVE pc' # "off"
  <2>1. CASE pc' = pc  BY <1>1, <1>2, <2>1
  <2>2. CASE pc' # pc
    BY <1>2, <2>2, Tuples DEF Quiet, onReceive, onRequest, beginTransmission, write, endTransmission,
       requestFrom, read, write_store, twi_writeTo_return, twi_readFrom_return, requestFrom_return, Call,
       Apart
  <2> QED  BY <2>1, <2>2
<1>3. Driver => pc \in InCall /\ pc' \in InCall /\ SketchRuns
  BY DEF Driver, AwaitReady, Claim, Start, twi_writeTo_setup, twi_readFrom_setup, InCall
<1> QED  BY <1>1, <1>2, <1>3

\* The sketch runs only when no status waits, or when the interrupt is off
\* for a repeated START.
LEMMA SketchLine ==
  ASSUME LineInv, SketchRuns, pc # "off"
  PROVE  isr = "none" /\ (~twi_inRepStart => status = "none")
BY ONLY LineInv, SketchRuns, pc # "off", Zenon DEF LineInv, SketchRuns, Interrupt

\* The handler runs only while no repeated START is kept.
LEMMA HandlerLine ==
  ASSUME LineInv, MasterVect \/ SlaveVect
  PROVE  pc # "off" /\ ~twi_inRepStart
<1>1. \/ Interrupt
      \/ isr = "received" \/ isr = "filled"
  BY ONLY MasterVect \/ SlaveVect, Zenon DEF MasterVect, SlaveVect, OnStart, OnMasterTransmit, OnRefused,
     OnArbitrationLost, OnMasterReceive, OnLastByte, OnAddressedReceive, OnSlaveData, OnSlaveRefused, OnSlaveStop,
     OnSlaveStopDone, OnAddressedTransmit, OnFilled, OnSlaveByteSent, OnSlaveSent, Handle
<1>2. twie \/ isr # "none"  BY ONLY <1>1 DEF Interrupt
<1> QED  BY ONLY <1>2, LineInv, Zenon DEF LineInv

\* TWI_vect runs only when there is a status and it is not running already.
LEMMA MasterVectNone == MasterVect => isr = "none" /\ status # "none"
BY ONLY Zenon DEF MasterVect, OnStart, OnMasterTransmit, OnRefused, OnArbitrationLost, OnMasterReceive, OnLastByte,
   Handle, Interrupt

\* The hardware raises only a status of its phase.
LEMMA HardwareStatus ==
  ASSUME Hardware
  PROVE  status' \in StatusIn(phase)
<1>1. CASE SendStart \/ SendRepeatedStart \/ DataSent \/ DataReceived
  BY ONLY <1>1, Zenon DEF SendStart, SendRepeatedStart, DataSent, DataReceived, Raise, StatusIn
<1>2. CASE AddressAnswered  BY ONLY <1>2 DEF AddressAnswered, Raise, StatusIn
<1>3. CASE Addressed  BY ONLY <1>3, Zenon DEF Addressed, Raise, StatusIn
<1>4. CASE ArbitrationLost \/ BusError  BY ONLY <1>4 DEF ArbitrationLost, BusError, Raise, StatusIn
<1>5. CASE SlaveDataReceived \/ SlaveStopReceived \/ SlaveDataSent
  BY ONLY <1>5 DEF SlaveDataReceived, SlaveStopReceived, SlaveDataSent, Raise, StatusIn
<1> QED  BY ONLY Hardware, <1>1, <1>2, <1>3, <1>4, <1>5, Zenon DEF Hardware, PeripheralNext

\* The status, the phase and the handler stay in line.
LEMMA StepLine ==
  ASSUME TypeInv, LineInv, [Next]_vars
  PROVE  LineInv'
<1> USE Zenon
<1>a. ASSUME UNCHANGED <<status, phase, isr, twi_inRepStart, twie, twsta>>, (pc' = "off") <=> (pc = "off")
      PROVE  LineInv'
  BY <1>a DEF LineInv, StatusIn
<1>b. ASSUME NEW p, NEW ea, NEW sta, After(p, TRUE, ea, sta), p \notin {"off", "restart"}, twi_inRepStart' = FALSE,
             pc' # "off", isr' = "none" \/ (isr' = "onSlaveReceive" /\ p = "idle")
      PROVE  LineInv'
  <2>1. isr' \notin {"onSlaveTransmit", "filled"}  BY ONLY <1>b
  <2> QED  BY <1>b, <2>1 DEF After, LineInv
<1>1. CASE UNCHANGED vars  BY <1>1, <1>a, Tuples DEF Apart
<1>2. CASE begin
  <2>1. status = "none" /\ phase = "off" /\ isr = "none"
    BY ONLY <1>2, LineInv DEF begin, LineInv, StatusIn
  <2>2. After("idle", TRUE, TRUE, FALSE) /\ twi_inRepStart' = FALSE /\ pc' # "off" /\ isr' = "none"
    BY <1>2, <2>1 DEF begin, twi_init, After
  <2>3. "idle" \notin {"off", "restart"}  OBVIOUS
  <2> QED  BY <2>2, <2>3, <1>b
<1>3. CASE Quiet  BY <1>3, <1>a, QuietFrame, Places, Tuples DEF Apart
<1>4. CASE Driver
  <2>0. pc # "off" /\ pc' # "off" /\ SketchRuns  BY ONLY <1>4, Places DEF InCall
  <2>1. CASE UNCHANGED <<peripheral, twi_inRepStart>>
    BY <1>4, <2>0, <2>1, <1>a, DriverFrame, Tuples DEF Apart
  <2>2. CASE Start
    <3>0. isr = "none" /\ isr' = "none"  BY <1>4, <2>0, SketchLine, DriverFrame
    <3>1. CASE twi_inRepStart
      <4>1. "address" \notin {"off", "restart"}  OBVIOUS
      <4> QED  BY <2>0, <2>2, <3>0, <3>1, <4>1, <1>b, StartEffect DEF StartDoes
    <3>2. CASE ~twi_inRepStart
      <4>1. status = "none"  BY <2>0, <3>2, SketchLine
      <4>2. PhaseAfter(status, phase, TRUE, FALSE) = phase
        BY ONLY <4>1 DEF PhaseAfter, AddressedReceive, AddressedTransmit
      <4>3. After(phase, TRUE, TRUE, TRUE) /\ twi_inRepStart' = FALSE  BY <2>2, <3>2, <4>2, StartEffect DEF StartDoes
      <4>4. phase \notin {"off", "restart"}  BY <2>0, <3>2 DEF LineInv
      <4> QED  BY <2>0, <3>0, <4>3, <4>4, <1>b
    <3> QED  BY <3>1, <3>2
  <2> QED  BY <1>4, <2>1, <2>2, DriverFrame
<1>c. ASSUME MasterVect \/ SlaveVect
      PROVE  /\ pc' # "off" /\ ~twi_inRepStart
             /\ twi_inRepStart \in BOOLEAN
             /\ twi_inRepStart' = twi_inRepStart => twi_inRepStart' = FALSE
  <2>1. pc' = pc  BY <1>c, MasterFrame, SlaveFrame, Tuples DEF Apart
  <2>2. twi_inRepStart \in BOOLEAN  BY DEF TypeInv, FlagType
  <2> QED  BY <1>c, <2>1, <2>2, HandlerLine
<1>d. "idle" \notin {"off", "restart"} /\ "address" \notin {"off", "restart"} /\ "mt" \notin {"off", "restart"}
      /\ "mr" \notin {"off", "restart"} /\ "sr" \notin {"off", "restart"} /\ "st" \notin {"off", "restart"}
  OBVIOUS
<1>5. CASE MasterVect
  <2>0. pc' # "off" /\ (twi_inRepStart' = twi_inRepStart => twi_inRepStart' = FALSE) /\ isr' = "none"
    BY <1>5, <1>c, MasterVectNone, MasterFrame
  <2>1. CASE Ended
    <3>1. CASE After("idle", TRUE, TRUE, FALSE) /\ UNCHANGED twi_inRepStart  BY <2>0, <3>1, <1>b, <1>d
    <3>2. CASE After("restart", FALSE, FALSE, TRUE) /\ twi_inRepStart' = TRUE
      BY <2>0, <3>2 DEF After, LineInv
    <3> QED  BY <2>1, <3>1, <3>2 DEF Ended
  <2>2. CASE OnStart \/ OnMasterReceive \/ OnRefused \/ OnArbitrationLost
    BY <2>0, <2>2, <1>b, <1>d, MasterEffect, Tuples DEF Apart, MasterDoes
  <2>3. CASE OnMasterTransmit  BY <2>0, <2>1, <2>3, <1>b, <1>d, MasterEffect, Tuples DEF Apart, MasterDoes
  <2>4. CASE OnLastByte  BY <2>1, <2>4, MasterEffect DEF MasterDoes
  <2> QED  BY <1>5, <2>2, <2>3, <2>4 DEF MasterVect
<1>6. CASE SlaveVect
  <2>0. pc' # "off" /\ twi_inRepStart' = FALSE  BY <1>6, <1>c, SlaveFrame
  <2>1. CASE OnAddressedReceive \/ OnSlaveData \/ OnSlaveRefused \/ OnSlaveByteSent \/ OnSlaveSent
    <3>1. isr = "none"
      BY <2>1 DEF OnAddressedReceive, OnSlaveData, OnSlaveRefused, OnSlaveByteSent, OnSlaveSent, Handle, Interrupt
    <3> QED  BY <2>0, <2>1, <3>1, <1>b, <1>d, SlaveEffect DEF SlaveDoes
  <2>2. CASE OnSlaveStop  BY <2>0, <2>2, <1>b, <1>d, SlaveEffect DEF SlaveDoes
  <2>3. CASE OnSlaveStopDone
    <3>1. isr = "received" /\ isr' = "none"  BY <2>3, StopDoneEffect DEF StopDoneDoes
    <3>2. PICK p : p = PhaseAfter(status, phase, FALSE, FALSE)  OBVIOUS
    <3>3. phase = "idle" /\ (status = "none" \/ status \in {"TW_START", "TW_SR_SLA_ACK", "TW_ST_SLA_ACK"})
      BY ONLY <3>1, LineInv DEF LineInv, StatusIn
    <3>4. p \notin {"off", "restart"}
      BY ONLY <3>2, <3>3 DEF PhaseAfter, AddressedReceive, AddressedTransmit
    <3> QED  BY <2>0, <2>3, <3>1, <3>2, <3>4, <1>b, StopDoneEffect DEF StopDoneDoes
  <2>4. CASE OnAddressedTransmit
    <3>1. /\ UNCHANGED <<status, phase, twie, twsta>> /\ isr' = "onSlaveTransmit" /\ status \in AddressedTransmit
          /\ pc' = pc /\ UNCHANGED twi_inRepStart
      BY <1>6, <2>4, SlaveEffect, SlaveFrame, Tuples DEF Apart, SlaveDoes
    <3>2. isr' \notin {"onSlaveReceive", "received"}  BY ONLY <3>1
    <3>3. status' \in AddressedTransmit /\ (status' = "none" \/ status' \in StatusIn(phase'))
      BY <3>1 DEF LineInv, StatusIn
    <3>4. pc # "off" /\ ~twi_inRepStart  BY <1>6, HandlerLine
    <3>5. twie' /\ phase' \notin {"off", "restart"}  BY <3>1, <3>4 DEF LineInv
    <3> QED  BY <2>0, <3>2, <3>3, <3>5 DEF LineInv
  <2>5. CASE OnFilled
    <3>1. status \in AddressedTransmit  BY ONLY <2>5, LineInv DEF OnFilled, LineInv
    <3> QED  BY <2>0, <2>5, <3>1, <1>b, <1>d, FilledEffect DEF FilledDoes
  <2> QED  BY <1>6, <2>1, <2>2, <2>3, <2>4, <2>5 DEF SlaveVect
<1>7. CASE onReceiveService \/ onRequestService
  <2>1. /\ UNCHANGED <<status, phase, twie, twsta, twi_inRepStart, pc>>
        /\ (isr = "onSlaveReceive" /\ isr' = "received") \/ (isr = "onSlaveTransmit" /\ isr' = "filled")
    BY <1>7, CallbackFrame, Tuples DEF onReceiveService, onRequestService, Apart, CallbacksKeep
  <2>2. isr # "none"  BY ONLY <2>1
  <2>3. /\ isr' \in {"onSlaveTransmit", "filled"} => isr \in {"onSlaveTransmit", "filled"}
        /\ isr' \in {"onSlaveReceive", "received"} => isr \in {"onSlaveReceive", "received"}
    BY ONLY <2>1
  <2> QED  BY <2>1, <2>2, <2>3 DEF LineInv, StatusIn
<1>8. CASE Hardware
  <2>1. /\ UNCHANGED <<phase, twie, twsta, twi_inRepStart, pc, isr>> /\ status = "none" /\ status' \in StatusIn(phase)
    BY <1>8, HardwareFrame, HardwareStatus, Tuples DEF Apart
  <2>2. status \notin AddressedTransmit /\ status # "TW_REP_START"  BY ONLY <2>1 DEF AddressedTransmit
  <2>3. status' \in StatusIn(phase')  BY <2>1
  <2> QED  BY <2>1, <2>2, <2>3 DEF LineInv
<1> QED  BY Steps, <1>1, <1>2, <1>3, <1>4, <1>5, <1>6, <1>7, <1>8

-----------------------------------------------------------------------------
(* A sole master.                                                           *)

\* Outside a transfer the sketch only starts or ends a call.
LEMMA QuietPlaces ==
  ASSUME Quiet
  PROVE  /\ pc \in {"idle", "store", "requested"} \/ (pc = "wait" /\ twi_state # mode)
         /\ pc' \in {"idle", "store", "ready", "requested"}
<1> USE Zenon
<1>1. CASE onReceive \/ onRequest \/ beginTransmission \/ read
  BY <1>1, Tuples DEF onReceive, onRequest, beginTransmission, read, SketchIdle, Apart
<1>2. CASE write \/ write_store \/ requestFrom_return  BY <1>2 DEF write, write_store, requestFrom_return, SketchIdle
<1>3. CASE endTransmission  BY <1>3, Tuples DEF endTransmission, Call, SketchIdle, Apart
<1>4. CASE requestFrom  BY <1>4, Tuples DEF requestFrom, Call, SketchIdle, Apart
<1>5. CASE twi_writeTo_return \/ twi_readFrom_return
  BY <1>5 DEF twi_writeTo_return, twi_readFrom_return, Done
<1> QED  BY <1>1, <1>2, <1>3, <1>4, <1>5 DEF Quiet

\* A sole master is never addressed and never loses the bus.
LEMMA SoleSteps ==
  ASSUME LineInv, SoleInv, ~bus.master, [Next]_vars
  PROVE  UNCHANGED vars \/ SoleStep
<1> USE Zenon
<1>a. /\ isr = "none" /\ phase \in {"off", "idle", "restart", "address", "mt", "mr"}
      /\ status \notin AddressedReceive \cup AddressedTransmit \cup {"TW_MT_ARB_LOST"}
      /\ ~Running => phase \in {"off", "idle", "restart"}
      /\ ~Running /\ phase = "idle" => status = "none" /\ ~twsta
  BY DEF SoleInv
<1>b. status \notin {"TW_SR_DATA_ACK", "TW_SR_DATA_NACK", "TW_SR_STOP", "TW_ST_DATA_ACK", "TW_ST_DATA_NACK",
                     "TW_ST_LAST_DATA"}
  <2>1. CASE phase \in {"off", "idle", "restart"}
    BY ONLY <2>1, LineInv DEF LineInv, StatusIn
  <2>2. CASE phase \in {"address", "mt", "mr"}
    BY ONLY <2>2, LineInv DEF LineInv, StatusIn
  <2> QED  BY ONLY <1>a, <2>1, <2>2
<1>1. ~SlaveVect
  <2>1. SUFFICES ASSUME SlaveVect PROVE FALSE  BY Zenon
  <2>2. \/ isr # "none"
        \/ status \in AddressedReceive \/ status \in AddressedTransmit
        \/ status \in {"TW_SR_DATA_ACK", "TW_SR_DATA_NACK", "TW_SR_STOP", "TW_ST_DATA_ACK", "TW_ST_DATA_NACK",
                       "TW_ST_LAST_DATA"}
    <3>1. CASE OnSlaveStopDone \/ OnFilled  BY ONLY <3>1 DEF OnSlaveStopDone, OnFilled
    <3> QED  BY <2>1, <3>1, SlaveEffect DEF SlaveVect, SlaveDoes
  <2> QED  BY <2>2, <1>a, <1>b
<1>2. ~onReceiveService /\ ~onRequestService  BY ONLY <1>a DEF onReceiveService, onRequestService
<1>3. ASSUME MasterVect PROVE SoleStep
  <2>1. status # "none" /\ ~twi_inRepStart /\ pc # "off"
    BY <1>3, HandlerLine, MasterVectNone
  <2>2. phase \notin {"off", "restart"}  BY <2>1 DEF LineInv
  <2>3. Running  BY ONLY <2>1, <2>2, <1>a
  <2>4. ~OnArbitrationLost  BY <1>a, MasterEffect DEF MasterDoes
  <2> QED  BY <1>3, <2>1, <2>3, <2>4 DEF MasterVect, SoleStep
<1>4. ASSUME Hardware PROVE SoleStep
  <2>1. ~Addressed /\ ~ArbitrationLost  BY DEF Addressed, ArbitrationLost
  <2>2. ~SlaveDataReceived /\ ~SlaveStopReceived /\ ~SlaveDataSent
    <3>1. phase # "sr" /\ phase # "st"  BY ONLY <1>a
    <3> QED  BY <3>1 DEF SlaveDataReceived, SlaveStopReceived, SlaveDataSent
  <2>3. ASSUME SendStart \/ AddressAnswered \/ DataSent \/ DataReceived \/ BusError PROVE Running
    <3>1. (phase = "idle" /\ twsta) \/ phase \in {"address", "mt", "mr", "sr", "st"}
      BY <2>3 DEF SendStart, AddressAnswered, DataSent, DataReceived, BusError
    <3> QED  BY ONLY <3>1, <1>a
  <2> QED  BY <1>4, <2>1, <2>2, <2>3 DEF Hardware, PeripheralNext, SoleStep
<1> QED  BY Steps, <1>1, <1>2, <1>3, <1>4 DEF SoleStep

\* Its transfers follow the phases of the hardware.
LEMMA StepSole ==
  ASSUME TypeInv, LineInv, SoleInv, [Next]_vars
  PROVE  SoleInv'
<1> USE Zenon
<1>0. bus' = bus  BY Steps
<1> SUFFICES ASSUME ~bus.master PROVE SoleInv'  BY <1>0, Zenon DEF SoleInv
<1>a. /\ isr = "none" /\ phase \in {"off", "idle", "restart", "address", "mt", "mr"}
      /\ status \notin AddressedReceive \cup AddressedTransmit \cup {"TW_MT_ARB_LOST"}
      /\ pc \in {"setup", "start"} => twi_state = mode
      /\ pc = "wait" => twi_state \in {"TWI_READY", mode}
      /\ pc \notin {"setup", "start", "wait"} => twi_state = "TWI_READY"
      /\ ~Running => phase \in {"off", "idle", "restart"}
      /\ ~Running /\ phase = "idle" => status = "none" /\ ~twsta
      /\ Running => ~twi_inRepStart
  BY ~bus.master DEF SoleInv
<1>b. mode \in {"TWI_MRX", "TWI_MTX"} /\ mode # "TWI_READY"
  BY ONLY TypeInv DEF TypeInv, CallType
<1>c. UNCHANGED isr => isr' = "none"  BY <1>a
<1>d. "none" \notin AddressedReceive \cup AddressedTransmit \cup {"TW_MT_ARB_LOST"}
  BY ONLY DEF AddressedReceive, AddressedTransmit
\* The sketch is not waiting for the handler afterwards.
<1>e. ASSUME pc' \notin {"setup", "start"}, twi_state' = "TWI_READY", isr' = "none", mode' # "TWI_READY",
             phase' \in {"off", "idle", "restart"}, phase' = "idle" => status' = "none" /\ ~twsta',
             status' \notin AddressedReceive \cup AddressedTransmit \cup {"TW_MT_ARB_LOST"}
      PROVE  SoleInv'
  <2>1. ~Running'  BY <1>e DEF Running
  <2>2. phase' \in {"off", "idle", "restart", "address", "mt", "mr"}  BY ONLY <1>e
  <2>3. twi_state' \in {"TWI_READY", mode'}  BY ONLY <1>e
  <2> QED  BY <1>e, <2>1, <2>2, <2>3 DEF SoleInv
\* The transfer is on afterwards.
<1>f. ASSUME pc' = "wait", twi_state' = mode', isr' = "none", ~twi_inRepStart',
             phase' \in {"off", "idle", "restart", "address", "mt", "mr"},
             status' \notin AddressedReceive \cup AddressedTransmit \cup {"TW_MT_ARB_LOST"}
      PROVE  SoleInv'
  <2>1. Running' /\ pc' \in {"setup", "start", "wait"} /\ twi_state' \in {"TWI_READY", mode'}
    BY ONLY <1>f DEF Running
  <2> QED  BY <1>f, <2>1 DEF SoleInv
<1>1. CASE UNCHANGED vars
  <2>1. UNCHANGED <<isr, phase, status, pc, twi_state, mode, twsta, twi_inRepStart>> BY <1>1, Tuples DEF Apart
  <2> QED  BY <2>1, <1>a DEF SoleInv, Running
<1>2. CASE begin
  <2>1. pc = "off" /\ status = "none" /\ phase = "off"  BY ONLY <1>2, LineInv DEF begin, LineInv, StatusIn
  <2>2. /\ pc' = "idle" /\ twi_state' = "TWI_READY" /\ isr' = isr /\ mode' = mode /\ phase' = "idle" /\ status' = status
        /\ twsta' = FALSE
    BY <1>2, <2>1 DEF begin, twi_init
  <2>3. pc' \notin {"setup", "start"} /\ phase' \in {"off", "idle", "restart"}  BY ONLY <2>2
  <2> QED  BY <2>1, <2>2, <2>3, <1>a, <1>b, <1>d, <1>e
<1>3. CASE Quiet
  <2>1. UNCHANGED <<isr, phase, status, twi_state, twsta>>  BY <1>3, QuietFrame, Tuples DEF Apart
  <2>2. ~Running /\ twi_state = "TWI_READY"
    <3>1. CASE pc = "wait" /\ twi_state # mode  BY ONLY <3>1, <1>a DEF Running
    <3>2. CASE pc \in {"idle", "store", "requested"}  BY ONLY <3>2, <1>a DEF Running
    <3> QED  BY <1>3, <3>1, <3>2, QuietPlaces
  <2>3. pc' \notin {"setup", "start"}  BY ONLY <1>3, QuietPlaces
  <2>4. mode' # "TWI_READY"
    <3>1. mode' \in {"TWI_MRX", "TWI_MTX"}  BY StepCall DEF CallType
    <3> QED  BY ONLY <3>1
  <2> QED  BY <2>1, <2>2, <2>3, <2>4, <1>a, <1>e
<1>4. CASE Driver
  <2>0. isr' = "none" /\ mode' = mode  BY <1>4, <1>a, DriverFrame
  <2>1. CASE AwaitReady
    <3>1. pc' = "claim" /\ pc = "ready" /\ twi_state' = "TWI_READY" /\ UNCHANGED <<phase, status, twsta>>
      BY <2>1, Tuples DEF AwaitReady, Apart
    <3>2. ~Running /\ pc' \notin {"setup", "start"}  BY ONLY <3>1 DEF Running
    <3> QED  BY <2>0, <3>1, <3>2, <1>a, <1>b, <1>e
  <2>2. CASE Claim \/ twi_writeTo_setup(txBuffer) \/ twi_readFrom_setup
    <3>1. /\ pc \in {"claim", "setup"} /\ pc' \in {"setup", "start"} /\ UNCHANGED <<phase, status, twsta, twi_inRepStart>>
          /\ twi_state' = mode \/ (pc = "setup" /\ twi_state' = twi_state)
      BY <2>2, Tuples DEF Claim, twi_writeTo_setup, twi_readFrom_setup, Apart
    <3>2. ~Running /\ ~Running' /\ twi_state' = mode' /\ pc' \in {"setup", "start", "wait"} /\ pc' # "wait"
      BY ONLY <2>0, <3>1, <1>a DEF Running
    <3> QED  BY <2>0, <3>1, <3>2, <1>a DEF SoleInv
  <2>3. CASE Start
    <3>0. pc = "start" /\ pc' = "wait" /\ twi_inRepStart' = FALSE /\ twi_state' = twi_state /\ SketchRuns
      BY <2>3, StartEffect DEF StartDoes
    <3>1. twi_state = mode /\ ~Running /\ pc # "off"  BY ONLY <3>0, <1>a DEF Running
    <3>2. status' = "none" /\ (phase' = "address" \/ phase' = phase)
      <4>1. CASE twi_inRepStart  BY <2>3, <4>1, StartEffect DEF After, StartDoes
      <4>2. CASE ~twi_inRepStart
        <5>1. status = "none"  BY <3>0, <3>1, <4>2, SketchLine
        <5>2. PhaseAfter(status, phase, TRUE, FALSE) = phase
          BY ONLY <5>1 DEF PhaseAfter, AddressedReceive, AddressedTransmit
        <5> QED  BY <2>3, <4>2, <5>2, StartEffect DEF After, StartDoes
      <4> QED  BY <4>1, <4>2
    <3>3. phase' \in {"off", "idle", "restart", "address", "mt", "mr"}  BY ONLY <3>2, <1>a
    <3> QED  BY <2>0, <3>0, <3>1, <3>2, <3>3, <1>d, <1>f
  <2> QED  BY <1>4, <2>1, <2>2, <2>3 DEF Driver
<1>5. CASE /\ Running /\ ~twi_inRepStart
           /\ OnStart \/ OnMasterTransmit \/ OnRefused \/ OnMasterReceive \/ OnLastByte
           /\ MasterVect
  <2>0. /\ pc = "wait" /\ twi_state = mode /\ pc' = "wait" /\ mode' = mode /\ isr' = "none"
    BY <1>5, <1>a, MasterFrame, Tuples DEF Running, Apart
  <2>1. ASSUME NEW p \in {"address", "mt", "mr"}, NEW ie, NEW ea, After(p, ie, ea, FALSE), UNCHANGED flags PROVE SoleInv'
    <3>0. twi_inRepStart = FALSE /\ twi_inRepStart' = twi_inRepStart
      BY <1>5, <2>1, Tuples DEF TypeInv, FlagType, Apart
    <3>1. twi_state' = mode' /\ ~twi_inRepStart' /\ status' = "none" /\ phase' = p
      BY <2>0, <2>1, <3>0, Tuples DEF After, Apart
    <3>2. phase' \in {"off", "idle", "restart", "address", "mt", "mr"}  BY ONLY <3>1, <2>1
    <3> QED  BY <2>0, <3>1, <3>2, <1>d, <1>f
  <2>2. ASSUME twi_state' = "TWI_READY", status' = "none", (phase' = "idle" /\ ~twsta') \/ phase' = "restart"
        PROVE  SoleInv'
    <3>1. phase' \in {"off", "idle", "restart"} /\ (phase' = "idle" => status' = "none" /\ ~twsta')
          /\ pc' \notin {"setup", "start"}
      BY ONLY <2>0, <2>2
    <3> QED  BY <2>0, <2>2, <3>1, <1>b, <1>d, <1>e
  <2>3. Ended => SoleInv'  BY <2>2 DEF Ended, After
  <2>4. CASE OnStart \/ OnMasterReceive
    <3>1. "address" \in {"address", "mt", "mr"} /\ "mr" \in {"address", "mt", "mr"}  OBVIOUS
    <3> QED  BY <2>1, <2>4, <3>1, MasterEffect DEF MasterDoes
  <2>5. CASE OnMasterTransmit
    <3>1. "mt" \in {"address", "mt", "mr"}  OBVIOUS
    <3> QED  BY <2>1, <2>3, <2>5, <3>1, MasterEffect DEF MasterDoes
  <2>6. CASE OnRefused  BY <2>2, <2>6, MasterEffect DEF After, MasterDoes
  <2>7. CASE OnLastByte  BY <2>3, <2>7, MasterEffect DEF MasterDoes
  <2> QED  BY <1>5, <2>4, <2>5, <2>6, <2>7
<1>6. ASSUME Hardware PROVE /\ UNCHANGED <<phase, twsta, twi_state, twi_inRepStart, pc, mode, isr>>
                            /\ Running' = Running
  BY <1>6, HardwareFrame, Tuples DEF Running, Apart
<1>7. CASE Hardware /\ SendRepeatedStart
  <2>1. phase = "restart" /\ status' = "TW_REP_START"  BY <1>7 DEF SendRepeatedStart, Raise
  <2>2. status' \notin AddressedReceive \cup AddressedTransmit \cup {"TW_MT_ARB_LOST"} /\ phase # "idle"
    BY ONLY <2>1 DEF AddressedReceive, AddressedTransmit
  <2> QED  BY <2>2, <1>6, <1>7, <1>a DEF SoleInv
<1>8. CASE Hardware /\ Running /\ (SendStart \/ AddressAnswered \/ DataSent \/ DataReceived \/ BusError)
  <2>1. status' \notin AddressedReceive \cup AddressedTransmit \cup {"TW_MT_ARB_LOST"}
    <3>1. CASE SendStart \/ BusError \/ DataSent \/ DataReceived
      BY <3>1 DEF SendStart, BusError, DataSent, DataReceived, Raise, AddressedReceive, AddressedTransmit
    <3>2. CASE AddressAnswered  BY ONLY <3>2 DEF AddressAnswered, Raise, AddressedReceive, AddressedTransmit
    <3> QED  BY <1>8, <3>1, <3>2
  <2> QED  BY <2>1, <1>6, <1>8, <1>a DEF SoleInv
<1> QED  BY SoleSteps, ~bus.master, <1>1, <1>2, <1>3, <1>4, <1>5, <1>7, <1>8 DEF SoleStep

\* A byte more in the sequence and in the buffer.
LEMMA HoldsAppend ==
  ASSUME NEW m \in Nat, NEW buffer \in [0..(m - 1) -> Byte], NEW s \in Seq(Byte), NEW d \in Byte, NEW n \in Nat,
         n < m, Holds(s, buffer, n)
  PROVE  Holds(Append(s, d), [buffer EXCEPT ![n] = d], n + 1)
<1> USE Zenon
<1>1. Len(s) = n /\ \A i \in 1..n : s[i] = buffer[i - 1]  BY SMT DEF Holds
<1>2. Len(Append(s, d)) = n + 1  BY ONLY <1>1, s \in Seq(Byte), d \in Byte, ByteAppended
<1>3. ASSUME NEW i \in 1..(n + 1) PROVE Append(s, d)[i] = [buffer EXCEPT ![n] = d][i - 1]
  <2>1. CASE i = n + 1
    <3>1. Append(s, d)[i] = d  BY ONLY <1>1, <2>1, s \in Seq(Byte), d \in Byte, ByteAppended
    <3>2. i - 1 = n /\ n \in 0..(m - 1)  BY ONLY <2>1, n \in Nat, m \in Nat, n < m
    <3> QED  BY <3>1, <3>2
  <2>2. CASE i # n + 1
    <3>1. i \in 1..n /\ i - 1 \in 0..(m - 1) /\ i - 1 # n  BY ONLY <2>2, <1>3, n \in Nat, m \in Nat, n < m
    <3>2. Append(s, d)[i] = s[i]  BY ONLY <1>1, <3>1, s \in Seq(Byte), d \in Byte, ByteAppended
    <3>3. [buffer EXCEPT ![n] = d][i - 1] = buffer[i - 1]
      BY <3>1
    <3> QED  BY <1>1, <3>1, <3>2, <3>3
  <2> QED  BY <2>1, <2>2
<1> QED  BY <1>2, <1>3 DEF Holds

\* The master's buffer changes only while bytes are received.
LEMMA MasterBufferSame ==
  ASSUME LineInv, SoleInv, MasterInv, ~bus.master, SoleStep, mode = "TWI_MTX"
  PROVE  UNCHANGED masterBuffer \/ twi_writeTo_setup(txBuffer)
<1> USE Zenon
<1>1. CASE begin  BY <1>1, Tuples DEF begin, twi_init, Apart
<1>2. CASE Quiet \/ Hardware  BY <1>2, QuietFrame, HardwareFrame, Tuples DEF Apart
<1>3. CASE Driver
  BY <1>3, Tuples, StartEffect DEF Driver, AwaitReady, Claim, twi_readFrom_setup, Apart, StartDoes
<1>4. CASE /\ Running /\ ~twi_inRepStart
           /\ OnStart \/ OnMasterTransmit \/ OnRefused \/ OnMasterReceive \/ OnLastByte
           /\ MasterVect
  <2>1. CASE OnStart \/ OnMasterTransmit \/ OnRefused  BY <2>1, MasterEffect, Tuples DEF Apart, MasterDoes
  <2>2. CASE OnMasterReceive \/ OnLastByte
    <3>1. phase # "mr"
      <4>1. "TWI_MTX" # "TWI_MRX"  OBVIOUS
      <4> QED  BY <1>4, <4>1 DEF MasterInv
    <3>2. status \notin {"TW_MR_DATA_ACK", "TW_MR_DATA_NACK"}
      <4>1. phase \in {"off", "idle", "restart", "address", "mt"}
        BY ONLY <3>1, SoleInv, ~bus.master DEF SoleInv
      <4> QED  BY ONLY <4>1, LineInv DEF LineInv, StatusIn
    <3> QED  BY <2>2, <3>2, MasterEffect DEF MasterDoes
  <2> QED  BY <1>4, <2>1, <2>2
<1> QED  BY <1>1, <1>2, <1>3, <1>4 DEF SoleStep

\* The buffers hold what the sketch composed.
LEMMA StepCompose ==
  ASSUME TypeInv, LineInv, SoleInv, ComposeInv, MasterInv, [Next]_vars
  PROVE  ComposeInv'
<1> USE Zenon
<1>0. bus' = bus  BY Steps
<1> SUFFICES ASSUME ~bus.master PROVE ComposeInv'  BY <1>0, Zenon DEF ComposeInv
<1>a. /\ transmitting => /\ txBufferIndex = Len(composed) /\ txBufferLength = Len(composed)
                         /\ Len(composed) <= BUFFER_LENGTH
                         /\ Holds(composed, txBuffer, Len(composed))
      /\ pc = "off" => ~transmitting
      /\ pc = "store" => transmitting /\ Len(composed) < BUFFER_LENGTH
      /\ pc \in InCall /\ mode = "TWI_MTX" => transmitting /\ length = Len(composed)
      /\ pc \in {"start", "wait"} /\ mode = "TWI_MTX" => Holds(composed, masterBuffer, length)
      /\ pc \in InCall /\ mode = "TWI_MRX" => asked = length
  BY ~bus.master DEF ComposeInv
<1>b. /\ composed \in Seq(Byte) /\ txBuffer \in [Slot -> Byte] /\ datum \in Byte /\ length \in 0..Size
      /\ txBufferLength \in 0..255 /\ txBufferIndex \in 0..255 /\ masterBuffer \in [Cell -> Byte]
      /\ Len(composed) \in Nat
  <2>1. composed \in Seq(Byte) => Len(composed) \in Nat  BY ByteSequence
  <2> QED  BY <2>1 DEF TypeInv, WireType, CallType, MasterType
<1>c. /\ "idle" \notin InCall /\ "store" \notin InCall /\ "requested" \notin InCall /\ "off" \notin InCall
      /\ "start" \in InCall /\ "wait" \in InCall
      /\ "idle" \notin {"start", "wait"} /\ "ready" \notin {"start", "wait"} /\ "claim" \notin {"start", "wait"}
      /\ "setup" \notin {"start", "wait"} /\ "store" \notin {"start", "wait"} /\ "requested" \notin {"start", "wait"}
      /\ "TWI_MRX" # "TWI_MTX"
  BY ONLY DEF InCall
<1> DEFINE Composing == /\ txBufferIndex = Len(composed) /\ txBufferLength = Len(composed)
                        /\ Len(composed) <= BUFFER_LENGTH
                        /\ Holds(composed, txBuffer, Len(composed))
\* Between two calls.
<1>d. ASSUME pc' \in {"idle", "requested"}, transmitting' => Composing' PROVE ComposeInv'
  <2>1. pc' \notin InCall /\ pc' # "store" /\ pc' # "off" /\ pc' \notin {"start", "wait"}  BY ONLY <1>d DEF InCall
  <2> QED  BY <1>d, <2>1 DEF ComposeInv
<1>e. ASSUME UNCHANGED <<txBufferIndex, txBufferLength, composed, txBuffer>>, transmitting' = transmitting
      PROVE  transmitting' => Composing'
  BY <1>a, <1>e
<1> HIDE DEF Composing
<1>f. transmitting => Composing  BY <1>a DEF Composing
<1>g. ASSUME transmitting' = FALSE PROVE transmitting' => Composing'  BY <1>g
<1>1. CASE UNCHANGED vars \/ Hardware \/ (MasterVect /\ SoleStep)
  <2>1. /\ UNCHANGED <<pc, mode, length, txBufferIndex, txBufferLength, composed, txBuffer, transmitting, asked>>
    BY <1>1, MasterFrame, HardwareFrame, Tuples DEF Apart
  <2>2. mode = "TWI_MTX" => UNCHANGED masterBuffer
    <3>1. CASE UNCHANGED vars \/ Hardware  BY <3>1, HardwareFrame, Tuples DEF Apart
    <3>2. CASE MasterVect /\ SoleStep
      <4>1. ~twi_writeTo_setup(txBuffer)
        BY <3>2, MasterVectNone, HandlerLine, SketchLine DEF twi_writeTo_setup
      <4> QED  BY <3>2, <4>1, ~bus.master, MasterBufferSame
    <3> QED  BY <1>1, <3>1, <3>2
  <2> QED  BY <2>1, <2>2, <1>a DEF ComposeInv
<1>2. CASE begin
  <2>1. pc' = "idle" /\ pc = "off" /\ transmitting' = transmitting  BY <1>2 DEF begin
  <2>2. ~transmitting'  BY ONLY <2>1, <1>a
  <2>3. pc' \in {"idle", "requested"}  BY ONLY <2>1
  <2> QED  BY <2>2, <2>3, <1>d
<1>3. CASE Driver
  <2>0. /\ UNCHANGED <<mode, length, txBufferIndex, txBufferLength, composed, txBuffer, transmitting, asked>>
        /\ pc \in InCall /\ pc' \in InCall
    BY <1>3, DriverFrame, Places, Tuples DEF Apart
  <2>1. ASSUME pc' \in {"start", "wait"} /\ mode = "TWI_MTX" => Holds(composed', masterBuffer', length') PROVE ComposeInv'
    <3>1. pc' # "store" /\ pc' # "off"  BY ONLY <2>0 DEF InCall
    <3> QED  BY <2>0, <2>1, <3>1, <1>a DEF ComposeInv
  <2>2. CASE AwaitReady \/ Claim
    <3>1. pc' = "claim" \/ pc' = "setup"  BY <2>2 DEF AwaitReady, Claim
    <3> QED  BY <2>1, <3>1, <1>c
  <2>3. CASE twi_readFrom_setup  BY <2>1, <2>3, <1>c DEF twi_readFrom_setup
  <2>4. CASE twi_writeTo_setup(txBuffer)
    <3>1. /\ mode = "TWI_MTX" /\ masterBuffer' = [i \in Cell |-> IF i < length THEN txBuffer[i] ELSE masterBuffer[i]]
      BY <2>4 DEF twi_writeTo_setup
    <3>2. length = Len(composed) /\ Holds(composed, txBuffer, length)  BY <2>0, <3>1, <1>a
    <3>3. ASSUME NEW i \in 1..length PROVE masterBuffer'[i - 1] = txBuffer[i - 1]
      <4>1. i - 1 \in Cell /\ i - 1 < length  BY ONLY <3>3, <1>b, Constants
      <4> QED  BY ONLY <3>1, <4>1
    <3>4. Holds(composed, masterBuffer', length)  BY <3>2, <3>3 DEF Holds
    <3> QED  BY <2>0, <2>1, <3>4
  <2>5. CASE Start
    <3>1. pc = "start" /\ UNCHANGED masterBuffer  BY <2>5, StartEffect, Tuples DEF Apart, StartDoes
    <3>2. mode = "TWI_MTX" => Holds(composed, masterBuffer, length)  BY ONLY <3>1, <1>a
    <3> QED  BY <2>0, <2>1, <3>1, <3>2
  <2> QED  BY <1>3, <2>2, <2>3, <2>4, <2>5 DEF Driver
<1>4. CASE Quiet
  <2>0. "idle" \in {"idle", "requested"} /\ "requested" \in {"idle", "requested"}  OBVIOUS
  <2>1. CASE onReceive \/ onRequest \/ read
    BY <2>0, <2>1, <1>d, <1>e, Tuples DEF onReceive, onRequest, read, SketchIdle, Apart
  <2>2. CASE beginTransmission
    <3>1. /\ pc' = "idle" /\ txBufferIndex' = 0 /\ txBufferLength' = 0 /\ composed' = <<>>
      BY <2>2, Tuples DEF beginTransmission, SketchIdle, Apart
    <3>2. Composing'  BY ONLY <3>1, Constants DEF Composing, Holds
    <3> QED  BY <2>0, <3>1, <3>2, <1>d
  <2>3. CASE write
    <3>1. /\ pc' = "store" /\ transmitting /\ txBufferLength < BUFFER_LENGTH
          /\ UNCHANGED <<mode, length, txBufferIndex, txBufferLength, composed, txBuffer, transmitting>>
      BY <2>3, Tuples DEF write, Apart
    <3>2. Len(composed) < BUFFER_LENGTH  BY ONLY <3>1, <1>a
    <3>3. pc' # "off" /\ pc' \notin InCall /\ pc' \notin {"start", "wait"}  BY ONLY <3>1 DEF InCall
    <3> QED  BY <3>1, <3>2, <3>3, <1>a DEF ComposeInv
  <2>4. CASE write_store
    <3>1. /\ pc = "store" /\ pc' = "idle" /\ transmitting' = transmitting
          /\ txBuffer' = [txBuffer EXCEPT ![txBufferIndex] = datum] /\ composed' = Append(composed, datum)
          /\ txBufferIndex' = UInt8(txBufferIndex + 1) /\ txBufferLength' = txBufferIndex'
      BY <2>4 DEF write_store
    <3>2. PICK n \in Nat : n = Len(composed) /\ n < BUFFER_LENGTH /\ txBufferIndex = n /\ Holds(composed, txBuffer, n)
      BY <3>1, <1>a, <1>b
    <3>3. Holds(composed', txBuffer', n + 1)
      <4>1. BUFFER_LENGTH \in Nat /\ txBuffer \in [0..(BUFFER_LENGTH - 1) -> Byte]
        BY <1>b, Constants DEF Slot
      <4> QED  BY <3>1, <3>2, <4>1, <1>b, HoldsAppend
    <3>4. Len(composed') = n + 1  BY <3>3 DEF Holds
    <3>5. PICK k \in 0..255 : k = n + 1 /\ k <= BUFFER_LENGTH
      <4>1. BUFFER_LENGTH \in Nat /\ BUFFER_LENGTH <= 254 /\ n \in Nat /\ n < BUFFER_LENGTH  BY <3>2, Constants
      <4>2. n + 1 \in 0..255 /\ n + 1 <= BUFFER_LENGTH  BY ONLY <4>1
      <4> QED  BY <4>2
    <3>6. txBufferIndex' = k  BY <3>1, <3>2, <3>5, UInt8Same
    <3>7. Composing'  BY <3>1, <3>3, <3>4, <3>5, <3>6 DEF Composing
    <3> QED  BY <2>0, <3>1, <3>7, <1>d
  <2>5. CASE endTransmission
    <3>1. CASE Size < txBufferLength
      <4>1. pc' = "idle" /\ transmitting' = FALSE
        BY <2>5, <3>1, Tuples DEF endTransmission, EndTail, SketchIdle, Size, Apart
      <4> QED  BY <2>0, <4>1, <1>d, <1>g
    <3>2. CASE ~(Size < txBufferLength)
      <4>1. /\ pc' = "ready" /\ mode' = "TWI_MTX" /\ length' = txBufferLength /\ transmitting
            /\ UNCHANGED <<txBufferIndex, txBufferLength, composed, txBuffer, transmitting>>
        BY <2>5, <3>2, Tuples DEF endTransmission, Call, Size, Apart
      <4>2. pc' # "off" /\ pc' # "store" /\ pc' \notin {"start", "wait"}  BY ONLY <4>1
      <4> QED  BY <4>1, <4>2, <1>a, <1>c DEF ComposeInv
    <3> QED  BY <3>1, <3>2
  <2>6. CASE twi_writeTo_return
    BY <2>0, <2>6, <1>d, <1>g DEF twi_writeTo_return, EndTail
  <2>7. CASE requestFrom
    <3>1. UNCHANGED <<txBufferIndex, txBufferLength, composed, txBuffer, transmitting>>
      BY <2>7, Tuples DEF requestFrom, Apart
    <3>2. (pc' = "idle") \/ (pc' = "ready" /\ mode' = "TWI_MRX" /\ asked' = length')
      BY <2>7, Tuples DEF requestFrom, Call, SketchIdle, Apart
    <3>3. CASE pc' = "idle"  BY <2>0, <3>1, <3>3, <1>d, <1>e
    <3>4. CASE pc' = "ready" /\ mode' = "TWI_MRX" /\ asked' = length'
      <4>1. pc' # "off" /\ pc' # "store" /\ pc' \notin {"start", "wait"} /\ mode' # "TWI_MTX"  BY ONLY <3>4
      <4> QED  BY <3>1, <3>4, <4>1, <1>a DEF ComposeInv
    <3> QED  BY <3>2, <3>3, <3>4
  <2>8. CASE twi_readFrom_return \/ requestFrom_return
    BY <2>0, <2>8, <1>d, <1>e, Tuples DEF twi_readFrom_return, requestFrom_return, Apart
  <2> QED  BY <1>4, <2>1, <2>2, <2>3, <2>4, <2>5, <2>6, <2>7, <2>8 DEF Quiet
<1>5. UNCHANGED vars \/ SoleStep  BY SoleSteps, ~bus.master
<1>6. SoleStep => begin \/ Quiet \/ Driver \/ Hardware \/ MasterVect  BY DEF SoleStep
<1> QED  BY <1>1, <1>2, <1>3, <1>4, <1>5, <1>6

-----------------------------------------------------------------------------
(* The transfers of a sole master.                                          *)

\* Each status belongs to one phase or two.
LEMMA PhaseOf ==
  ASSUME TypeInv, LineInv
  PROVE  PhaseMeans
<1> USE DEF PhaseMeans
<1>1. phase \in Phase /\ (status = "none" \/ status \in StatusIn(phase))
  BY ONLY TypeInv, LineInv, Zenon DEF TypeInv, PlainType, LineInv
<1>2. CASE phase \in {"off", "idle", "restart"}
  BY ONLY <1>1, <1>2 DEF StatusIn, AddressedReceive, AddressedTransmit
<1>3. CASE phase = "address"  BY ONLY <1>1, <1>3 DEF StatusIn, AddressedReceive, AddressedTransmit
<1>4. CASE phase = "mt"  BY ONLY <1>1, <1>4 DEF StatusIn, AddressedReceive, AddressedTransmit
<1>5. CASE phase = "mr"  BY ONLY <1>1, <1>5 DEF StatusIn, AddressedReceive, AddressedTransmit
<1>6. CASE phase = "sr"  BY ONLY <1>1, <1>6 DEF StatusIn, AddressedReceive, AddressedTransmit
<1>7. CASE phase = "st"  BY ONLY <1>1, <1>7 DEF StatusIn, AddressedReceive, AddressedTransmit
<1>8. phase \in {"off", "idle", "restart"} \/ phase = "address" \/ phase = "mt" \/ phase = "mr" \/ phase = "sr" \/ phase = "st"
  BY ONLY <1>1 DEF Phase
<1> QED  BY ONLY <1>2, <1>3, <1>4, <1>5, <1>6, <1>7, <1>8, Zenon

\* While a transfer runs, index, length and direction fit together.
LEMMA RunningFacts ==
  ASSUME TypeInv, MasterInv, ~bus.master, Running
  PROVE  RunningMeans
<1> USE Zenon
<1> USE DEF RunningMeans
<1>1. /\ mode \in {"TWI_MRX", "TWI_MTX"} /\ masterIndex \in 0..255 /\ length \in 0..Size
      /\ pc \in InCall /\ mode = "TWI_MRX" => length > 0
  BY DEF TypeInv, CallType, MasterType
<1>2. /\ twi_error = "none"
      /\ twi_slarw = IF mode = "TWI_MTX" THEN "TW_WRITE" ELSE "TW_READ"
      /\ masterLength = IF mode = "TWI_MTX" THEN length ELSE length - 1
      /\ masterIndex <= masterLength
  BY DEF MasterInv
<1>3. /\ phase = "idle" => masterIndex = 0 /\ twsta
      /\ phase = "address" =>
           /\ masterIndex = 0
           /\ status = "none" => twdr = twi_slarw
           /\ status \in {"TW_MT_SLA_ACK", "TW_MT_SLA_NACK"} => mode = "TWI_MTX"
           /\ status \in {"TW_MR_SLA_ACK", "TW_MR_SLA_NACK"} => mode = "TWI_MRX"
      /\ phase = "mt" => mode = "TWI_MTX"
      /\ phase = "mr" => mode = "TWI_MRX"
  BY DEF MasterInv
<1>4. pc \in InCall  BY ONLY Running DEF Running, InCall
<1>5. /\ mode = "TWI_MTX" => twi_slarw = "TW_WRITE" /\ masterLength = length
      /\ mode = "TWI_MRX" => twi_slarw = "TW_READ" /\ masterLength = length - 1 /\ length > 0
  <2>1. "TWI_MRX" # "TWI_MTX"  OBVIOUS
  <2> QED  BY <1>1, <1>2, <1>4, <2>1
<1>6. masterLength <= length  BY ONLY <1>1, <1>5, Constants
<1> QED  BY <1>1, <1>2, <1>3, <1>5, <1>6

\* That stays so.
LEMMA StepMaster ==
  ASSUME TypeInv, LineInv, SoleInv, MasterInv, FetchInv, [Next]_vars
  PROVE  MasterInv'
<1> USE Zenon
<1>0. bus' = bus  BY Steps
<1> SUFFICES ASSUME ~bus.master PROVE MasterInv'  BY <1>0, Zenon DEF MasterInv
<1>a. masterIndex <= Size /\ (pc \in {"setup", "start"} => twi_state = mode)
  BY ~bus.master DEF MasterInv, SoleInv
<1>b. masterIndex \in 0..255 /\ length \in 0..Size /\ Size \in Nat /\ Size <= 254
  <2>1. masterIndex \in 0..255 /\ length \in 0..Size  BY DEF TypeInv, MasterType, CallType
  <2> QED  BY ONLY <2>1, Constants
<1>c. mode \in {"TWI_MRX", "TWI_MTX"} /\ mode # "TWI_READY"  BY ONLY TypeInv DEF TypeInv, CallType
<1>d. (0 <= Size) = TRUE /\ "wait" # "start"  BY ONLY Constants
\* No transfer is prepared or on afterwards.
<1>e. ASSUME pc' # "start", ~Running', masterIndex' <= Size PROVE MasterInv'
  BY <1>e DEF MasterInv
\* The transfer goes on, in another phase.
<1>f. ASSUME Running, Running', UNCHANGED <<twi_error, twi_slarw, mode, masterLength, length>>,
             masterIndex' <= masterLength, status' = "none",
             \/ phase' = "address" /\ masterIndex' = 0 /\ twdr' = twi_slarw
             \/ phase' = "mt" /\ mode = "TWI_MTX"
             \/ phase' = "mr" /\ mode = "TWI_MRX",
             masterIndex' \in 0..255
      PROVE  MasterInv'
  <2>1. /\ twi_error = "none" /\ masterLength <= length
        /\ twi_slarw = IF mode = "TWI_MTX" THEN "TW_WRITE" ELSE "TW_READ"
        /\ masterLength = IF mode = "TWI_MTX" THEN length ELSE length - 1
    <3>1. masterLength <= length  BY <1>f, ~bus.master, RunningFacts DEF RunningMeans
    <3> QED  BY <1>f, <3>1, ~bus.master DEF MasterInv
  <2>2. masterIndex' <= Size
    <3>1. masterLength \in 0..255  BY DEF TypeInv, MasterType
    <3>2. masterIndex' <= masterLength /\ masterIndex' \in 0..255  BY ONLY <1>f
    <3> QED  BY ONLY <2>1, <3>1, <3>2, <1>b
  <2>3. pc' # "start" /\ phase' # "idle" /\ status' \notin {"TW_MT_SLA_ACK", "TW_MT_SLA_NACK"}
        /\ status' \notin {"TW_MR_SLA_ACK", "TW_MR_SLA_NACK"}
    BY ONLY <1>f DEF Running
  <2>4. /\ phase' = "address" => masterIndex' = 0 /\ twdr' = twi_slarw
        /\ phase' = "mt" => mode = "TWI_MTX"
        /\ phase' = "mr" => mode = "TWI_MRX"
    BY ONLY <1>f
  <2> QED  BY <1>f, <2>1, <2>2, <2>3, <2>4 DEF MasterInv
<1>1. CASE UNCHANGED vars
  <2>1. UNCHANGED <<masterIndex, masterLength, pc, mode, length, twi_state, twi_error, twi_slarw, phase, status, twdr, twsta>>
    BY <1>1, Tuples DEF Apart
  <2> QED  BY <2>1, <1>0 DEF MasterInv, Running
<1>2. CASE begin
  <2>1. pc' = "idle" /\ masterIndex' = masterIndex  BY <1>2, Tuples DEF begin, twi_init, Apart
  <2>2. pc' # "start" /\ ~Running'  BY ONLY <2>1 DEF Running
  <2> QED  BY <2>1, <2>2, <1>a, <1>e
<1>3. CASE Quiet
  <2>1. masterIndex' = masterIndex  BY <1>3, QuietFrame, Tuples DEF Apart
  <2>2. pc' # "start" /\ ~Running'  BY ONLY <1>3, QuietPlaces DEF Running
  <2> QED  BY <2>1, <2>2, <1>a, <1>e
<1>4. CASE Driver
  <2>0. UNCHANGED <<mode, length>>  BY <1>4, DriverFrame
  <2>1. CASE AwaitReady \/ Claim
    <3>1. masterIndex' = masterIndex /\ (pc' = "claim" \/ pc' = "setup")
      BY <2>1, Tuples DEF AwaitReady, Claim, Apart
    <3>2. pc' # "start" /\ ~Running'  BY ONLY <3>1 DEF Running
    <3> QED  BY <3>1, <3>2, <1>a, <1>e
  <2>2. CASE twi_writeTo_setup(txBuffer)
    <3>1. /\ pc' = "start" /\ mode = "TWI_MTX" /\ twi_error' = "none" /\ twi_slarw' = "TW_WRITE" /\ masterIndex' = 0
          /\ masterLength' = length
      BY <2>2 DEF twi_writeTo_setup
    <3>2. ~Running' /\ (masterIndex' <= masterLength') /\ (masterIndex' <= Size)  BY ONLY <3>1, <1>b DEF Running
    <3> QED  BY <2>0, <3>1, <3>2 DEF MasterInv
  <2>3. CASE twi_readFrom_setup
    <3>1. /\ pc' = "start" /\ mode = "TWI_MRX" /\ twi_error' = "none" /\ twi_slarw' = "TW_READ" /\ masterIndex' = 0
          /\ masterLength' = UInt8(length - 1) /\ pc = "setup"
      BY <2>3 DEF twi_readFrom_setup
    <3>2. length > 0
      <4>1. pc \in InCall  BY ONLY <3>1 DEF InCall
      <4> QED  BY <3>1, <4>1 DEF TypeInv, CallType
    <3>3. length - 1 \in 0..255  BY ONLY <3>2, <1>b
    <3>4. masterLength' = length - 1  BY <3>1, <3>3, UInt8Same
    <3>5. ~Running' /\ (masterIndex' <= masterLength') /\ (masterIndex' <= Size) /\ mode' # "TWI_MTX"
      BY ONLY <2>0, <3>1, <3>3, <3>4, <1>b DEF Running
    <3> QED  BY <2>0, <3>1, <3>4, <3>5 DEF MasterInv
  <2>4. CASE Start
    <3>0. /\ pc = "start" /\ pc' = "wait" /\ twi_inRepStart' = FALSE /\ SketchRuns
          /\ UNCHANGED <<twi_state, twi_error, twi_slarw, masterIndex, masterLength>>
      BY <2>4, StartEffect, Tuples DEF Apart, StartDoes
    <3>1. Running' /\ ~Running /\ pc # "off" /\ pc' # "start"  BY ONLY <2>0, <3>0, <1>a DEF Running
    <3>2. /\ twi_error = "none" /\ masterIndex = 0 /\ masterIndex <= masterLength
          /\ twi_slarw = IF mode = "TWI_MTX" THEN "TW_WRITE" ELSE "TW_READ"
          /\ masterLength = IF mode = "TWI_MTX" THEN length ELSE length - 1
      BY <3>0, ~bus.master DEF MasterInv
    <3>3. status' = "none" /\ ((phase' = "address" /\ twdr' = twi_slarw) \/ (phase' = "idle" /\ twsta' = TRUE))
      <4>1. CASE twi_inRepStart  BY <2>4, <4>1, StartEffect DEF After, StartDoes
      <4>2. CASE ~twi_inRepStart
        <5>1. status = "none"  BY <3>0, <3>1, <4>2, SketchLine
        <5>2. PhaseAfter(status, phase, TRUE, FALSE) = phase
          BY ONLY <5>1 DEF PhaseAfter, AddressedReceive, AddressedTransmit
        <5>3. phase = "idle"
          <6>1. phase \in {"off", "idle", "restart"}  BY <3>1, ~bus.master DEF SoleInv
          <6>2. phase \notin {"off", "restart"}  BY <3>1, <4>2 DEF LineInv
          <6> QED  BY ONLY <6>1, <6>2
        <5> QED  BY <2>4, <4>2, <5>2, <5>3, StartEffect DEF After, StartDoes
      <4> QED  BY <4>1, <4>2
    <3>4. /\ phase' = "idle" => twsta'
          /\ phase' = "address" => twdr' = twi_slarw
          /\ phase' # "mt" /\ phase' # "mr"
          /\ status' \notin {"TW_MT_SLA_ACK", "TW_MT_SLA_NACK"} /\ status' \notin {"TW_MR_SLA_ACK", "TW_MR_SLA_NACK"}
      BY ONLY <3>3
    <3> QED  BY <2>0, <3>0, <3>1, <3>2, <3>4, <1>a DEF MasterInv
  <2> QED  BY <1>4, <2>1, <2>2, <2>3, <2>4 DEF Driver
<1>5. CASE /\ Running /\ ~twi_inRepStart
           /\ OnStart \/ OnMasterTransmit \/ OnRefused \/ OnMasterReceive \/ OnLastByte
           /\ MasterVect
  <2>0. /\ pc = "wait" /\ twi_state = mode /\ pc' = "wait" /\ mode' = mode /\ length' = length /\ masterLength' = masterLength
        /\ twi_slarw' = twi_slarw
    BY <1>5, MasterFrame, Tuples DEF Running, Apart
  <2>1. /\ masterIndex \in 0..255 /\ masterIndex <= masterLength /\ masterLength <= length
        /\ phase = "idle" => masterIndex = 0
        /\ phase = "address" => masterIndex = 0
        /\ phase = "mt" => mode = "TWI_MTX"
        /\ phase = "mr" => mode = "TWI_MRX" /\ masterLength = length - 1
        /\ status \in {"TW_MT_SLA_ACK", "TW_MT_DATA_ACK"} => mode = "TWI_MTX"
        /\ status \in {"TW_MR_SLA_ACK", "TW_MR_DATA_ACK"} => mode = "TWI_MRX"
    <3>1. /\ phase = "address" =>
               /\ status \in {"TW_MT_SLA_ACK", "TW_MT_SLA_NACK"} => mode = "TWI_MTX"
               /\ status \in {"TW_MR_SLA_ACK", "TW_MR_SLA_NACK"} => mode = "TWI_MRX"
          /\ phase = "mt" => mode = "TWI_MTX"
          /\ phase = "mr" => mode = "TWI_MRX"
      BY <1>5, ~bus.master, RunningFacts DEF RunningMeans
    <3>2. /\ status \in {"TW_MT_SLA_ACK", "TW_MR_SLA_ACK"} => phase = "address"
          /\ status = "TW_MT_DATA_ACK" => phase = "mt"
          /\ status = "TW_MR_DATA_ACK" => phase = "mr"
      BY PhaseOf DEF PhaseMeans
    <3>3. /\ status \in {"TW_MT_SLA_ACK", "TW_MT_DATA_ACK"} => mode = "TWI_MTX"
          /\ status \in {"TW_MR_SLA_ACK", "TW_MR_DATA_ACK"} => mode = "TWI_MRX"
      BY <3>1, <3>2
    <3> QED  BY <1>5, <3>3, ~bus.master, RunningFacts DEF RunningMeans
  <2>2. masterLength \in 0..255  BY DEF TypeInv, MasterType
  <2>3. ASSUME twi_state' = "TWI_READY", masterIndex' <= Size PROVE MasterInv'
    <3>1. pc' # "start" /\ ~Running'  BY ONLY <2>0, <2>3, <1>c DEF Running
    <3> QED  BY <2>3, <3>1, <1>e
  <2>4. UNCHANGED flags => Running' /\ UNCHANGED twi_error  BY <2>0, Tuples DEF Running, Apart
  <2>5. ASSUME masterIndex < masterLength
        PROVE  /\ UInt8(masterIndex + 1) = masterIndex + 1 /\ masterIndex + 1 \in 0..255
               /\ masterIndex + 1 <= masterLength
    <3>1. masterIndex + 1 \in 0..255 /\ masterIndex + 1 <= masterLength  BY ONLY <2>1, <2>2, <2>5
    <3> QED  BY <3>1, UInt8Same
  <2>6. CASE OnStart
    <3>1. /\ After("address", TRUE, TRUE, FALSE) /\ twdr' = twi_slarw /\ UNCHANGED <<flags, masterIndex>>
          /\ status \in {"TW_START", "TW_REP_START"}
      BY <2>6, MasterEffect, Tuples DEF Apart, MasterDoes
    <3>2. phase # "restart"
      <4>1. phase \notin {"off", "restart"}  BY <1>5, HandlerLine DEF LineInv
      <4> QED  BY ONLY <4>1
    <3>3. masterIndex = 0  BY <3>1, <3>2, <2>1, PhaseOf DEF PhaseMeans
    <3> QED  BY <1>5, <1>f, <2>0, <2>1, <2>4, <3>1, <3>3 DEF After
  <2>7. CASE OnMasterTransmit
    <3>1. status \in {"TW_MT_SLA_ACK", "TW_MT_DATA_ACK"}  BY <2>7, MasterEffect DEF MasterDoes
    <3>2. CASE masterIndex < masterLength
      <4>1. After("mt", TRUE, TRUE, FALSE) /\ UNCHANGED flags /\ masterIndex' = UInt8(masterIndex + 1)
        BY <2>7, <3>2, MasterEffect DEF MasterDoes
      <4> QED  BY <1>5, <1>f, <2>0, <2>1, <2>4, <2>5, <3>1, <3>2, <4>1 DEF After
    <3>3. CASE ~(masterIndex < masterLength)
      <4>1. Ended /\ masterIndex' = masterIndex  BY <2>7, <3>3, MasterEffect DEF MasterDoes
      <4> QED  BY <4>1, <2>3, <1>a DEF Ended
    <3> QED  BY <3>2, <3>3
  <2>8. CASE OnRefused
    <3>1. twi_state' = "TWI_READY" /\ masterIndex' = masterIndex  BY <2>8, MasterEffect, Tuples DEF Apart, MasterDoes
    <3> QED  BY <3>1, <2>3, <1>a
  <2>9. CASE OnMasterReceive
    <3>1. phase' = "mr" /\ status' = "none" /\ UNCHANGED flags  BY <2>9, MasterEffect DEF After, MasterDoes
    <3>2. CASE status = "TW_MR_DATA_ACK"
      <4>0. "TW_MR_DATA_ACK" # "TW_MR_SLA_ACK"  OBVIOUS
      <4>1. masterIndex' = UInt8(masterIndex + 1)  BY <4>0, <2>9, <3>2, MasterEffect DEF MasterDoes
      <4>2. masterIndex < masterLength /\ mode = "TWI_MRX"
        <5>1. phase = "mr"  BY <3>2, PhaseOf DEF PhaseMeans
        <5> QED  BY <5>1, <3>2, <1>5, <2>1, ~bus.master DEF FetchInv
      <4> QED  BY <1>5, <1>f, <2>0, <2>4, <2>5, <3>1, <4>1, <4>2
    <3>3. CASE status = "TW_MR_SLA_ACK"
      <4>0. "TW_MR_DATA_ACK" # "TW_MR_SLA_ACK"  OBVIOUS
      <4>1. masterIndex' = masterIndex  BY <4>0, <2>9, <3>3, MasterEffect DEF MasterDoes
      <4> QED  BY <1>5, <1>f, <2>0, <2>1, <2>4, <3>1, <3>3, <4>1
    <3> QED  BY <2>9, <3>2, <3>3, MasterEffect DEF MasterDoes
  <2>10. CASE OnLastByte
    <3>1. status = "TW_MR_DATA_NACK" /\ masterIndex' = UInt8(masterIndex + 1) /\ twi_state' = "TWI_READY"
      BY <2>10, MasterEffect DEF Ended, MasterDoes
    <3>2. phase = "mr"  BY <3>1, PhaseOf DEF PhaseMeans
    <3>3. masterIndex = masterLength /\ masterLength = length - 1
      BY <3>1, <3>2, <1>5, <2>1, ~bus.master DEF FetchInv
    <3>4. masterIndex + 1 \in 0..255 /\ masterIndex + 1 <= Size  BY ONLY <3>3, <2>1, <1>b
    <3>5. masterIndex' <= Size  BY <3>1, <3>4, UInt8Same
    <3> QED  BY <3>1, <3>5, <2>3
  <2> QED  BY <1>5, <2>6, <2>7, <2>8, <2>9, <2>10
<1>6. ASSUME Hardware
      PROVE  /\ UNCHANGED <<masterIndex, masterLength, pc, mode, length, twi_state, twi_error, twi_slarw, phase, twsta>>
             /\ Running' <=> Running
  BY <1>6, HardwareFrame, Tuples DEF Running, Apart
<1>7. ASSUME Hardware,
             Running /\ phase = "address" => /\ status' # "none"
                                             /\ status' \in {"TW_MT_SLA_ACK", "TW_MT_SLA_NACK"} => mode = "TWI_MTX"
                                             /\ status' \in {"TW_MR_SLA_ACK", "TW_MR_SLA_NACK"} => mode = "TWI_MRX"
      PROVE  MasterInv'
  <2>1. /\ UNCHANGED <<masterIndex, masterLength, pc, mode, length, twi_state, twi_error, twi_slarw, phase, twsta>>
        /\ Running' <=> Running
    BY <1>6, <1>7
  <2>2. Running' /\ phase' = "idle" => masterIndex' = 0 /\ twsta'
    <3>1. Running /\ phase = "idle" => masterIndex = 0 /\ twsta  BY ~bus.master DEF MasterInv
    <3> QED  BY ONLY <2>1, <3>1
  <2>3. Running' /\ phase' = "address" =>
             /\ status' # "none"
             /\ status' \in {"TW_MT_SLA_ACK", "TW_MT_SLA_NACK"} => mode' = "TWI_MTX"
             /\ status' \in {"TW_MR_SLA_ACK", "TW_MR_SLA_NACK"} => mode' = "TWI_MRX"
    BY <1>7, <2>1
  <2> QED  BY <2>1, <2>2, <2>3, ~bus.master DEF MasterInv
<1>8. CASE Hardware /\ (SendRepeatedStart \/ SendStart \/ DataSent \/ DataReceived \/ BusError)
  <2>1. phase # "address" \/ status' = "TW_BUS_ERROR"
    BY <1>8 DEF SendRepeatedStart, SendStart, DataSent, DataReceived, BusError, Raise
  <2>2. /\ "TW_BUS_ERROR" # "none" /\ "TW_BUS_ERROR" \notin {"TW_MT_SLA_ACK", "TW_MT_SLA_NACK"}
        /\ "TW_BUS_ERROR" \notin {"TW_MR_SLA_ACK", "TW_MR_SLA_NACK"}
    OBVIOUS
  <2> QED  BY <1>7, <1>8, <2>1, <2>2
<1>9. CASE Hardware /\ Running /\ AddressAnswered
  <2>1. phase = "address" /\ status = "none"  BY <1>9, HardwareFrame DEF AddressAnswered
  <2>2. /\ twdr = twi_slarw /\ mode \in {"TWI_MRX", "TWI_MTX"}
        /\ mode = "TWI_MTX" => twi_slarw = "TW_WRITE"
        /\ mode = "TWI_MRX" => twi_slarw = "TW_READ"
    BY <1>9, <2>1, ~bus.master, RunningFacts DEF RunningMeans
  <2>3. /\ twdr = "TW_READ" => status' \in {"TW_MR_SLA_ACK", "TW_MR_SLA_NACK"}
        /\ twdr # "TW_READ" => status' \in {"TW_MT_SLA_ACK", "TW_MT_SLA_NACK"}
    BY ONLY <1>9 DEF AddressAnswered, Raise
  <2>4. /\ status' # "none"
        /\ status' \in {"TW_MT_SLA_ACK", "TW_MT_SLA_NACK"} => mode = "TWI_MTX"
        /\ status' \in {"TW_MR_SLA_ACK", "TW_MR_SLA_NACK"} => mode = "TWI_MRX"
    BY ONLY <2>2, <2>3
  <2> QED  BY <1>7, <1>9, <2>4
<1>10. UNCHANGED vars \/ SoleStep  BY SoleSteps, ~bus.master
<1> QED  BY <1>1, <1>2, <1>3, <1>4, <1>5, <1>8, <1>9, <1>10 DEF SoleStep

\* The next byte of the buffer at the end of the sequence.
LEMMA HoldsNext ==
  ASSUME NEW buffer, NEW s \in Seq(Byte), NEW d \in Byte, NEW n \in Nat,
         d = buffer[n], Holds(s, buffer, n)
  PROVE  Holds(Append(s, d), buffer, n + 1)
<1>1. Len(s) = n /\ \A i \in 1..n : s[i] = buffer[i - 1]  BY DEF Holds
<1>2. Len(Append(s, d)) = n + 1  BY ONLY <1>1, s \in Seq(Byte), d \in Byte, ByteAppended
<1>3. ASSUME NEW i \in 1..(n + 1) PROVE Append(s, d)[i] = buffer[i - 1]
  <2>1. CASE i = n + 1
    <3>1. Append(s, d)[i] = d  BY ONLY <1>1, <2>1, s \in Seq(Byte), d \in Byte, ByteAppended
    <3>2. i - 1 = n  BY ONLY <2>1, n \in Nat
    <3> QED  BY ONLY <3>1, <3>2, d = buffer[n], Zenon
  <2>2. CASE i # n + 1
    <3>1. i \in 1..n  BY ONLY <2>2, <1>3, n \in Nat
    <3>2. Append(s, d)[i] = s[i]  BY ONLY <1>1, <3>1, s \in Seq(Byte), d \in Byte, ByteAppended
    <3> QED  BY ONLY <1>1, <3>1, <3>2, Zenon
  <2> QED  BY ONLY <2>1, <2>2, Zenon
<1> QED  BY ONLY <1>2, <1>3, Zenon DEF Holds

\* The empty sequence is in every buffer.
LEMMA HoldsNone == \A buffer : Holds(<<>>, buffer, 0)
BY DEF Holds

\* The steps after which the transfer is on.
LEMMA RunningFrom ==
  ASSUME TypeInv, LineInv, SoleInv, MasterInv, ~bus.master, [Next]_vars, Running'
  PROVE  \/ UNCHANGED vars
         \/ Start /\ phase' \in {"idle", "address"} /\ status' = "none"
         \/ /\ Running /\ MasterVect /\ status' = "none"
            /\ OnStart \/ (OnMasterTransmit /\ masterIndex < masterLength) \/ OnMasterReceive
         \/ Running /\ Hardware /\ (SendStart \/ AddressAnswered \/ DataSent \/ DataReceived \/ BusError)
<1> USE Zenon
<1>a. pc' = "wait" /\ twi_state' = mode' /\ mode' # "TWI_READY"
  <2>1. mode' \in {"TWI_MRX", "TWI_MTX"}  BY StepCall DEF CallType
  <2> QED  BY ONLY <2>1, Running' DEF Running
<1>1. CASE begin
  <2>1. pc' = "idle"  BY <1>1 DEF begin
  <2> QED  BY ONLY <2>1, <1>a
<1>2. CASE Quiet
  <2>1. pc' \in {"idle", "store", "ready", "requested"}  BY <1>2, QuietPlaces
  <2> QED  BY ONLY <2>1, <1>a
<1>3. CASE Driver
  <2>1. CASE AwaitReady \/ Claim \/ twi_writeTo_setup(txBuffer) \/ twi_readFrom_setup
    <3>1. pc' \in {"claim", "setup", "start"}
      BY <2>1 DEF AwaitReady, Claim, twi_writeTo_setup, twi_readFrom_setup
    <3> QED  BY ONLY <3>1, <1>a
  <2>2. CASE Start
    <3>0. pc = "start" /\ pc # "off" /\ SketchRuns /\ ~Running
      <4>1. pc = "start" /\ SketchRuns  BY <2>2, StartEffect DEF StartDoes
      <4> QED  BY ONLY <4>1 DEF Running
    <3>1. CASE twi_inRepStart
      <4>1. "address" \in {"idle", "address"}  OBVIOUS
      <4> QED  BY <4>1, <2>2, <3>1, StartEffect DEF After, StartDoes
    <3>2. CASE ~twi_inRepStart
      <4>1. status = "none"  BY <3>0, <3>2, SketchLine
      <4>2. PhaseAfter(status, phase, TRUE, FALSE) = phase
        BY ONLY <4>1 DEF PhaseAfter, AddressedReceive, AddressedTransmit
      <4>3. phase \in {"idle", "address"}
        <5>1. phase \in {"off", "idle", "restart"}  BY <3>0 DEF SoleInv
        <5>2. phase \notin {"off", "restart"}  BY <3>0, <3>2 DEF LineInv
        <5> QED  BY ONLY <5>1, <5>2
      <4> QED  BY <2>2, <3>2, <4>2, <4>3, StartEffect DEF After, StartDoes
    <3> QED  BY <3>1, <3>2
  <2> QED  BY <1>3, <2>1, <2>2 DEF Driver
<1>4. CASE /\ Running /\ ~twi_inRepStart
           /\ OnStart \/ OnMasterTransmit \/ OnRefused \/ OnMasterReceive \/ OnLastByte
           /\ MasterVect
  <2>1. ~OnRefused  BY <1>a, MasterEffect DEF MasterDoes
  <2>2. ~OnLastByte  BY <1>a, MasterEffect DEF Ended, MasterDoes
  <2>3. OnMasterTransmit => masterIndex < masterLength  BY <1>a, MasterEffect DEF Ended, MasterDoes
  <2>4. status' = "none"  BY <1>4, <2>1, <2>2, <2>3, MasterEffect DEF After, MasterDoes
  <2> QED  BY <1>4, <2>1, <2>2, <2>3, <2>4
<1>5. CASE Hardware /\ SendRepeatedStart
  <2>1. phase = "restart" /\ Running /\ pc # "off"
    <3>1. phase = "restart" /\ UNCHANGED <<pc, mode, twi_state>>
      BY <1>5, HardwareFrame, Tuples DEF SendRepeatedStart, Apart
    <3> QED  BY ONLY <3>1, <1>a DEF Running
  <2>2. ~twi_inRepStart  BY <2>1 DEF SoleInv
  <2>3. phase \notin {"off", "restart"}  BY <2>1, <2>2 DEF LineInv
  <2> QED  BY ONLY <2>1, <2>3
<1>6. UNCHANGED vars \/ SoleStep  BY SoleSteps
<1> QED  BY <1>1, <1>2, <1>3, <1>4, <1>5, <1>6 DEF SoleStep

\* Nothing is transferred before the address is answered.
LEMMA StepAddress ==
  ASSUME TypeInv, LineInv, SoleInv, MasterInv, AddressInv, [Next]_vars
  PROVE  AddressInv'
<1> USE Zenon
<1>0. bus' = bus  BY Steps
<1> SUFFICES ASSUME ~bus.master, Running', phase' = "address", status' # "none" PROVE AddressInv'
  BY <1>0, Zenon DEF AddressInv
<1>1. CASE UNCHANGED vars
  <2>1. UNCHANGED <<transfer, phase, status, pc, mode, twi_state>>  BY <1>1, Tuples DEF Apart
  <2> QED  BY <1>0, <2>1 DEF AddressInv, Running
<1>2. ASSUME Hardware PROVE phase = "address"  BY <1>2, phase' = "address", HardwareFrame
<1>3. CASE Hardware /\ AddressAnswered
  <2>1. PICK ack \in {"ack", "nack"} : transfer' = [NoTransfer EXCEPT !.sla = ack]
    /\ Raise(CASE twdr = "TW_READ" /\ ack = "ack" -> "TW_MR_SLA_ACK"
               [] twdr = "TW_READ" /\ ack = "nack" -> "TW_MR_SLA_NACK"
               [] twdr # "TW_READ" /\ ack = "ack" -> "TW_MT_SLA_ACK"
               [] OTHER -> "TW_MT_SLA_NACK")
    BY <1>3 DEF AddressAnswered
  <2>2. transfer'.sla = ack /\ transfer'.bytes = <<>> /\ ~transfer'.nacked  BY ONLY <2>1 DEF NoTransfer
  <2>3. /\ ack = "ack" => status' \in {"TW_MR_SLA_ACK", "TW_MT_SLA_ACK"}
        /\ ack # "ack" => status' \in {"TW_MR_SLA_NACK", "TW_MT_SLA_NACK"}
    BY ONLY <2>1 DEF Raise
  <2>4. /\ status' \in {"TW_MT_SLA_ACK", "TW_MR_SLA_ACK"} => transfer'.sla = "ack"
        /\ status' \in {"TW_MT_SLA_NACK", "TW_MR_SLA_NACK"} => transfer'.sla = "nack"
        /\ status' # "TW_BUS_ERROR"
    BY ONLY <2>2, <2>3, ack \in {"ack", "nack"}
  <2> QED  BY <2>2, <2>4 DEF AddressInv
<1>4. CASE Hardware /\ BusError
  <2>1. transfer' = NoTransfer /\ status' = "TW_BUS_ERROR"  BY <1>2, <1>4 DEF BusError, TransferCut, Raise
  <2>2. transfer'.sla = "none" /\ transfer'.bytes = <<>> /\ ~transfer'.nacked  BY ONLY <2>1 DEF NoTransfer
  <2>3. /\ status' \notin {"TW_MT_SLA_ACK", "TW_MR_SLA_ACK"} /\ status' \notin {"TW_MT_SLA_NACK", "TW_MR_SLA_NACK"}
    BY ONLY <2>1
  <2> QED  BY <2>2, <2>3 DEF AddressInv
<1>5. ASSUME Hardware PROVE ~SendStart /\ ~DataSent /\ ~DataReceived
  <2>1. phase # "idle" /\ phase # "mt" /\ phase # "mr"  BY ONLY <1>2, <1>5
  <2> QED  BY <2>1 DEF SendStart, DataSent, DataReceived
<1> QED  BY ~bus.master, Running', status' # "none", RunningFrom, <1>1, <1>3, <1>4, <1>5

\* While it sends, the bytes on the bus are the first of the buffer.
LEMMA StepSend ==
  ASSUME TypeInv, LineInv, SoleInv, MasterInv, AddressInv, SendInv, [Next]_vars
  PROVE  SendInv'
<1> USE Zenon
<1>0. bus' = bus  BY Steps
<1> SUFFICES ASSUME ~bus.master, Running', phase' = "mt" PROVE SendInv'
  BY <1>0, Zenon DEF SendInv
<1>1. CASE UNCHANGED vars
  <2>1. UNCHANGED <<transfer, phase, status, pc, mode, twi_state, masterIndex, masterBuffer, twdr>>
    BY <1>1, Tuples DEF Apart
  <2> QED  BY <1>0, <2>1 DEF SendInv, Running
<1>2. CASE Start /\ phase' \in {"idle", "address"}  BY ONLY <1>2, phase' = "mt"
<1>a. ASSUME Running
      PROVE  /\ masterIndex \in 0..255 /\ masterIndex <= masterLength /\ masterLength <= length /\ length \in 0..Size
             /\ phase = "address" => masterIndex = 0
    BY <1>a, ~bus.master, RunningFacts DEF RunningMeans
<1>3. CASE Running /\ MasterVect /\ status' = "none" /\ OnMasterTransmit /\ masterIndex < masterLength
  <2>1. /\ status \in {"TW_MT_SLA_ACK", "TW_MT_DATA_ACK"} /\ masterBuffer' = masterBuffer
        /\ masterIndex' = UInt8(masterIndex + 1)
        /\ twdr' \in IF masterIndex \in Cell THEN {masterBuffer[masterIndex]} ELSE Byte
        /\ transfer' = transfer
    BY <1>3, MasterEffect, MasterFrame DEF MasterDoes
  <2>2. PICK n \in Nat : n = masterIndex /\ n \in Cell /\ n + 1 \in 0..255 /\ (n + 1) - 1 = n /\ n + 1 > 0
    <3>1. masterIndex < masterLength  BY ONLY <1>3
    <3>2. masterLength \in 0..255  BY DEF TypeInv, MasterType
    <3>3. masterIndex \in Nat /\ masterIndex < Size /\ masterIndex + 1 \in 0..255
      BY ONLY <3>1, <3>2, <1>a, <1>3, Constants
    <3>4. masterIndex \in Cell  BY ONLY <3>3, Constants
    <3>5. (masterIndex + 1) - 1 = masterIndex /\ masterIndex + 1 > 0  BY ONLY <3>3
    <3> QED  BY <3>3, <3>4, <3>5
  <2>3. masterIndex' = n + 1 /\ masterIndex' - 1 = n  BY <2>1, <2>2, UInt8Same
  <2>4. twdr' = masterBuffer[n]  BY ONLY <2>1, <2>2
  <2>5. transfer.sla = "ack" /\ ~transfer.nacked /\ Holds(transfer.bytes, masterBuffer, n)
    <3>1. CASE status = "TW_MT_SLA_ACK"
      <4>1. phase = "address" /\ status # "none" /\ status \in {"TW_MT_SLA_ACK", "TW_MR_SLA_ACK"}
        <5>1. status \in {"TW_MT_SLA_ACK", "TW_MT_SLA_NACK", "TW_MR_SLA_ACK", "TW_MR_SLA_NACK"}  BY ONLY <3>1
        <5>2. phase = "address"  BY <5>1, PhaseOf DEF PhaseMeans
        <5> QED  BY ONLY <3>1, <5>2
      <4>2. transfer.bytes = <<>> /\ ~transfer.nacked /\ transfer.sla = "ack"
        BY <1>3, <4>1, ~bus.master DEF AddressInv
      <4>3. n = 0  BY <2>2, <4>1, <1>3, <1>a
      <4> QED  BY <4>2, <4>3, HoldsNone
    <3>2. CASE status = "TW_MT_DATA_ACK"
      <4>1. phase = "mt" /\ status \in {"none", "TW_MT_DATA_ACK"}
        <5>1. status \in {"TW_MT_DATA_ACK", "TW_MT_DATA_NACK"}  BY ONLY <3>2
        <5>2. phase = "mt"  BY <5>1, PhaseOf DEF PhaseMeans
        <5> QED  BY ONLY <3>2, <5>2
      <4> QED  BY <1>3, <2>2, <3>2, <4>1, ~bus.master DEF SendInv
    <3> QED  BY ONLY <2>1, <3>1, <3>2
  <2>6. status' # "TW_MT_DATA_ACK" /\ status' # "TW_MT_DATA_NACK"  BY ONLY <1>3
  <2>7. (n + 1) - 1 = n /\ n + 1 > 0  BY ONLY <2>2
  <2>8. masterIndex' > 0 /\ twdr' = masterBuffer'[masterIndex' - 1] /\ Holds(transfer'.bytes, masterBuffer', masterIndex' - 1)
    BY <2>1, <2>3, <2>4, <2>5, <2>7
  <2>9. transfer'.sla = "ack" /\ ~transfer'.nacked
    <3>1. transfer'.nacked = transfer.nacked /\ transfer'.sla = transfer.sla  BY <2>1
    <3> QED  BY ONLY <3>1, <2>5
  <2> QED  BY <2>6, <2>8, <2>9 DEF SendInv
<1>4. CASE MasterVect /\ (OnStart \/ OnMasterReceive)
  <2>1. phase' = "address" \/ phase' = "mr"  BY <1>4, MasterEffect DEF After, MasterDoes
  <2> QED  BY ONLY <2>1, phase' = "mt"
<1>5. ASSUME Hardware PROVE phase = "mt" /\ status = "none" /\ UNCHANGED <<masterIndex, masterBuffer>>
  BY <1>5, phase' = "mt", HardwareFrame, Tuples DEF Apart
<1>6. ASSUME Running, phase = "mt", status = "none"
      PROVE /\ transfer.sla = "ack" /\ ~transfer.nacked
            /\ masterIndex > 0 /\ twdr = masterBuffer[masterIndex - 1]
            /\ Holds(transfer.bytes, masterBuffer, masterIndex - 1)
  <2>1. status \in {"none", "TW_MT_DATA_ACK"}  BY ONLY <1>6
  <2> QED  BY <1>6, <2>1, ~bus.master DEF SendInv
<1>b. transfer \in [sla : {"none", "ack", "nack"}, bytes : Seq(Byte), nacked : BOOLEAN]
  BY DEF TypeInv, HistoryType
<1>7. CASE Running /\ Hardware /\ DataSent
  <2>1. CASE Raise("TW_MT_DATA_ACK") /\ transfer' = [transfer EXCEPT !.bytes = Append(@, twdr)]
    <3>1. status' = "TW_MT_DATA_ACK"  BY <2>1 DEF Raise
    <3>2. transfer'.sla = transfer.sla /\ transfer'.nacked = transfer.nacked /\ transfer'.bytes = Append(transfer.bytes, twdr)
      BY ONLY <2>1, <1>b
    <3>3. PICK n \in Nat : n = masterIndex - 1 /\ n + 1 = masterIndex
      <4>1. masterIndex \in 0..255 /\ masterIndex > 0  BY <1>7, <1>5, <1>6, <1>a
      <4>2. masterIndex - 1 \in Nat /\ (masterIndex - 1) + 1 = masterIndex  BY ONLY <4>1
      <4> QED  BY <4>2
    <3>4. Holds(transfer.bytes, masterBuffer, n) /\ twdr = masterBuffer[n]  BY <1>7, <1>5, <1>6, <3>3
    <3>5. transfer.bytes \in Seq(Byte)  BY ONLY <1>b
    <3>6. twdr \in Byte  BY <1>7, <1>5 DEF TypeInv, PlainType
    <3>7. Holds(transfer'.bytes, masterBuffer', masterIndex')
      <4>1. Holds(Append(transfer.bytes, twdr), masterBuffer, n + 1)  BY <3>4, <3>5, <3>6, HoldsNext
      <4> QED  BY <4>1, <3>2, <3>3, <1>5, <1>7
    <3>8. status' # "none" /\ status' # "TW_MT_DATA_NACK"  BY ONLY <3>1
    <3>9. transfer'.sla = "ack" /\ ~transfer'.nacked
      <4>1. transfer.sla = "ack" /\ ~transfer.nacked  BY <1>7, <1>5, <1>6
      <4> QED  BY ONLY <4>1, <3>2
    <3> QED  BY <3>7, <3>8, <3>9 DEF SendInv
  <2>2. CASE Raise("TW_MT_DATA_NACK") /\ transfer' = [transfer EXCEPT !.nacked = TRUE]
    <3>1. status' = "TW_MT_DATA_NACK"  BY <2>2 DEF Raise
    <3>2. transfer'.sla = transfer.sla /\ transfer'.nacked = TRUE  BY ONLY <2>2, <1>b
    <3>3. status' \notin {"none", "TW_MT_DATA_ACK"} /\ status' # "none" /\ status' # "TW_MT_DATA_ACK"  BY ONLY <3>1
    <3>4. transfer.sla = "ack"  BY <1>7, <1>5, <1>6
    <3> QED  BY <3>2, <3>3, <3>4 DEF SendInv
  <2> QED  BY <1>7, <2>1, <2>2 DEF DataSent
<1>8. CASE Running /\ Hardware /\ BusError
  <2>1. transfer' = transfer /\ status' = "TW_BUS_ERROR"
    <3>1. phase # "address"  BY ONLY <1>5, <1>8
    <3> QED  BY <3>1, <1>8 DEF BusError, TransferCut, Raise
  <2>2. status' \notin {"none", "TW_MT_DATA_ACK"} /\ status' # "none" /\ status' # "TW_MT_DATA_ACK" /\ status' # "TW_MT_DATA_NACK"
    BY ONLY <2>1
  <2>3. transfer.sla = "ack"  BY <1>8, <1>5, <1>6
  <2> QED  BY <2>1, <2>2, <2>3 DEF SendInv
<1>9. ASSUME Hardware PROVE ~SendStart /\ ~AddressAnswered /\ ~DataReceived
  <2>1. phase # "idle" /\ phase # "address" /\ phase # "mr"  BY ONLY <1>5, <1>9
  <2> QED  BY <2>1 DEF SendStart, AddressAnswered, DataReceived
<1> QED  BY ~bus.master, Running', RunningFrom, <1>1, <1>2, <1>3, <1>4, <1>7, <1>8, <1>9

\* A byte stored behind the others.
LEMMA HoldsStore ==
  ASSUME NEW m \in Nat, NEW buffer \in [0..(m - 1) -> Byte], NEW s, NEW d, NEW n \in Nat,
         n < m, Len(s) = n + 1, s[n + 1] = d, \A i \in 1..n : s[i] = buffer[i - 1]
  PROVE  Holds(s, [buffer EXCEPT ![n] = d], n + 1)
<1> USE Zenon
<1>1. ASSUME NEW i \in 1..(n + 1) PROVE s[i] = [buffer EXCEPT ![n] = d][i - 1]
  <2>1. CASE i = n + 1
    <3>1. i - 1 = n /\ n \in 0..(m - 1)  BY ONLY <2>1, n \in Nat, m \in Nat, n < m
    <3> QED  BY <2>1, <3>1
  <2>2. CASE i # n + 1
    <3>1. i \in 1..n /\ i - 1 \in 0..(m - 1) /\ i - 1 # n  BY ONLY <2>2, <1>1, n \in Nat, m \in Nat, n < m
    <3>2. [buffer EXCEPT ![n] = d][i - 1] = buffer[i - 1]
      BY <3>1
    <3> QED  BY \A j \in 1..n : s[j] = buffer[j - 1], <3>1, <3>2
  <2> QED  BY ONLY <2>1, <2>2
<1> QED  BY <1>1 DEF Holds

\* A byte received as master is stored where it belongs.
LEMMA FetchStores ==
  ASSUME TypeInv, LineInv, MasterInv, FetchInv, ~bus.master, Running,
         status \in {"TW_MR_DATA_ACK", "TW_MR_DATA_NACK"},
         masterBuffer' = [masterBuffer EXCEPT ![masterIndex] = twdr], masterIndex' = UInt8(masterIndex + 1)
  PROVE  /\ Holds(transfer.bytes, masterBuffer', masterIndex') /\ masterIndex' = masterIndex + 1
         /\ transfer.sla = "ack" /\ mode = "TWI_MRX" /\ masterLength = length - 1
<1> USE Zenon
<1>1. phase = "mr"
  BY PhaseOf DEF PhaseMeans
<1>2. /\ mode = "TWI_MRX" /\ masterLength = length - 1 /\ length > 0 /\ length \in 0..Size
      /\ masterIndex \in 0..255 /\ masterIndex <= masterLength
  BY <1>1, RunningFacts DEF RunningMeans
<1>3. /\ Len(transfer.bytes) = masterIndex + 1 /\ transfer.bytes[masterIndex + 1] = twdr
      /\ \A i \in 1..masterIndex : transfer.bytes[i] = masterBuffer[i - 1]
      /\ transfer.sla = "ack"
  BY <1>1 DEF FetchInv
<1>4. masterIndex \in Nat /\ masterIndex < Size /\ masterIndex + 1 \in 0..255 /\ Size \in Nat
  BY ONLY <1>2, Constants
<1>5. masterIndex' = masterIndex + 1  BY <1>4, UInt8Same
<1>6. masterBuffer \in [0..(Size - 1) -> Byte]
  BY DEF TypeInv, MasterType, Cell, Size
<1>7. Holds(transfer.bytes, [masterBuffer EXCEPT ![masterIndex] = twdr], masterIndex + 1)
  BY <1>3, <1>4, <1>6, HoldsStore
<1> QED  BY <1>2, <1>3, <1>5, <1>7

\* While it receives, the buffer holds the bytes of the bus.
LEMMA StepFetch ==
  ASSUME TypeInv, LineInv, SoleInv, MasterInv, AddressInv, FetchInv, [Next]_vars
  PROVE  FetchInv'
<1> USE Zenon
<1>0. bus' = bus  BY Steps
<1> SUFFICES ASSUME ~bus.master, Running', phase' = "mr" PROVE FetchInv'
  BY <1>0, Zenon DEF FetchInv
<1>1. CASE UNCHANGED vars
  <2>1. UNCHANGED <<transfer, phase, status, pc, mode, twi_state, masterIndex, masterLength, masterBuffer, twdr, twea>>
    BY <1>1, Tuples DEF Apart
  <2> QED  BY <1>0, <2>1 DEF FetchInv, Running
<1>2. CASE Start /\ phase' \in {"idle", "address"}  BY ONLY <1>2, phase' = "mr"
<1>3. CASE Running /\ MasterVect /\ status' = "none" /\ OnMasterReceive
  <2>1. /\ twea' = (masterIndex' < masterLength) /\ masterLength' = masterLength /\ transfer' = transfer
    BY <1>3, MasterEffect, MasterFrame DEF After, MasterDoes
  <2>2. transfer.sla = "ack" /\ Holds(transfer.bytes, masterBuffer', masterIndex')
    <3>1. CASE status = "TW_MR_DATA_ACK"
      <4>1. "TW_MR_DATA_ACK" # "TW_MR_SLA_ACK" /\ status \in {"TW_MR_DATA_ACK", "TW_MR_DATA_NACK"}  BY ONLY <3>1
      <4>2. masterBuffer' = [masterBuffer EXCEPT ![masterIndex] = twdr] /\ masterIndex' = UInt8(masterIndex + 1)
        BY <3>1, <4>1, <1>3, MasterEffect DEF MasterDoes
      <4> QED  BY <4>1, <4>2, <1>3, ~bus.master, FetchStores
    <3>2. CASE status = "TW_MR_SLA_ACK"
      <4>1. /\ "TW_MR_DATA_ACK" # "TW_MR_SLA_ACK" /\ status \in {"TW_MT_SLA_ACK", "TW_MR_SLA_ACK"} /\ status # "none"
            /\ status \in {"TW_MT_SLA_ACK", "TW_MT_SLA_NACK", "TW_MR_SLA_ACK", "TW_MR_SLA_NACK"}
        BY ONLY <3>2
      <4>2. masterIndex' = masterIndex  BY <3>2, <4>1, <1>3, MasterEffect DEF MasterDoes
      <4>3. phase = "address"  BY <4>1, PhaseOf DEF PhaseMeans
      <4>4. masterIndex = 0  BY <1>3, <4>3, ~bus.master, RunningFacts DEF RunningMeans
      <4>5. transfer.bytes = <<>> /\ transfer.sla = "ack"
        BY <1>3, <4>1, <4>3, ~bus.master DEF AddressInv
      <4> QED  BY <4>2, <4>4, <4>5, HoldsNone
    <3> QED  BY <1>3, <3>1, <3>2, MasterEffect DEF MasterDoes
  <2>3. status' \notin {"TW_MR_DATA_ACK", "TW_MR_DATA_NACK"} /\ status' # "TW_MR_DATA_ACK" /\ status' # "TW_MR_DATA_NACK"
    BY ONLY <1>3
  <2> QED  BY <2>1, <2>2, <2>3 DEF FetchInv
<1>4. CASE MasterVect /\ (OnStart \/ (OnMasterTransmit /\ masterIndex < masterLength))
  <2>1. phase' = "address" \/ phase' = "mt"  BY <1>4, MasterEffect DEF After, MasterDoes
  <2> QED  BY ONLY <2>1, phase' = "mr"
<1>5. ASSUME Hardware PROVE phase = "mr" /\ status = "none" /\ UNCHANGED <<masterIndex, masterLength, masterBuffer>>
  BY <1>5, phase' = "mr", HardwareFrame, Tuples DEF Apart
<1>6. ASSUME Running, phase = "mr", status = "none"
      PROVE /\ transfer.sla = "ack" /\ twea = (masterIndex < masterLength)
            /\ Holds(transfer.bytes, masterBuffer, masterIndex)
            /\ masterIndex \in 0..255 /\ masterIndex <= masterLength /\ masterLength \in 0..255
  <2>1. status \in {"none", "TW_BUS_ERROR"}  BY ONLY <1>6
  <2>2. masterLength \in 0..255  BY DEF TypeInv, MasterType
  <2>3. masterIndex \in 0..255 /\ masterIndex <= masterLength
    BY <1>6, ~bus.master, RunningFacts DEF RunningMeans
  <2> QED  BY <1>6, <2>1, <2>2, <2>3, ~bus.master DEF FetchInv
<1>b. transfer \in [sla : {"none", "ack", "nack"}, bytes : Seq(Byte), nacked : BOOLEAN] /\ twea \in BOOLEAN
  BY DEF TypeInv, HistoryType, PlainType
<1>7. CASE Running /\ Hardware /\ DataReceived
  <2>1. PICK d \in bus.data :
          twdr' = d /\ transfer' = [transfer EXCEPT !.bytes = Append(@, d), !.nacked = ~twea]
    BY <1>7 DEF DataReceived
  <2>2. status' = IF twea THEN "TW_MR_DATA_ACK" ELSE "TW_MR_DATA_NACK"  BY <1>7 DEF DataReceived, Raise
  <2>3. transfer'.sla = transfer.sla /\ transfer'.nacked = ~twea /\ transfer'.bytes = Append(transfer.bytes, d)
    BY ONLY <2>1, <1>b
  <2>4. /\ transfer.sla = "ack" /\ twea = (masterIndex < masterLength)
        /\ Holds(transfer.bytes, masterBuffer, masterIndex)
        /\ masterIndex \in 0..255 /\ masterIndex <= masterLength /\ masterLength \in 0..255
    BY <1>5, <1>6, <1>7
  <2>5. d \in Byte /\ transfer.bytes \in Seq(Byte)
    <3>1. bus.data \subseteq Byte  BY BusFacts DEF TypeInv, PlainType
    <3>2. transfer.bytes \in Seq(Byte)  BY ONLY <1>b
    <3> QED  BY ONLY <3>1, <3>2, <2>1
  <2>6. Len(transfer.bytes) = masterIndex /\ \A i \in 1..masterIndex : transfer.bytes[i] = masterBuffer[i - 1]
    BY <2>4 DEF Holds
  <2>7. Len(transfer'.bytes) = masterIndex + 1 /\ transfer'.bytes[masterIndex + 1] = d
    BY ONLY <2>3, <2>4, <2>5, <2>6, ByteAppended
  <2>8. ASSUME NEW i \in 1..masterIndex PROVE transfer'.bytes[i] = masterBuffer[i - 1]
    <3>1. transfer'.bytes[i] = transfer.bytes[i]  BY ONLY <2>3, <2>4, <2>5, <2>6, <2>8, ByteAppended
    <3> QED  BY <3>1, <2>6, <2>8
  <2>9. /\ UNCHANGED <<masterIndex, masterLength, masterBuffer>>  BY <1>5, <1>7
  <2>10. /\ Len(transfer'.bytes) = masterIndex' + 1 /\ transfer'.bytes[masterIndex' + 1] = twdr'
         /\ \A i \in 1..masterIndex' : transfer'.bytes[i] = masterBuffer'[i - 1]
    BY <2>1, <2>7, <2>8, <2>9
  <2>11. /\ status' = "TW_MR_DATA_ACK" => masterIndex' < masterLength'
         /\ status' = "TW_MR_DATA_NACK" => masterIndex' = masterLength' /\ transfer'.nacked
         /\ status' # "none" /\ status' \notin {"none", "TW_BUS_ERROR"}
    <3>1. CASE twea = TRUE
      <4>1. status' = "TW_MR_DATA_ACK" /\ masterIndex < masterLength  BY <2>2, <2>4, <3>1
      <4> QED  BY ONLY <4>1, <2>9
    <3>2. CASE twea = FALSE
      <4>1. status' = "TW_MR_DATA_NACK" /\ ~(masterIndex < masterLength) /\ transfer'.nacked
        BY <2>2, <2>3, <2>4, <3>2
      <4>2. masterIndex = masterLength  BY ONLY <4>1, <2>4
      <4> QED  BY ONLY <4>1, <4>2, <2>9
    <3> QED  BY <1>b, <3>1, <3>2
  <2> QED  BY <2>3, <2>4, <2>10, <2>11 DEF FetchInv
<1>8. CASE Running /\ Hardware /\ BusError
  <2>1. transfer' = transfer /\ status' = "TW_BUS_ERROR"
    <3>1. phase # "address"  BY ONLY <1>5, <1>8
    <3> QED  BY <3>1, <1>8 DEF BusError, TransferCut, Raise
  <2>2. /\ status' \notin {"TW_MR_DATA_ACK", "TW_MR_DATA_NACK"} /\ status' # "none" /\ status' # "TW_MR_DATA_ACK"
        /\ status' # "TW_MR_DATA_NACK"
    BY ONLY <2>1
  <2>3. transfer.sla = "ack" /\ Holds(transfer.bytes, masterBuffer, masterIndex)  BY <1>8, <1>5, <1>6
  <2>4. Holds(transfer'.bytes, masterBuffer', masterIndex')  BY <1>5, <1>8, <2>1, <2>3
  <2> QED  BY <2>1, <2>2, <2>3, <2>4 DEF FetchInv
<1>9. ASSUME Hardware PROVE ~SendStart /\ ~AddressAnswered /\ ~DataSent
  <2>1. phase # "idle" /\ phase # "address" /\ phase # "mt"  BY ONLY <1>5, <1>9
  <2> QED  BY <2>1 DEF SendStart, AddressAnswered, DataSent
<1> QED  BY ~bus.master, Running', RunningFrom, <1>1, <1>2, <1>3, <1>4, <1>7, <1>8, <1>9

\* The steps after which the transfer is over and the call has not returned.
LEMMA OverFrom ==
  ASSUME TypeInv, LineInv, SoleInv, MasterInv, ~bus.master, [Next]_vars, pc' = "wait", ~Running'
  PROVE  \/ UNCHANGED vars
         \/ /\ Running /\ MasterVect
            /\ (OnMasterTransmit /\ ~(masterIndex < masterLength)) \/ OnRefused \/ OnLastByte
         \/ ~Running /\ pc = "wait" /\ Hardware /\ SendRepeatedStart
<1> USE Zenon
<1>a. twi_state' # mode'  BY DEF Running
<1>1. CASE begin
  <2>1. pc' = "idle"  BY <1>1 DEF begin
  <2> QED  BY ONLY <2>1, pc' = "wait"
<1>2. CASE Quiet
  <2>1. pc' \in {"idle", "store", "ready", "requested"}  BY <1>2, QuietPlaces
  <2> QED  BY ONLY <2>1, pc' = "wait"
<1>3. CASE Driver
  <2>1. CASE AwaitReady \/ Claim \/ twi_writeTo_setup(txBuffer) \/ twi_readFrom_setup
    <3>1. pc' \in {"claim", "setup", "start"}
      BY <2>1 DEF AwaitReady, Claim, twi_writeTo_setup, twi_readFrom_setup
    <3> QED  BY ONLY <3>1, pc' = "wait"
  <2>2. CASE Start
    <3>1. pc = "start" /\ UNCHANGED <<twi_state, mode>>  BY <2>2, StartEffect DEF StartDoes
    <3>2. pc \in {"setup", "start"}  BY ONLY <3>1
    <3>3. twi_state = mode  BY <3>2 DEF SoleInv
    <3> QED  BY <3>1, <3>3, <1>a
  <2> QED  BY <1>3, <2>1, <2>2 DEF Driver
<1>4. CASE /\ Running /\ ~twi_inRepStart
           /\ OnStart \/ OnMasterTransmit \/ OnRefused \/ OnMasterReceive \/ OnLastByte
           /\ MasterVect
  <2>1. ~UNCHANGED flags
    <3>1. twi_state = mode /\ mode' = mode  BY <1>4, MasterFrame, Tuples DEF Running, Apart
    <3> QED  BY <3>1, <1>a, Tuples DEF Apart
  <2>2. ~OnStart /\ ~OnMasterReceive /\ (OnMasterTransmit => ~(masterIndex < masterLength))
    <3>1. ~OnStart /\ ~OnMasterReceive  BY <2>1, MasterEffect DEF MasterDoes
    <3>2. OnMasterTransmit => ~(masterIndex < masterLength)
      BY <2>1, MasterEffect DEF MasterDoes
    <3> QED  BY <3>1, <3>2
  <2> QED  BY <1>4, <2>2
<1>5. CASE Hardware
  <2>1. UNCHANGED <<pc, mode, twi_state>>  BY <1>5, HardwareFrame, Tuples DEF Apart
  <2>2. pc = "wait" /\ ~Running  BY <2>1, <1>a DEF Running
  <2> QED  BY <1>5, <2>2, SoleSteps, <1>1, <1>2, <1>3, <1>4 DEF SoleStep
<1>6. UNCHANGED vars \/ SoleStep  BY SoleSteps
<1> QED  BY <1>1, <1>2, <1>3, <1>4, <1>5, <1>6 DEF SoleStep

\* When a write is over, the error tells what happened on the bus.
LEMMA StepSent ==
  ASSUME TypeInv, LineInv, SoleInv, MasterInv, AddressInv, SendInv, SentInv, [Next]_vars
  PROVE  SentInv'
<1> USE Zenon
<1>0. bus' = bus  BY Steps
<1> SUFFICES ASSUME ~bus.master, pc' = "wait", ~Running', mode' = "TWI_MTX" PROVE SentInv'
  BY <1>0, Zenon DEF SentInv
<1>a. ASSUME ~Running, pc = "wait", UNCHANGED <<transfer, twi_error, masterBuffer, length, mode>> PROVE SentInv'
  BY <1>a, ~bus.master, mode' = "TWI_MTX" DEF SentInv
<1>1. CASE UNCHANGED vars
  <2>1. UNCHANGED <<transfer, twi_error, masterBuffer, length, pc, mode, twi_state>>  BY <1>1, Tuples DEF Apart
  <2>2. pc = "wait" /\ ~Running  BY <2>1, pc' = "wait", ~Running' DEF Running
  <2> QED  BY <2>1, <2>2, <1>a
<1>2. CASE ~Running /\ pc = "wait" /\ Hardware /\ SendRepeatedStart
  <2>1. UNCHANGED <<transfer, twi_error, masterBuffer, length, mode>>
    BY <1>2, HardwareFrame, Tuples DEF SendRepeatedStart, Apart
  <2> QED  BY <2>1, <1>2, <1>a
<1>b. ASSUME Running, MasterVect
      PROVE  /\ mode = "TWI_MTX" /\ mode # "TWI_MRX" /\ transfer' = transfer /\ length' = length
             /\ twi_error = "none" /\ masterLength = length /\ masterIndex \in 0..255 /\ masterIndex <= masterLength
             /\ phase = "address" => masterIndex = 0
             /\ status \in {"TW_MR_SLA_ACK", "TW_MR_SLA_NACK"} => phase # "address"
             /\ phase # "mr"
  <2>1. mode = "TWI_MTX" /\ transfer' = transfer /\ length' = length
    BY <1>b, mode' = "TWI_MTX", MasterFrame, Tuples DEF Apart
  <2>2. mode # "TWI_MRX"  BY ONLY <2>1
  <2> QED  BY <1>b, <2>1, <2>2, ~bus.master, RunningFacts DEF RunningMeans
<1>3. CASE Running /\ MasterVect /\ OnMasterTransmit /\ ~(masterIndex < masterLength)
  <2>1. /\ status \in {"TW_MT_SLA_ACK", "TW_MT_DATA_ACK"} /\ masterBuffer' = masterBuffer /\ twi_error' = twi_error
    BY <1>3, MasterEffect DEF Ended, MasterDoes
  <2>2. masterIndex = length
    <3>1. masterIndex \in 0..255 /\ masterIndex <= masterLength /\ masterLength = length /\ ~(masterIndex < masterLength)
      BY <1>3, <1>b
    <3>2. length \in 0..Size  BY DEF TypeInv, CallType
    <3> QED  BY ONLY <3>1, <3>2, Constants
  <2>3. transfer.sla = "ack" /\ ~transfer.nacked /\ Holds(transfer.bytes, masterBuffer, masterIndex)
    <3>1. CASE status = "TW_MT_SLA_ACK"
      <4>1. /\ status \in {"TW_MT_SLA_ACK", "TW_MR_SLA_ACK"} /\ status # "none"
            /\ status \in {"TW_MT_SLA_ACK", "TW_MT_SLA_NACK", "TW_MR_SLA_ACK", "TW_MR_SLA_NACK"}
        BY ONLY <3>1
      <4>2. phase = "address"  BY <4>1, PhaseOf DEF PhaseMeans
      <4>3. transfer.bytes = <<>> /\ ~transfer.nacked /\ transfer.sla = "ack"
        BY <1>3, <4>1, <4>2, ~bus.master DEF AddressInv
      <4>4. masterIndex = 0  BY <1>3, <1>b, <4>2
      <4> QED  BY <4>3, <4>4, HoldsNone
    <3>2. CASE status = "TW_MT_DATA_ACK"
      <4>1. status \in {"none", "TW_MT_DATA_ACK"} /\ status \in {"TW_MT_DATA_ACK", "TW_MT_DATA_NACK"}  BY ONLY <3>2
      <4>2. phase = "mt"  BY <4>1, PhaseOf DEF PhaseMeans
      <4> QED  BY <1>3, <3>2, <4>1, <4>2, ~bus.master DEF SendInv
    <3> QED  BY ONLY <2>1, <3>1, <3>2
  <2>4. twi_error' # "TW_MT_SLA_NACK" /\ twi_error' # "TW_MT_DATA_NACK"
    <3>1. twi_error' = "none"  BY <1>3, <1>b, <2>1
    <3> QED  BY ONLY <3>1
  <2>5. transfer'.sla = "ack" /\ ~transfer'.nacked /\ Holds(transfer'.bytes, masterBuffer', length')
    <3>1. transfer' = transfer /\ length' = length  BY <1>3, <1>b
    <3>2. transfer'.sla = transfer.sla /\ transfer'.nacked = transfer.nacked /\ transfer'.bytes = transfer.bytes
      BY <3>1
    <3>3. Holds(transfer'.bytes, masterBuffer', length')  BY <2>1, <2>2, <2>3, <3>1, <3>2
    <3>4. ~transfer'.nacked  BY ONLY <3>2, <2>3
    <3> QED  BY <2>3, <3>2, <3>3, <3>4
  <2> QED  BY <2>4, <2>5 DEF SentInv
<1>4. CASE Running /\ MasterVect /\ OnRefused
  <2>1. /\ status \in {"TW_MT_SLA_NACK", "TW_MT_DATA_NACK", "TW_BUS_ERROR", "TW_MR_SLA_NACK"}
        /\ twi_error' = IF status = "TW_MR_SLA_NACK" THEN twi_error ELSE status
    BY <1>4, MasterEffect DEF MasterDoes
  <2>2. status # "TW_MR_SLA_NACK"
    <3>1. status = "TW_MR_SLA_NACK" =>
            /\ status \in {"TW_MT_SLA_ACK", "TW_MT_SLA_NACK", "TW_MR_SLA_ACK", "TW_MR_SLA_NACK"}
            /\ status \in {"TW_MR_SLA_ACK", "TW_MR_SLA_NACK"}
      OBVIOUS
    <3> QED  BY <3>1, <1>4, <1>b, PhaseOf DEF PhaseMeans
  <2>3. twi_error' = status /\ status # "none"  BY ONLY <2>1, <2>2
  <2>4. status = "TW_MT_SLA_NACK" => transfer.sla = "nack"
    <3>1. ASSUME status = "TW_MT_SLA_NACK" PROVE transfer.sla = "nack"
      <4>1. /\ status \in {"TW_MT_SLA_NACK", "TW_MR_SLA_NACK"} /\ status # "none"
            /\ status \in {"TW_MT_SLA_ACK", "TW_MT_SLA_NACK", "TW_MR_SLA_ACK", "TW_MR_SLA_NACK"}
        BY ONLY <3>1
      <4>2. phase = "address"  BY <4>1, PhaseOf DEF PhaseMeans
      <4> QED  BY <1>4, <4>1, <4>2, ~bus.master DEF AddressInv
    <3> QED  BY <3>1
  <2>5. status = "TW_MT_DATA_NACK" => transfer.sla = "ack" /\ transfer.nacked
    <3>1. ASSUME status = "TW_MT_DATA_NACK" PROVE transfer.sla = "ack" /\ transfer.nacked
      <4>1. status \in {"TW_MT_DATA_ACK", "TW_MT_DATA_NACK"}  BY ONLY <3>1
      <4>2. phase = "mt"  BY <4>1, PhaseOf DEF PhaseMeans
      <4> QED  BY <1>4, <3>1, <4>2, ~bus.master DEF SendInv
    <3> QED  BY <3>1
  <2>6. transfer' = transfer  BY <1>4, <1>b
  <2>7. /\ twi_error' # "none"
        /\ twi_error' = "TW_MT_SLA_NACK" => transfer'.sla = "nack"
        /\ twi_error' = "TW_MT_DATA_NACK" => transfer'.sla = "ack" /\ transfer'.nacked
    <3>1. transfer'.sla = transfer.sla /\ transfer'.nacked = transfer.nacked  BY <2>6
    <3> QED  BY ONLY <2>3, <2>4, <2>5, <3>1
  <2> QED  BY <2>7 DEF SentInv
<1>5. CASE Running /\ MasterVect /\ OnLastByte
  <2>1. status \in {"TW_MR_DATA_ACK", "TW_MR_DATA_NACK"}  BY ONLY <1>5, MasterEffect DEF MasterDoes
  <2>2. phase = "mr"  BY <2>1, PhaseOf DEF PhaseMeans
  <2> QED  BY <2>2, <1>5, <1>b
<1> QED  BY ~bus.master, pc' = "wait", ~Running', OverFrom, <1>1, <1>2, <1>3, <1>4, <1>5

\* How the driver's side of a request ends.
LEMMA StepFetchOver ==
  ASSUME TypeInv, LineInv, SoleInv, MasterInv, AddressInv, FetchInv, FetchedInv, ~bus.master, [Next]_vars,
         pc' = "wait", ~Running', mode' = "TWI_MRX"
  PROVE  /\ masterIndex' <= length' /\ Holds(transfer'.bytes, masterBuffer', masterIndex')
         /\ transfer'.sla # "ack" \/ twi_error' # "none" \/ (masterIndex' = length' /\ transfer'.nacked)
<1> USE Zenon
<1> DEFINE Goal == /\ masterIndex' <= length' /\ Holds(transfer'.bytes, masterBuffer', masterIndex')
                   /\ transfer'.sla # "ack" \/ twi_error' # "none" \/ (masterIndex' = length' /\ transfer'.nacked)
<1> SUFFICES Goal  OBVIOUS
<1>a. ASSUME ~Running, pc = "wait", UNCHANGED <<transfer, twi_error, masterBuffer, masterIndex, length, mode>> PROVE Goal
  <2>1. /\ masterIndex <= length /\ Holds(transfer.bytes, masterBuffer, masterIndex)
        /\ transfer.sla # "ack" \/ twi_error # "none" \/ (masterIndex = length /\ transfer.nacked)
    BY <1>a DEF FetchedInv
  <2> QED  BY <1>a, <2>1
<1>1. CASE UNCHANGED vars
  <2>1. UNCHANGED <<transfer, twi_error, masterBuffer, masterIndex, length, pc, mode, twi_state>>
    BY <1>1, Tuples DEF Apart
  <2>2. pc = "wait" /\ ~Running  BY <2>1 DEF Running
  <2> QED  BY <2>1, <2>2, <1>a
<1>2. CASE ~Running /\ pc = "wait" /\ Hardware /\ SendRepeatedStart
  <2>1. UNCHANGED <<transfer, twi_error, masterBuffer, masterIndex, length, mode>>
    BY <1>2, HardwareFrame, Tuples DEF SendRepeatedStart, Apart
  <2> QED  BY <2>1, <1>2, <1>a
<1>b. ASSUME Running, MasterVect
      PROVE  /\ mode = "TWI_MRX" /\ transfer' = transfer /\ length' = length
             /\ masterLength = length - 1 /\ masterIndex \in 0..255 /\ masterIndex <= masterLength
             /\ masterLength <= length /\ length \in 0..Size
             /\ phase = "address" => masterIndex = 0
             /\ status \in {"TW_MT_SLA_ACK", "TW_MT_SLA_NACK"} => phase # "address"
             /\ phase # "mt"
  <2>1. mode = "TWI_MRX" /\ transfer' = transfer /\ length' = length
    BY <1>b, MasterFrame, Tuples DEF Apart
  <2>2. mode # "TWI_MTX"  BY ONLY <2>1
  <2> QED  BY <1>b, <2>1, <2>2, RunningFacts DEF RunningMeans
<1>3. CASE Running /\ MasterVect /\ OnMasterTransmit
  <2>1. status \in {"TW_MT_SLA_ACK", "TW_MT_DATA_ACK"}  BY <1>3, MasterEffect DEF MasterDoes
  <2>2. \/ /\ status \in {"TW_MT_SLA_ACK", "TW_MT_SLA_NACK"}
           /\ status \in {"TW_MT_SLA_ACK", "TW_MT_SLA_NACK", "TW_MR_SLA_ACK", "TW_MR_SLA_NACK"}
        \/ status \in {"TW_MT_DATA_ACK", "TW_MT_DATA_NACK"}
    BY ONLY <2>1
  <2> QED  BY <2>2, <1>3, <1>b, PhaseOf DEF PhaseMeans
<1>4. CASE Running /\ MasterVect /\ OnRefused
  <2>1. /\ status \in {"TW_MT_SLA_NACK", "TW_MT_DATA_NACK", "TW_BUS_ERROR", "TW_MR_SLA_NACK"}
        /\ twi_error' = IF status = "TW_MR_SLA_NACK" THEN twi_error ELSE status
        /\ UNCHANGED <<masterIndex, masterBuffer>>
    BY <1>4, MasterEffect, Tuples DEF Apart, MasterDoes
  <2>2. transfer' = transfer /\ length' = length  BY <1>4, <1>b
  <2>3. masterIndex' <= length'
    <3>1. masterIndex \in 0..255 /\ masterIndex <= masterLength /\ masterLength <= length /\ length \in 0..Size
      BY <1>4, <1>b
    <3>2. masterLength \in 0..255  BY DEF TypeInv, MasterType
    <3>3. masterIndex <= length  BY ONLY <3>1, <3>2, Constants
    <3> QED  BY <2>1, <2>2, <3>3
  <2>4. ASSUME phase = "address" PROVE Holds(transfer.bytes, masterBuffer, masterIndex)
    <3>1. status # "none"  BY ONLY <2>1
    <3>2. transfer.bytes = <<>>  BY <1>4, <2>4, <3>1 DEF AddressInv
    <3>3. masterIndex = 0  BY <1>4, <1>b, <2>4
    <3> QED  BY <3>2, <3>3, HoldsNone
  <2>5. CASE status = "TW_MR_SLA_NACK"
    <3>1. /\ status \in {"TW_MT_SLA_NACK", "TW_MR_SLA_NACK"} /\ status # "none"
          /\ status \in {"TW_MT_SLA_ACK", "TW_MT_SLA_NACK", "TW_MR_SLA_ACK", "TW_MR_SLA_NACK"}
      BY ONLY <2>5
    <3>2. phase = "address"  BY <3>1, PhaseOf DEF PhaseMeans
    <3>3. transfer.sla = "nack"  BY <1>4, <3>1, <3>2 DEF AddressInv
    <3>4. transfer'.sla # "ack"
      <4>1. transfer'.sla = "nack"  BY <2>2, <3>3
      <4> QED  BY ONLY <4>1
    <3>5. Holds(transfer'.bytes, masterBuffer', masterIndex')  BY <2>1, <2>2, <2>4, <3>2
    <3> QED  BY <2>3, <3>4, <3>5
  <2>6. CASE status = "TW_BUS_ERROR"
    <3>1. twi_error' # "none" /\ status \in {"none", "TW_BUS_ERROR"} /\ status # "none" /\ status # "TW_MR_SLA_NACK"
      <4>1. status # "TW_MR_SLA_NACK"  BY ONLY <2>6
      <4>2. twi_error' = status  BY <2>1, <4>1
      <4> QED  BY ONLY <2>6, <4>2
    <3>2. phase \in {"address", "mr"}
      <4>1. phase \in {"off", "idle", "restart", "address", "mt", "mr"}  BY DEF SoleInv
      <4>2. phase # "mt"  BY <1>4, <1>b
      <4> QED  BY ONLY <4>1, <4>2, <2>6, LineInv DEF LineInv, StatusIn
    <3>3. Holds(transfer.bytes, masterBuffer, masterIndex)
      <4>1. CASE phase = "address"  BY <2>4, <4>1
      <4>2. CASE phase = "mr"  BY <1>4, <3>1, <4>2 DEF FetchInv
      <4> QED  BY <3>2, <4>1, <4>2
    <3>4. Holds(transfer'.bytes, masterBuffer', masterIndex')  BY <2>1, <2>2, <3>3
    <3> QED  BY <2>3, <3>1, <3>4
  <2>7. status \notin {"TW_MT_SLA_NACK", "TW_MT_DATA_NACK"}
    <3>1. status \in {"TW_MT_SLA_NACK", "TW_MT_DATA_NACK"} =>
            \/ /\ status \in {"TW_MT_SLA_ACK", "TW_MT_SLA_NACK"}
               /\ status \in {"TW_MT_SLA_ACK", "TW_MT_SLA_NACK", "TW_MR_SLA_ACK", "TW_MR_SLA_NACK"}
            \/ status \in {"TW_MT_DATA_ACK", "TW_MT_DATA_NACK"}
      OBVIOUS
    <3> QED  BY <3>1, <1>4, <1>b, PhaseOf DEF PhaseMeans
  <2>8. status = "TW_MR_SLA_NACK" \/ status = "TW_BUS_ERROR"  BY ONLY <2>1, <2>7
  <2> QED  BY <2>5, <2>6, <2>8
<1>5. CASE Running /\ MasterVect /\ OnLastByte
  <2>1. /\ status = "TW_MR_DATA_NACK" /\ status \in {"TW_MR_DATA_ACK", "TW_MR_DATA_NACK"}
        /\ masterBuffer' = [masterBuffer EXCEPT ![masterIndex] = twdr] /\ masterIndex' = UInt8(masterIndex + 1)
    <3>1. /\ status = "TW_MR_DATA_NACK" /\ masterIndex' = UInt8(masterIndex + 1)
          /\ masterBuffer' = [masterBuffer EXCEPT ![masterIndex] = twdr]
      BY <1>5, MasterEffect DEF MasterDoes
    <3>2. status \in {"TW_MR_DATA_ACK", "TW_MR_DATA_NACK"}  BY ONLY <3>1
    <3> QED  BY <3>1, <3>2
  <2>2. Holds(transfer.bytes, masterBuffer', masterIndex') /\ masterIndex' = masterIndex + 1 /\ masterLength = length - 1
    BY <2>1, <1>5, FetchStores
  <2>3. phase = "mr"  BY <2>1, PhaseOf DEF PhaseMeans
  <2>4. masterIndex = masterLength /\ transfer.nacked
    BY <2>1, <2>3, <1>5 DEF FetchInv
  <2>5. transfer' = transfer /\ length' = length /\ length \in 0..Size  BY <1>5, <1>b
  <2>6. masterIndex' = length /\ length <= length  BY ONLY <2>2, <2>4, <2>5, Constants
  <2>7. transfer'.nacked  BY ONLY <2>4, <2>5
  <2>8. Holds(transfer'.bytes, masterBuffer', masterIndex') /\ masterIndex' = length' /\ masterIndex' <= length'
    BY <2>2, <2>5, <2>6
  <2> QED  BY <2>7, <2>8
<1> HIDE DEF Goal
<1> QED  BY OverFrom, <1>1, <1>2, <1>3, <1>4, <1>5

\* When a read is over, the buffer holds what was read.
LEMMA StepFetched ==
  ASSUME TypeInv, LineInv, SoleInv, ComposeInv, MasterInv, AddressInv, FetchInv, FetchedInv, [Next]_vars
  PROVE  FetchedInv'
<1> USE Zenon
<1>0. bus' = bus  BY Steps
<1> SUFFICES ASSUME ~bus.master PROVE FetchedInv'  BY <1>0, Zenon DEF FetchedInv
<1>a. pc' = "wait" /\ ~Running' /\ mode' = "TWI_MRX" =>
        /\ masterIndex' <= length' /\ Holds(transfer'.bytes, masterBuffer', masterIndex')
        /\ transfer'.sla # "ack" \/ twi_error' # "none" \/ (masterIndex' = length' /\ transfer'.nacked)
  BY ~bus.master, StepFetchOver
<1> SUFFICES ASSUME pc' = "requested"
             PROVE  /\ Holds(transfer'.bytes, rxBuffer', length')
                    /\ transfer'.sla # "ack" \/ twi_error' # "none" \/ (length' = asked' /\ transfer'.nacked)
  BY <1>a, Zenon DEF FetchedInv
<1>b. ASSUME pc = "requested", UNCHANGED <<transfer, rxBuffer, length, twi_error, asked>>
      PROVE  /\ Holds(transfer'.bytes, rxBuffer', length')
             /\ transfer'.sla # "ack" \/ twi_error' # "none" \/ (length' = asked' /\ transfer'.nacked)
  <2>1. /\ Holds(transfer.bytes, rxBuffer, length)
        /\ transfer.sla # "ack" \/ twi_error # "none" \/ (length = asked /\ transfer.nacked)
    BY <1>b, ~bus.master DEF FetchedInv
  <2> QED  BY <1>b, <2>1
<1>1. CASE UNCHANGED vars
  <2>1. UNCHANGED <<pc, transfer, rxBuffer, length, twi_error, asked>>  BY <1>1, Tuples DEF Apart
  <2> QED  BY <2>1, <1>b, pc' = "requested"
<1>2. CASE twi_readFrom_return
  <2>1. /\ pc = "wait" /\ mode = "TWI_MRX" /\ twi_state # mode /\ length' = ReadLength
        /\ rxBuffer' = [i \in Slot |-> IF i < length' THEN masterBuffer[i] ELSE rxBuffer[i]]
        /\ UNCHANGED <<transfer, twi_error, asked>>
    BY <1>2, Tuples DEF twi_readFrom_return, Done, Apart
  <2>2. ~Running  BY <2>1 DEF Running
  <2>3. /\ masterIndex <= length /\ Holds(transfer.bytes, masterBuffer, masterIndex)
        /\ transfer.sla # "ack" \/ twi_error # "none" \/ (masterIndex = length /\ transfer.nacked)
    BY <2>1, <2>2, ~bus.master DEF FetchedInv
  <2>4. masterIndex \in 0..255 /\ length \in 0..Size /\ asked = length
    <3>1. pc \in InCall  BY ONLY <2>1 DEF InCall
    <3> QED  BY <2>1, <3>1, ~bus.master DEF TypeInv, MasterType, CallType, ComposeInv
  <2>5. length' = masterIndex  BY ONLY <2>1, <2>3, <2>4, Constants DEF ReadLength
  <2>6. ASSUME NEW i \in 1..masterIndex PROVE rxBuffer'[i - 1] = masterBuffer[i - 1]
    <3>1. i - 1 \in Cell /\ i - 1 < masterIndex  BY ONLY <2>3, <2>4, <2>6, Constants
    <3>2. i - 1 \in Slot  BY ONLY <3>1, Constants
    <3> QED  BY <2>1, <2>5, <3>1, <3>2
  <2>7. Holds(transfer.bytes, rxBuffer', masterIndex)  BY <2>3, <2>6 DEF Holds
  <2>8. Holds(transfer'.bytes, rxBuffer', length')  BY <2>1, <2>5, <2>7
  <2>9. length' = length => length' = asked'  BY <2>1, <2>4
  <2>10. transfer'.sla = transfer.sla /\ transfer'.nacked = transfer.nacked  BY <2>1
  <2> QED  BY <2>1, <2>3, <2>5, <2>8, <2>9, <2>10
<1>3. CASE Quiet /\ ~twi_readFrom_return
  <2>1. pc' # "requested"
    <3>1. CASE onReceive \/ onRequest \/ beginTransmission \/ read
      <4>1. pc' = "idle"  BY <3>1, Tuples DEF onReceive, onRequest, beginTransmission, read, SketchIdle, Apart
      <4> QED  BY ONLY <4>1
    <3>2. CASE write \/ write_store \/ requestFrom_return \/ twi_writeTo_return
      <4>1. pc' = "store" \/ pc' = "idle"
        BY <3>2 DEF write, write_store, requestFrom_return, twi_writeTo_return
      <4> QED  BY ONLY <4>1
    <3>3. CASE endTransmission \/ requestFrom
      <4>1. pc' = "ready" \/ pc' = "idle"
        BY <3>3, Tuples DEF endTransmission, requestFrom, Call, SketchIdle, Apart
      <4> QED  BY ONLY <4>1
    <3> QED  BY <1>3, <3>1, <3>2, <3>3 DEF Quiet
  <2> QED  BY <2>1, pc' = "requested"
<1>4. CASE begin \/ Driver
  <2>1. pc' # "requested"
    <3>1. CASE begin
      <4>1. pc' = "idle"  BY <3>1 DEF begin
      <4> QED  BY ONLY <4>1
    <3>2. CASE Driver  BY ONLY <3>2, Places DEF InCall
    <3> QED  BY <1>4, <3>1, <3>2
  <2> QED  BY <2>1, pc' = "requested"
<1>5. CASE Running /\ (MasterVect \/ Hardware)
  <2>1. pc = "wait" /\ pc' = pc  BY <1>5, MasterFrame, HardwareFrame, Tuples DEF Running, Apart
  <2> QED  BY ONLY <2>1, pc' = "requested"
<1>6. CASE Hardware /\ SendRepeatedStart
  <2>1. UNCHANGED <<pc, transfer, rxBuffer, length, twi_error, asked>>
    BY <1>6, HardwareFrame, Tuples DEF SendRepeatedStart, Apart
  <2> QED  BY <2>1, <1>b, pc' = "requested"
<1>7. UNCHANGED vars \/ SoleStep  BY SoleSteps, ~bus.master
<1> QED  BY <1>1, <1>2, <1>3, <1>4, <1>5, <1>6, <1>7 DEF SoleStep

-----------------------------------------------------------------------------
(* The messages of another master.                                          *)

\* A byte that has come and is not stored yet.
LEMMA KeptMore ==
  ASSUME NEW s \in Seq(Byte), NEW d \in Byte, NEW buffer, NEW k, Kept(s, Len(s), buffer, k)
  PROVE  /\ Len(Append(s, d)) > 0 /\ Append(s, d)[Len(Append(s, d))] = d
         /\ Kept(Append(s, d), Len(Append(s, d)) - 1, buffer, k)
         /\ k = Size => Kept(Append(s, d), Len(Append(s, d)), buffer, k)
<1> USE Zenon
<1>1. PICK n \in Nat : n = Len(s)  BY ONLY s \in Seq(Byte), ByteSequence
<1>2. /\ Len(Append(s, d)) = n + 1 /\ Append(s, d)[n + 1] = d
      /\ \A i \in 1..n : Append(s, d)[i] = s[i]
  BY ONLY <1>1, s \in Seq(Byte), d \in Byte, ByteAppended
<1>3. k = (IF n < Size THEN n ELSE Size) /\ \A i \in 1..k : s[i] = buffer[i - 1]
  BY <1>1 DEF Kept
<1>4. k \in 0..n /\ (n + 1) - 1 = n /\ n + 1 > 0 /\ (k = Size => Size = IF n + 1 < Size THEN n + 1 ELSE Size)
  BY ONLY <1>1, <1>3, Constants
<1>5. ASSUME NEW i \in 1..k PROVE Append(s, d)[i] = buffer[i - 1]
  <2>1. i \in 1..n  BY ONLY <1>4, <1>5
  <2> QED  BY <2>1, <1>2, <1>3
<1>6. Kept(Append(s, d), n, buffer, k)  BY <1>3, <1>5 DEF Kept
<1>7. k = Size => Kept(Append(s, d), n + 1, buffer, k)  BY <1>4, <1>5 DEF Kept
<1> QED  BY <1>2, <1>4, <1>6, <1>7

\* A byte stored: the buffer keeps one more.
LEMMA KeptStore ==
  ASSUME NEW s \in Seq(Byte), NEW buffer \in [Cell -> Byte], NEW k \in 0..Size,
         Len(s) > 0, Kept(s, Len(s) - 1, buffer, k)
  PROVE  IF k < Size
         THEN UInt8(k + 1) = k + 1 /\ Kept(s, Len(s), [buffer EXCEPT ![k] = s[Len(s)]], k + 1)
         ELSE k = Size /\ Kept(s, Len(s), buffer, k)
<1> USE Zenon
<1>1. PICK n \in Nat : n = Len(s) /\ n > 0  BY ONLY s \in Seq(Byte), Len(s) > 0, ByteSequence
<1>2. k = (IF n - 1 < Size THEN n - 1 ELSE Size) /\ \A i \in 1..k : s[i] = buffer[i - 1]
  BY <1>1, Kept(s, Len(s) - 1, buffer, k) DEF Kept
<1>3. CASE k < Size
  <2>1. k + 1 = n /\ k \in Cell /\ k + 1 \in 0..255 /\ (k + 1 = IF n < Size THEN n ELSE Size)
    <3>1. Size \in Nat /\ Size <= 254 /\ k \in 0..Size  BY ONLY Constants, k \in 0..Size
    <3>2. k + 1 = n  BY ONLY <1>1, <1>2, <1>3, <3>1
    <3>3. k + 1 \in 0..255 /\ (k + 1 = IF n < Size THEN n ELSE Size)  BY ONLY <1>3, <3>1, <3>2
    <3>4. k \in Cell  BY ONLY <1>3, <3>1, Constants
    <3> QED  BY <3>2, <3>3, <3>4
  <2>2. UInt8(k + 1) = k + 1  BY <2>1, UInt8Same
  <2>3. ASSUME NEW i \in 1..(k + 1) PROVE s[i] = [buffer EXCEPT ![k] = s[Len(s)]][i - 1]
    <3>1. CASE i = k + 1
      <4>1. i - 1 = k  BY ONLY <3>1, k \in 0..Size, Constants
      <4> QED  BY <3>1, <4>1, <2>1, <1>1
    <3>2. CASE i # k + 1
      <4>1. i \in 1..k /\ i - 1 # k /\ 0 <= i - 1 /\ i - 1 < Size /\ i - 1 \in Int
        BY ONLY <2>3, <3>2, k \in 0..Size, Constants
      <4>2. i - 1 \in Cell  BY <4>1, Constants
      <4>3. [buffer EXCEPT ![k] = s[Len(s)]][i - 1] = buffer[i - 1]
        BY <4>1, <4>2
      <4> QED  BY <4>1, <4>3, <1>2
    <3> QED  BY ONLY <3>1, <3>2
  <2>4. Kept(s, Len(s), [buffer EXCEPT ![k] = s[Len(s)]], k + 1)  BY <1>1, <2>1, <2>3 DEF Kept
  <2> QED  BY <1>3, <2>2, <2>4
<1>4. CASE ~(k < Size)
  <2>1. k = Size /\ (k = IF n < Size THEN n ELSE Size)  BY ONLY <1>1, <1>2, <1>4, k \in 0..Size, Constants
  <2>2. Kept(s, Len(s), buffer, k)  BY <1>1, <1>2, <2>1 DEF Kept
  <2> QED  BY <1>4, <2>1, <2>2
<1> QED  BY <1>3, <1>4

\* The slave's buffer keeps the start of the message on the bus.
LEMMA StepMessage ==
  ASSUME TypeInv, LineInv, MessageInv, [Next]_vars
  PROVE  MessageInv'
<1> USE Zenon
<1>0. bus' = bus  BY Steps
<1> SUFFICES ASSUME ~bus.slow PROVE MessageInv'  BY <1>0, Zenon DEF MessageInv
<1>a. /\ isr \in {"onSlaveReceive", "received"} => status = "none"
      /\ isr = "onSlaveReceive" => Kept(heard, Len(heard), slaveRx, slaveRxIndex)
      /\ status \in AddressedReceive => heard = <<>>
      /\ phase = "sr" =>
           /\ status # "TW_SR_DATA_ACK" => Kept(heard, Len(heard), slaveRx, slaveRxIndex)
           /\ status = "none" /\ ~twea => slaveRxIndex = Size
           /\ status = "TW_SR_DATA_ACK" => /\ Len(heard) > 0 /\ heard[Len(heard)] = twdr
                                           /\ Kept(heard, Len(heard) - 1, slaveRx, slaveRxIndex)
  BY ~bus.slow DEF MessageInv
<1>b. /\ heard \in Seq(Byte) /\ slaveRx \in [Cell -> Byte] /\ slaveRxIndex \in 0..Size /\ twea \in BOOLEAN
  BY DEF TypeInv, HistoryType, SlaveType, PlainType
<1>c. /\ "none" \notin AddressedReceive /\ "none" # "TW_SR_DATA_ACK"
      /\ AddressedReceive \cap AddressedTransmit = {}
      /\ isr = "none" => isr \notin {"onSlaveReceive", "received"} /\ isr # "onSlaveReceive"
  BY ONLY DEF AddressedReceive, AddressedTransmit
\* No message is being received afterwards.
<1>d. ASSUME phase' # "sr", isr' \notin {"onSlaveReceive", "received"}, status' \in AddressedReceive => heard' = <<>>
      PROVE  MessageInv'
  <2>1. isr' # "onSlaveReceive"  BY ONLY <1>d
  <2> QED  BY <1>d, <2>1 DEF MessageInv
\* Nothing that matters changes.
<1>e. ASSUME UNCHANGED <<status, phase, twdr, isr, heard, slaveRx, slaveRxIndex>>, twea' \in {twea, TRUE} PROVE MessageInv'
  <2>1. status' = "none" /\ ~twea' => status = "none" /\ ~twea  BY <1>e, <1>b
  <2>2. phase' = "sr" /\ status' = "none" /\ ~twea' => slaveRxIndex' = Size  BY <1>a, <1>e, <2>1
  <2> QED  BY <1>a, <1>e, <2>2 DEF MessageInv
<1>1. CASE UNCHANGED vars \/ Quiet
  <2>1. UNCHANGED <<status, phase, twdr, twea, isr, heard, slaveRx, slaveRxIndex>>
    BY <1>1, QuietFrame, Tuples DEF Apart
  <2>2. twea' \in {twea, TRUE}  BY ONLY <2>1
  <2> QED  BY <2>1, <2>2, <1>e
<1>2. CASE begin
  <2>1. pc = "off" /\ UNCHANGED <<status, isr>>  BY <1>2 DEF begin, twi_init
  <2>2. phase = "off" /\ isr = "none" /\ status = "none"  BY ONLY <2>1, LineInv DEF LineInv, StatusIn
  <2>3. phase' = "idle"  BY <1>2, <2>2 DEF begin, twi_init
  <2>4. phase' # "sr" /\ isr' \notin {"onSlaveReceive", "received"}  BY ONLY <2>1, <2>2, <2>3
  <2> QED  BY <2>1, <2>2, <2>4, <1>c, <1>d
<1>3. CASE Driver /\ ~Start
  <2>1. UNCHANGED <<status, phase, twdr, twea, isr, heard, slaveRx, slaveRxIndex>>
    BY <1>3, DriverFrame, Tuples DEF Apart
  <2>2. twea' \in {twea, TRUE}  BY ONLY <2>1
  <2> QED  BY <2>1, <2>2, <1>e
<1>4. CASE Driver /\ Start
  <2>0. pc = "start" /\ pc # "off" /\ SketchRuns
    <3>1. pc = "start" /\ SketchRuns  BY <1>4, StartEffect DEF StartDoes
    <3> QED  BY ONLY <3>1
  <2>1. isr = "none" /\ UNCHANGED <<isr, heard, slaveRx, slaveRxIndex>>
    BY <1>4, <2>0, SketchLine, StartEffect, Tuples DEF Apart, StartDoes
  <2>2. CASE twi_inRepStart
    <3>1. phase' = "address" /\ status' = "none"  BY <1>4, <2>2, StartEffect DEF After, StartDoes
    <3>2. phase' # "sr"  BY ONLY <3>1
    <3> QED  BY <2>1, <3>1, <3>2, <1>c, <1>d
  <2>3. CASE ~twi_inRepStart
    <3>1. status = "none"  BY <2>0, <2>3, SketchLine
    <3>2. PhaseAfter(status, phase, TRUE, FALSE) = phase
      BY ONLY <3>1 DEF PhaseAfter, AddressedReceive, AddressedTransmit
    <3>3. UNCHANGED <<status, phase, twdr>> /\ twea' = TRUE
      BY <1>4, <2>3, <3>1, <3>2, StartEffect DEF After, StartDoes
    <3>4. twea' \in {twea, TRUE}  BY ONLY <3>3
    <3> QED  BY <2>1, <3>3, <3>4, <1>e
  <2> QED  BY <2>2, <2>3
<1>5. CASE MasterVect
  <2>1. isr' = "none"  BY <1>5, MasterVectNone, MasterFrame
  <2>2. status' = "none" /\ phase' \in {"address", "mt", "mr", "idle", "restart"}
    <3>1. "address" \in {"address", "mt", "mr", "idle", "restart"} /\ "mt" \in {"address", "mt", "mr", "idle", "restart"}
          /\ "mr" \in {"address", "mt", "mr", "idle", "restart"} /\ "idle" \in {"address", "mt", "mr", "idle", "restart"}
          /\ "restart" \in {"address", "mt", "mr", "idle", "restart"}
      OBVIOUS
    <3>2. Ended => status' = "none" /\ phase' \in {"address", "mt", "mr", "idle", "restart"}
      BY <3>1 DEF Ended, After
    <3> QED  BY <1>5, <3>1, <3>2, MasterEffect DEF MasterVect, After, MasterDoes
  <2>3. phase' # "sr" /\ isr' \notin {"onSlaveReceive", "received"}  BY ONLY <2>1, <2>2
  <2> QED  BY <2>2, <2>3, <1>c, <1>d
<1>6. CASE SlaveVect
  <2>0. ASSUME NEW p \in {"idle", "st"}, NEW ea, After(p, TRUE, ea, FALSE), isr' = "none" PROVE MessageInv'
    <3>1. status' = "none" /\ phase' # "sr" /\ isr' \notin {"onSlaveReceive", "received"}  BY ONLY <2>0 DEF After
    <3> QED  BY <3>1, <1>c, <1>d
  <2>a. "idle" \in {"idle", "st"} /\ "st" \in {"idle", "st"}  OBVIOUS
  <2>1. CASE OnAddressedReceive
    <3>1. /\ status \in AddressedReceive /\ phase' = "sr" /\ status' = "none" /\ twea' = TRUE /\ slaveRxIndex' = 0
          /\ UNCHANGED <<slaveRx, isr, heard>>
      BY <2>1, SlaveEffect DEF After, SlaveDoes
    <3>2. isr = "none"  BY <2>1 DEF OnAddressedReceive, Handle, Interrupt
    <3>3. heard' = <<>>  BY <3>1, <1>a
    <3>4. Kept(<<>>, Len(<<>>), slaveRx, 0)  BY ONLY Constants DEF Kept
    <3>5. Kept(heard', Len(heard'), slaveRx', slaveRxIndex')  BY <3>1, <3>3, <3>4
    <3> QED  BY <3>1, <3>2, <3>5, <1>c DEF MessageInv
  <2>2. CASE OnSlaveData
    <3>1. status = "TW_SR_DATA_ACK" /\ UNCHANGED <<isr, heard>> /\ phase' = "sr" /\ status' = "none"
      BY <2>2, SlaveEffect DEF After, SlaveDoes
    <3>2. isr = "none"  BY <2>2 DEF OnSlaveData, Handle, Interrupt
    <3>3. phase = "sr"
      <4>1. status \in {"TW_SR_DATA_ACK", "TW_SR_DATA_NACK", "TW_SR_STOP"}  BY ONLY <3>1
      <4> QED  BY <4>1, PhaseOf DEF PhaseMeans
    <3>4. /\ Len(heard) > 0 /\ heard[Len(heard)] = twdr /\ Kept(heard, Len(heard) - 1, slaveRx, slaveRxIndex)
      BY <3>1, <3>3, <1>a
    <3>5. /\ slaveRxIndex < Size => /\ UInt8(slaveRxIndex + 1) = slaveRxIndex + 1
                                    /\ Kept(heard, Len(heard), [slaveRx EXCEPT ![slaveRxIndex] = twdr], slaveRxIndex + 1)
          /\ ~(slaveRxIndex < Size) => slaveRxIndex = Size /\ Kept(heard, Len(heard), slaveRx, slaveRxIndex)
      BY <3>4, <1>b, KeptStore
    <3>6. Kept(heard', Len(heard'), slaveRx', slaveRxIndex') /\ (~twea' => slaveRxIndex' = Size)
      <4>1. CASE slaveRxIndex < Size
        <5>1. /\ slaveRx' = [slaveRx EXCEPT ![slaveRxIndex] = twdr] /\ slaveRxIndex' = UInt8(slaveRxIndex + 1)
              /\ twea' = TRUE
          BY <2>2, <4>1, SlaveEffect DEF After, SlaveDoes
        <5> QED  BY <3>1, <3>5, <4>1, <5>1
      <4>2. CASE ~(slaveRxIndex < Size)
        <5>1. UNCHANGED <<slaveRx, slaveRxIndex>>  BY <2>2, <4>2, SlaveEffect DEF SlaveDoes
        <5> QED  BY <3>1, <3>5, <4>2, <5>1
      <4> QED  BY <4>1, <4>2
    <3> QED  BY <3>1, <3>2, <3>6, <1>c DEF MessageInv
  <2>3. CASE OnSlaveRefused
    <3>1. isr = "none"  BY <2>3 DEF OnSlaveRefused, Handle, Interrupt
    <3> QED  BY <2>0, <2>3, <2>a, <3>1, SlaveEffect DEF SlaveDoes
  <2>4. CASE OnSlaveStop
    <3>1. /\ status = "TW_SR_STOP" /\ phase' = "idle" /\ status' = "none" /\ isr' = "onSlaveReceive"
          /\ slaveRx' = [i \in Cell |-> IF i = slaveRxIndex THEN Null ELSE slaveRx[i]]
          /\ UNCHANGED <<slaveRxIndex, heard>>
      BY <2>4, SlaveEffect DEF After, SlaveDoes
    <3>2. status \in {"TW_SR_DATA_ACK", "TW_SR_DATA_NACK", "TW_SR_STOP"} /\ status # "TW_SR_DATA_ACK" /\ phase' # "sr"
      BY ONLY <3>1
    <3>3. phase = "sr"  BY <3>2, PhaseOf DEF PhaseMeans
    <3>4. Kept(heard, Len(heard), slaveRx, slaveRxIndex)  BY <3>2, <3>3, <1>a
    <3>5. ASSUME NEW i \in 1..slaveRxIndex PROVE slaveRx'[i - 1] = slaveRx[i - 1]
      <4>1. i - 1 \in Cell /\ i - 1 # slaveRxIndex  BY ONLY <3>5, <1>b, Constants
      <4> QED  BY <3>1, <4>1
    <3>6. Kept(heard, Len(heard), slaveRx', slaveRxIndex)  BY <3>4, <3>5 DEF Kept
    <3>7. Kept(heard', Len(heard'), slaveRx', slaveRxIndex')  BY <3>1, <3>6
    <3> QED  BY <3>1, <3>2, <3>7, <1>c DEF MessageInv
  <2>5. CASE OnSlaveStopDone
    <3>1. /\ isr = "received" /\ isr' = "none"
          /\ After(PhaseAfter(status, phase, FALSE, FALSE), TRUE, TRUE, FALSE)
      BY <2>5, StopDoneEffect DEF StopDoneDoes
    <3>2. isr \in {"onSlaveReceive", "received"}  BY ONLY <3>1
    <3>3. status = "none" /\ phase = "idle"  BY <3>2, <1>a DEF LineInv
    <3>4. PhaseAfter(status, phase, FALSE, FALSE) = "idle"
      BY ONLY <3>3 DEF PhaseAfter, AddressedReceive, AddressedTransmit
    <3> QED  BY <2>0, <2>a, <3>1, <3>4
  <2>6. CASE OnAddressedTransmit
    <3>1. status \in AddressedTransmit /\ isr' = "onSlaveTransmit" /\ UNCHANGED <<status, phase>>
      BY <2>6, SlaveEffect, Tuples DEF Apart, SlaveDoes
    <3>2. phase \in {"idle", "address"}
      <4>1. status \in AddressedReceive \cup AddressedTransmit  BY ONLY <3>1
      <4> QED  BY <4>1, PhaseOf DEF PhaseMeans
    <3>3. phase' # "sr" /\ isr' \notin {"onSlaveReceive", "received"} /\ status' \notin AddressedReceive
      BY ONLY <3>1, <3>2, <1>c
    <3> QED  BY <3>3, <1>d
  <2>7. CASE OnFilled
    <3>1. isr \in {"onSlaveTransmit", "filled"}  BY ONLY <2>7 DEF OnFilled
    <3>2. status \in AddressedTransmit  BY <3>1 DEF LineInv
    <3> QED  BY <2>0, <2>7, <2>a, <3>2, FilledEffect DEF FilledDoes
  <2>8. CASE OnSlaveByteSent \/ OnSlaveSent
    <3>1. isr = "none"  BY <2>8 DEF OnSlaveByteSent, OnSlaveSent, Handle, Interrupt
    <3> QED  BY <2>0, <2>8, <2>a, <3>1, SlaveEffect DEF SlaveDoes
  <2> QED  BY <1>6, <2>1, <2>2, <2>3, <2>4, <2>5, <2>6, <2>7, <2>8 DEF SlaveVect
<1>7. CASE onReceiveService
  <2>1. isr = "onSlaveReceive" /\ isr' = "received" /\ UNCHANGED <<status, phase>>
    BY <1>7, CallbackFrame, Tuples DEF onReceiveService, Apart, CallbacksKeep
  <2>2. isr \in {"onSlaveReceive", "received"} /\ isr' # "onSlaveReceive"  BY ONLY <2>1
  <2>3. status = "none" /\ phase = "idle"  BY <2>2, <1>a DEF LineInv
  <2>4. phase' # "sr"  BY ONLY <2>1, <2>3
  <2> QED  BY <2>1, <2>2, <2>3, <2>4, <1>c DEF MessageInv
<1>8. CASE onRequestService
  <2>1. isr = "onSlaveTransmit" /\ isr' = "filled" /\ UNCHANGED <<status, phase>>
    BY <1>8, CallbackFrame, Tuples DEF onRequestService, Apart, CallbacksKeep
  <2>2. isr \in {"onSlaveTransmit", "filled"} /\ isr' \notin {"onSlaveReceive", "received"}  BY ONLY <2>1
  <2>3. status \in AddressedTransmit /\ status \in AddressedReceive \cup AddressedTransmit
    <3>1. status \in AddressedTransmit  BY <2>2 DEF LineInv
    <3> QED  BY ONLY <3>1
  <2>4. phase \in {"idle", "address"}  BY <2>3, PhaseOf DEF PhaseMeans
  <2>5. phase' # "sr" /\ status' \notin AddressedReceive  BY ONLY <2>1, <2>3, <2>4, <1>c
  <2> QED  BY <2>2, <2>5, <1>d
<1>9. CASE Hardware
  <2>0. status = "none" /\ isr = "none" /\ UNCHANGED <<isr, phase, twea, slaveRx, slaveRxIndex>>
    BY <1>9, ~bus.slow, HardwareFrame, Tuples DEF Apart
  <2>1. CASE SlaveDataReceived
    <3>1. PICK d \in bus.data : twdr' = d /\ heard' = Append(heard, d)  BY <2>1 DEF SlaveDataReceived
    <3>2. d \in Byte
      <4>1. bus.data \subseteq Byte  BY BusFacts DEF TypeInv, PlainType
      <4> QED  BY ONLY <4>1, <3>1
    <3>3. phase = "sr" /\ status' = (IF twea THEN "TW_SR_DATA_ACK" ELSE "TW_SR_DATA_NACK")
      BY <2>1 DEF SlaveDataReceived, Raise
    <3>4. Kept(heard, Len(heard), slaveRx, slaveRxIndex) /\ (~twea => slaveRxIndex = Size)
      BY <2>0, <3>3, <1>a, <1>c
    <3>5. /\ Len(heard') > 0 /\ heard'[Len(heard')] = twdr'
          /\ Kept(heard', Len(heard') - 1, slaveRx', slaveRxIndex')
          /\ slaveRxIndex = Size => Kept(heard', Len(heard'), slaveRx', slaveRxIndex')
      BY <2>0, <3>1, <3>2, <3>4, <1>b, KeptMore
    <3>6. /\ status' # "none" /\ status' \notin AddressedReceive
          /\ status' # "TW_SR_DATA_ACK" => ~twea
      BY ONLY <3>3, <1>b DEF AddressedReceive
    <3> QED  BY <2>0, <3>4, <3>5, <3>6, <1>c DEF MessageInv
  <2>2. CASE SlaveStopReceived \/ BusError
    <3>1. status' \in {"TW_SR_STOP", "TW_BUS_ERROR"} /\ heard' = heard
      BY <2>2, Tuples DEF SlaveStopReceived, BusError, Raise, Apart
    <3>2. status' # "none" /\ status' # "TW_SR_DATA_ACK" /\ status' \notin AddressedReceive
      BY ONLY <3>1 DEF AddressedReceive
    <3>3. phase = "sr" => Kept(heard', Len(heard'), slaveRx', slaveRxIndex')  BY <2>0, <3>1, <1>a, <1>c
    <3> QED  BY <2>0, <3>2, <3>3, <1>c DEF MessageInv
  <2>3. CASE Addressed
    <3>1. phase \in {"idle", "address"} /\ (heard' = <<>> \/ status' \in AddressedTransmit)
      BY <2>3 DEF Addressed, Raise, AddressedTransmit
    <3>2. phase' # "sr" /\ isr' \notin {"onSlaveReceive", "received"} /\ (status' \in AddressedReceive => heard' = <<>>)
      BY ONLY <2>0, <3>1, <1>c
    <3> QED  BY <3>2, <1>d
  <2>4. CASE SendStart \/ SendRepeatedStart \/ AddressAnswered \/ DataSent \/ DataReceived \/ ArbitrationLost \/ SlaveDataSent
    <3>1. phase \in {"idle", "restart", "address", "mt", "mr", "st"}
      BY <2>4 DEF SendStart, SendRepeatedStart, AddressAnswered, DataSent, DataReceived, ArbitrationLost,
         SlaveDataSent
    <3>2. status' \notin AddressedReceive
      <4>1. CASE AddressAnswered  BY ONLY <4>1 DEF AddressAnswered, Raise, AddressedReceive
      <4>2. CASE SendStart \/ SendRepeatedStart \/ DataSent \/ DataReceived \/ ArbitrationLost \/ SlaveDataSent
        BY <4>2 DEF SendStart, SendRepeatedStart, DataSent, DataReceived, ArbitrationLost, SlaveDataSent,
           Raise, AddressedReceive
      <4> QED  BY <2>4, <4>1, <4>2
    <3>3. phase' # "sr" /\ isr' \notin {"onSlaveReceive", "received"}  BY ONLY <2>0, <3>1
    <3> QED  BY <3>2, <3>3, <1>d
  <2> QED  BY <1>9, <2>1, <2>2, <2>3, <2>4 DEF Hardware, PeripheralNext
<1> QED  BY Steps, <1>1, <1>2, <1>3, <1>4, <1>5, <1>6, <1>7, <1>8, <1>9

-----------------------------------------------------------------------------
(* A slave without transfers of its own.                                    *)

\* A slave whose sketch starts no transfer is never master.
LEMMA SlaveSteps ==
  ASSUME TypeInv, LineInv, SlaveInv, bus.master, bus.transfers = 0, [Next]_vars
  PROVE  UNCHANGED vars \/ SlaveStep
<1> USE Zenon
<1>a. /\ pc \in {"off", "idle"} /\ transmitting = FALSE /\ ~twsta
      /\ phase \in {"off", "idle", "sr", "st"} /\ status # "TW_START"
  BY DEF SlaveInv, TypeInv, WireType
<1>b. ~(transfers < bus.transfers)
  <2>1. transfers \in 0..0  BY DEF TypeInv, WireType
  <2> QED  BY ONLY <2>1, bus.transfers = 0
<1>1. ASSUME Quiet PROVE SlaveStep
  <2>1. CASE onReceive \/ onRequest \/ read
    BY <1>1, <2>1, Tuples DEF onReceive, onRequest, read, SketchIdle, SlaveStep, Apart
  <2>2. CASE requestFrom
    <3>1. UNCHANGED <<transmitting, given>> /\ pc' = "idle"
      BY <2>2, <1>b, Tuples DEF requestFrom, SketchIdle, Apart
    <3> QED  BY <1>1, <3>1 DEF SlaveStep
  <2>3. ~beginTransmission  BY <1>b DEF beginTransmission
  <2>4. ~write /\ ~endTransmission  BY ONLY <1>a DEF write, endTransmission
  <2>5. ~write_store /\ ~requestFrom_return /\ ~twi_writeTo_return /\ ~twi_readFrom_return
    <3>1. pc # "store" /\ pc # "requested" /\ pc # "wait"  BY ONLY <1>a
    <3> QED  BY <3>1 DEF write_store, requestFrom_return, twi_writeTo_return, twi_readFrom_return, Done
  <2> QED  BY <1>1, <2>1, <2>2, <2>3, <2>4, <2>5 DEF Quiet
<1>2. ~Driver
  <2>1. pc \notin InCall  BY ONLY <1>a DEF InCall
  <2> QED  BY <2>1, Places
<1>3. ASSUME MasterVect PROVE OnRefused
  <2>1. phase # "restart" /\ phase # "address" /\ phase # "mt" /\ phase # "mr"  BY ONLY <1>a
  <2>2. /\ status # "TW_START" /\ status # "TW_REP_START"
        /\ status \notin {"TW_MT_SLA_ACK", "TW_MT_SLA_NACK", "TW_MR_SLA_ACK", "TW_MR_SLA_NACK"}
        /\ status \notin {"TW_MT_DATA_ACK", "TW_MT_DATA_NACK"} /\ status \notin {"TW_MR_DATA_ACK", "TW_MR_DATA_NACK"}
    BY <2>1, <1>a, PhaseOf DEF PhaseMeans
  <2>3. status # "TW_MT_ARB_LOST"
    BY ONLY <1>a, LineInv DEF LineInv, StatusIn
  <2>4. /\ status \notin {"TW_START", "TW_REP_START"} /\ status \notin {"TW_MT_SLA_ACK", "TW_MT_DATA_ACK"}
        /\ status # "TW_MR_DATA_ACK" /\ status # "TW_MR_SLA_ACK" /\ status # "TW_MR_DATA_NACK"
    BY ONLY <2>2
  <2> QED  BY <1>3, <2>3, <2>4, MasterEffect DEF MasterVect, MasterDoes
<1>4. ASSUME Hardware PROVE SlaveStep
  <2>1. phase # "restart" /\ phase # "address" /\ phase # "mt" /\ phase # "mr" /\ phase \notin {"address", "mt", "mr"}
    BY ONLY <1>a
  <2>2. ~SendStart /\ ~SendRepeatedStart  BY <1>a DEF SendStart, SendRepeatedStart
  <2>3. ~AddressAnswered /\ ~DataSent /\ ~DataReceived /\ ~ArbitrationLost
    BY <2>1 DEF AddressAnswered, DataSent, DataReceived, ArbitrationLost
  <2>4. Addressed => phase = "idle"  BY <2>1 DEF Addressed
  <2> QED  BY <1>4, <2>2, <2>3, <2>4 DEF Hardware, PeripheralNext, SlaveStep
<1> QED  BY Steps, <1>1, <1>2, <1>3, <1>4 DEF SlaveStep

\* Its state fits the phase of the hardware.
LEMMA StepSlave ==
  ASSUME TypeInv, LineInv, SlaveInv, [Next]_vars
  PROVE  SlaveInv'
<1> USE Zenon
<1>0. bus' = bus  BY Steps
<1> SUFFICES ASSUME bus.master, bus.transfers = 0 PROVE SlaveInv'  BY <1>0, Zenon DEF SlaveInv
<1>a. /\ pc \in {"off", "idle"} /\ transmitting = FALSE /\ twi_inRepStart = FALSE /\ twsta = FALSE /\ masterIndex = 0
      /\ phase \in {"off", "idle", "sr", "st"} /\ status # "TW_START"
  <2>1. transmitting \in BOOLEAN /\ twi_inRepStart \in BOOLEAN /\ twsta \in BOOLEAN
    BY DEF TypeInv, WireType, FlagType, PlainType
  <2> QED  BY <2>1, bus.master, bus.transfers = 0 DEF SlaveInv
<1>b. ASSUME pc' \in {"off", "idle"}, UNCHANGED <<transmitting, masterIndex>>, twi_inRepStart' = FALSE, twsta' = FALSE,
             phase' \in {"off", "idle", "sr", "st"}, status' # "TW_START"
      PROVE  SlaveInv'
  BY <1>a, <1>b DEF SlaveInv
<1>c. "none" # "TW_START" /\ "idle" \in {"off", "idle", "sr", "st"} /\ "sr" \in {"off", "idle", "sr", "st"}
      /\ "st" \in {"off", "idle", "sr", "st"} /\ "idle" \in {"off", "idle"}
  OBVIOUS
<1>1. CASE UNCHANGED vars
  <2>1. UNCHANGED <<pc, transmitting, masterIndex, twi_inRepStart, twsta, phase, status>>  BY <1>1, Tuples DEF Apart
  <2> QED  BY <2>1, <1>a, <1>b
<1>2. CASE begin
  <2>1. /\ pc' = "idle" /\ pc = "off" /\ UNCHANGED <<transmitting, masterIndex, status>>
        /\ twi_inRepStart' = FALSE /\ twsta' = FALSE
    BY <1>2, Tuples DEF begin, twi_init, Apart
  <2>2. phase' = "idle"
    <3>1. phase = "off"  BY <2>1 DEF LineInv
    <3> QED  BY <1>2, <3>1 DEF begin, twi_init
  <2> QED  BY <2>1, <2>2, <1>a, <1>b, <1>c
<1>3. CASE Quiet /\ pc' = "idle" /\ UNCHANGED <<transmitting, given>>
  <2>1. UNCHANGED <<masterIndex, twi_inRepStart, twsta, phase, status>>  BY <1>3, QuietFrame, Tuples DEF Apart
  <2> QED  BY <1>3, <2>1, <1>a, <1>b, <1>c
<1>4. CASE MasterVect /\ OnRefused
  <2>1. UNCHANGED <<pc, transmitting>>  BY <1>4, MasterFrame, Tuples DEF Apart
  <2>2. status' = "none" /\ phase' = "idle" /\ twsta' = FALSE /\ UNCHANGED <<twi_inRepStart, masterIndex>>
    BY <1>4, MasterEffect, Tuples DEF After, Apart, MasterDoes
  <2> QED  BY <2>1, <2>2, <1>a, <1>b, <1>c
<1>5. CASE SlaveVect
  <2>1. UNCHANGED <<pc, transmitting, masterIndex, twi_inRepStart>>  BY <1>5, SlaveFrame, Tuples DEF Apart
  <2>2. ASSUME NEW p \in {"off", "idle", "sr", "st"}, NEW ie, NEW ea, After(p, ie, ea, FALSE) PROVE SlaveInv'
    <3>1. status' = "none" /\ phase' = p /\ twsta' = FALSE  BY <2>2 DEF After
    <3> QED  BY <2>1, <2>2, <3>1, <1>a, <1>b, <1>c
  <2>3. CASE OnAddressedReceive \/ OnSlaveData \/ OnSlaveRefused \/ OnSlaveStop \/ OnSlaveByteSent \/ OnSlaveSent
    BY <2>2, <2>3, <1>c, SlaveEffect DEF SlaveDoes
  <2>4. CASE OnAddressedTransmit
    <3>1. UNCHANGED <<status, phase, twsta>>  BY <2>4, SlaveEffect, Tuples DEF Apart, SlaveDoes
    <3> QED  BY <2>1, <3>1, <1>a, <1>b
  <2>5. CASE OnSlaveStopDone
    <3>1. isr = "received" /\ After(PhaseAfter(status, phase, FALSE, FALSE), TRUE, TRUE, FALSE)
      BY <2>5, StopDoneEffect DEF StopDoneDoes
    <3>2. isr \in {"onSlaveReceive", "received"}  BY ONLY <3>1
    <3>3. phase = "idle" /\ (status = "none" \/ status \in StatusIn(phase))  BY <3>2 DEF LineInv
    <3>4. status \in {"none"} \cup AddressedReceive \cup AddressedTransmit
      BY ONLY <3>3, <1>a DEF StatusIn, AddressedReceive, AddressedTransmit
    <3>5. PhaseAfter(status, phase, FALSE, FALSE) \in {"off", "idle", "sr", "st"}
      BY ONLY <3>3, <3>4 DEF PhaseAfter, AddressedReceive, AddressedTransmit
    <3> QED  BY <2>2, <3>1, <3>5
  <2>6. CASE OnFilled
    <3>1. isr \in {"onSlaveTransmit", "filled"}  BY ONLY <2>6 DEF OnFilled
    <3>2. status \in AddressedTransmit  BY <3>1 DEF LineInv
    <3> QED  BY <2>2, <2>6, <3>2, <1>c, FilledEffect DEF FilledDoes
  <2> QED  BY <1>5, <2>3, <2>4, <2>5, <2>6 DEF SlaveVect
<1>6. CASE onReceiveService \/ onRequestService
  <2>1. UNCHANGED <<pc, transmitting, masterIndex, twi_inRepStart, twsta, phase, status>>
    BY <1>6, CallbackFrame, Tuples DEF Apart, CallbacksKeep
  <2> QED  BY <2>1, <1>a, <1>b
<1>7. CASE /\ Hardware
           /\ (Addressed /\ phase = "idle") \/ SlaveDataReceived \/ SlaveStopReceived \/ SlaveDataSent \/ BusError
  <2>1. UNCHANGED <<pc, transmitting, masterIndex, twi_inRepStart, twsta, phase>>
    BY <1>7, HardwareFrame, Tuples DEF Apart
  <2>2. status' # "TW_START"
    BY ONLY <1>7 DEF Addressed, SlaveDataReceived, SlaveStopReceived, SlaveDataSent, BusError, Raise
  <2> QED  BY <2>1, <2>2, <1>a, <1>b
<1>8. UNCHANGED vars \/ SlaveStep
  BY bus.master, bus.transfers = 0, SlaveSteps
<1> QED  BY <1>1, <1>2, <1>3, <1>4, <1>5, <1>6, <1>7, <1>8 DEF SlaveStep

\* The reply the callback gives is in the buffer the bytes are sent from.
LEMMA ReplyGiven ==
  ASSUME TypeInv, LineInv, SlaveInv, ReplyInv, bus.master, bus.transfers = 0, ~bus.slow, onRequestService
  PROVE  /\ slaveTxIndex' = 0 /\ twi_state' = "TWI_STX"
         /\ IF Len(given') \in 1..Size THEN Holds(given', slaveTx', slaveTxLength') ELSE slaveTxLength' = 0
<1> USE Zenon
<1>1. /\ isr = "onSlaveTransmit" /\ UNCHANGED <<twi_state, slaveTxIndex>>
  BY CallbackFrame, Tuples DEF onRequestService, Apart, CallbacksKeep
<1>2. isr \in {"onSlaveTransmit", "filled"}  BY ONLY <1>1
<1>3. slaveTxIndex = 0 /\ twi_state = "TWI_STX" /\ slaveTxLength = 0
  BY <1>1, <1>2 DEF ReplyInv
<1>4. transmitting = FALSE
  BY DEF TypeInv, WireType, SlaveInv
<1>5. CASE "onRequest" \notin user
  <2>1. given' = <<>> /\ slaveTxLength' = slaveTxLength
    BY <1>5, Tuples DEF onRequestService, Apart
  <2>2. Len(given') \notin 1..Size  BY ONLY <2>1, Constants
  <2> QED  BY <1>1, <1>3, <2>1, <2>2
<1>6. CASE "onRequest" \in user
  <2>1. PICK n \in 0..bus.size : \E reply \in [1..n -> bus.data] :
          given' = reply /\ twi_transmit(reply)
    BY <1>4, <1>6 DEF onRequestService
  <2>2. PICK reply \in [1..n -> bus.data] : given' = reply /\ twi_transmit(reply)  BY <2>1
  <2>3. n \in Nat
    <3>1. bus.size \in Nat  BY BusFacts DEF TypeInv, PlainType
    <3> QED  BY ONLY <2>1, <3>1
  <2>4. Len(reply) = n  BY ONLY <2>2, <2>3
  <2>5. CASE n <= Size
    <3>1. /\ slaveTxLength' = n
          /\ slaveTx' = [i \in Cell |-> IF i < n THEN reply[i + 1] ELSE slaveTx[i]]
      BY <2>2, <2>4, <2>5, <1>3 DEF twi_transmit, Size
    <3>2. ASSUME NEW i \in 1..n PROVE reply[i] = slaveTx'[i - 1]
      <4>1. i - 1 \in Cell /\ i - 1 < n /\ (i - 1) + 1 = i  BY ONLY <3>2, <2>3, <2>5, Constants
      <4> QED  BY <3>1, <4>1
    <3>3. Holds(given', slaveTx', slaveTxLength')  BY <2>2, <2>4, <3>1, <3>2 DEF Holds
    <3>4. Len(given') \notin 1..Size => slaveTxLength' = 0
      <4>1. n \notin 1..Size => n = 0  BY ONLY <2>3, <2>5, Constants
      <4> QED  BY <4>1, <2>2, <2>4, <3>1
    <3> QED  BY <1>1, <1>3, <3>3, <3>4
  <2>6. CASE ~(n <= Size)
    <3>1. slaveTxLength' = slaveTxLength  BY <2>2, <2>4, <2>6 DEF twi_transmit, Size
    <3>2. Len(given') \notin 1..Size  BY ONLY <2>2, <2>3, <2>4, <2>6, Constants
    <3> QED  BY <1>1, <1>3, <3>1, <3>2
  <2> QED  BY <2>5, <2>6
<1> QED  BY <1>5, <1>6

\* The first byte is the first of the reply, or the one that stands for none.
LEMMA ReplyFilled ==
  ASSUME TypeInv, LineInv, ReplyInv, bus.master, bus.transfers = 0, ~bus.slow, OnFilled, UNCHANGED wire
  PROVE  /\ Holds(Reply', slaveTx', slaveTxLength')
         /\ slaveTxIndex' = answered' + 1 /\ slaveTxIndex' <= slaveTxLength' /\ slaveTxIndex' <= Size
         /\ twdr' = slaveTx'[slaveTxIndex' - 1] /\ twea' = (slaveTxIndex' < slaveTxLength')
         /\ status' = "none" /\ phase' = "st" /\ isr' = "none"
<1> USE Zenon
<1>1. isr = "filled" /\ isr \in {"onSlaveTransmit", "filled"}  BY ONLY OnFilled DEF OnFilled
<1>2. status \in AddressedTransmit  BY <1>1 DEF LineInv
<1>3. /\ slaveTxIndex = 0 /\ answered = 0
      /\ IF Len(given) \in 1..Size THEN Holds(given, slaveTx, slaveTxLength) ELSE slaveTxLength = 0
  BY <1>1, <1>2 DEF ReplyInv
<1>4. /\ slaveTx' = [i \in Cell |-> IF slaveTxLength = 0 /\ i = 0 THEN Null ELSE slaveTx[i]]
      /\ slaveTxLength' = (IF slaveTxLength = 0 THEN 1 ELSE slaveTxLength)
      /\ twdr' \in IF slaveTxIndex \in Cell THEN {slaveTx'[slaveTxIndex]} ELSE Byte
      /\ slaveTxIndex' = UInt8(slaveTxIndex + 1)
      /\ status' = "none" /\ phase' = "st" /\ twea' = (slaveTxIndex' < slaveTxLength')
      /\ answered' = answered /\ isr' = "none"
  BY <1>2, FilledEffect DEF After, FilledDoes
<1>5. given' = given  BY Tuples DEF Apart
<1>6. slaveTx \in [Cell -> Byte] /\ slaveTxLength \in 0..Size  BY DEF TypeInv, SlaveType
<1>7. 0 \in Cell /\ 0 + 1 = 1 /\ 1 - 1 = 0 /\ 1 \in 0..255 /\ (1 <= Size) = TRUE /\ Size \in Nat  BY ONLY Constants
<1>8. slaveTxIndex' = 1  BY <1>3, <1>4, <1>7, UInt8Same
<1>9. twdr' = slaveTx'[0]  BY ONLY <1>3, <1>4, <1>7
<1>10. Reply' = IF Len(given) \in 1..Size THEN given ELSE <<Null>>  BY <1>5 DEF Reply, Size
<1>11. Holds(Reply', slaveTx', slaveTxLength') /\ 1 <= slaveTxLength'
  <2>1. CASE Len(given) \in 1..Size
    <3>1. Holds(given, slaveTx, slaveTxLength) /\ Len(given) = slaveTxLength  BY <1>3, <2>1 DEF Holds
    <3>2. slaveTxLength # 0 /\ 1 <= slaveTxLength  BY ONLY <2>1, <3>1, <1>7
    <3>3. slaveTxLength' = slaveTxLength  BY <1>4, <3>2
    <3>4. ASSUME NEW i \in 1..slaveTxLength PROVE slaveTx'[i - 1] = slaveTx[i - 1]
      <4>1. i - 1 \in Cell  BY ONLY <1>6, <3>4, Constants
      <4> QED  BY <1>4, <3>2, <4>1
    <3>5. Holds(given, slaveTx', slaveTxLength)  BY <3>1, <3>4 DEF Holds
    <3> QED  BY <1>10, <2>1, <3>2, <3>3, <3>5
  <2>2. CASE Len(given) \notin 1..Size
    <3>1. slaveTxLength = 0  BY <1>3, <2>2
    <3>2. slaveTxLength' = 1 /\ slaveTx'[0] = Null  BY <1>4, <1>7, <3>1
    <3>3. Holds(<<Null>>, slaveTx', 1)  BY ONLY <3>2 DEF Holds
    <3>4. Reply' = <<Null>>  BY <1>10, <2>2
    <3>5. 1 <= slaveTxLength'  BY ONLY <3>2
    <3> QED  BY <3>2, <3>3, <3>4, <3>5
  <2> QED  BY <2>1, <2>2
<1>12. slaveTxIndex' = answered' + 1  BY <1>3, <1>4, <1>7, <1>8
<1>13. slaveTxIndex' <= slaveTxLength' /\ slaveTxIndex' <= Size  BY <1>7, <1>8, <1>11
<1>14. twdr' = slaveTx'[slaveTxIndex' - 1]  BY <1>7, <1>8, <1>9
<1> QED  BY <1>4, <1>11, <1>12, <1>13, <1>14

\* The bytes sent are those of the reply the sketch gave.
LEMMA StepReply ==
  ASSUME TypeInv, LineInv, SlaveInv, ReplyInv, MessageInv, [Next]_vars
  PROVE  ReplyInv'
<1> USE Zenon
<1>0. bus' = bus  BY Steps
<1> SUFFICES ASSUME bus.master, bus.transfers = 0, ~bus.slow PROVE ReplyInv'  BY <1>0, Zenon DEF ReplyInv
<1>a. /\ slaveTxIndex <= Size
      /\ status \in AddressedTransmit => answered = 0
      /\ isr \in {"onSlaveTransmit", "filled"} => slaveTxIndex = 0 /\ twi_state = "TWI_STX"
      /\ isr = "onSlaveTransmit" => slaveTxLength = 0
      /\ isr = "filled" =>
           IF Len(given) \in 1..Size THEN Holds(given, slaveTx, slaveTxLength) ELSE slaveTxLength = 0
      /\ phase = "st" =>
           /\ Holds(Reply, slaveTx, slaveTxLength)
           /\ status = "none" => /\ slaveTxIndex = answered + 1 /\ slaveTxIndex <= slaveTxLength
                                 /\ twdr = slaveTx[slaveTxIndex - 1]
                                 /\ twea = (slaveTxIndex < slaveTxLength)
           /\ status = "TW_ST_DATA_ACK" => slaveTxIndex = answered /\ slaveTxIndex < slaveTxLength
  BY bus.master, bus.transfers = 0, ~bus.slow DEF ReplyInv
<1>b. /\ slaveTx \in [Cell -> Byte] /\ slaveTxIndex \in 0..255 /\ slaveTxLength \in 0..Size /\ answered \in Nat
      /\ Size \in Nat /\ Size <= 254
  <2>1. Size \in Nat /\ Size <= 254  BY ONLY Constants
  <2> QED  BY <2>1 DEF TypeInv, SlaveType, HistoryType
<1>c. /\ "none" \notin AddressedTransmit /\ "none" # "TW_ST_DATA_ACK"
      /\ isr = "none" => isr \notin {"onSlaveTransmit", "filled"} /\ isr # "onSlaveTransmit" /\ isr # "filled"
  BY ONLY DEF AddressedTransmit
\* No reply is being given or sent afterwards.
<1>d. ASSUME phase' # "st", isr' \notin {"onSlaveTransmit", "filled"}, slaveTxIndex' <= Size,
             status' \in AddressedTransmit => answered' = 0
      PROVE  ReplyInv'
  <2>1. isr' # "onSlaveTransmit" /\ isr' # "filled"  BY ONLY <1>d
  <2> QED  BY <1>d, <2>1 DEF ReplyInv
<1>e. /\ phase \in {"off", "idle", "sr", "st"}
      /\ status \in AddressedReceive \cup AddressedTransmit => phase \in {"idle", "address"}
  BY bus.master, bus.transfers = 0, PhaseOf DEF SlaveInv, PhaseMeans
<1>1. CASE UNCHANGED vars \/ (Quiet /\ pc' = "idle" /\ UNCHANGED <<transmitting, given>>)
  <2>1. UNCHANGED <<status, phase, twdr, twea, isr, twi_state, slaveTx, slaveTxIndex, slaveTxLength, answered, given>>
    BY <1>1, QuietFrame, Tuples DEF Apart
  <2>2. Reply' = Reply  BY <2>1 DEF Reply
  <2> QED  BY <2>1, <2>2, <1>a DEF ReplyInv
<1>2. CASE begin
  <2>1. pc = "off" /\ UNCHANGED <<status, isr, slaveTxIndex>>  BY <1>2, Tuples DEF begin, twi_init, Apart
  <2>2. phase = "off" /\ isr = "none" /\ status = "none"  BY ONLY <2>1, LineInv DEF LineInv, StatusIn
  <2>3. phase' = "idle"  BY <1>2, <2>2 DEF begin, twi_init
  <2>4. phase' # "st" /\ isr' \notin {"onSlaveTransmit", "filled"}  BY ONLY <2>1, <2>2, <2>3
  <2> QED  BY <2>1, <2>2, <2>4, <1>a, <1>c, <1>d
<1>3. CASE MasterVect /\ OnRefused
  <2>1. isr' = "none" /\ slaveTxIndex' = slaveTxIndex  BY <1>3, MasterVectNone, MasterFrame, Tuples DEF Apart
  <2>2. status' = "none" /\ phase' = "idle"  BY <1>3, MasterEffect DEF After, MasterDoes
  <2>3. phase' # "st" /\ isr' \notin {"onSlaveTransmit", "filled"}  BY ONLY <2>1, <2>2
  <2> QED  BY <2>1, <2>2, <2>3, <1>a, <1>c, <1>d
<1>4. CASE SlaveVect
  <2>0. given' = given /\ Reply' = Reply
    <3>1. given' = given  BY <1>4, SlaveFrame, Tuples DEF Apart
    <3> QED  BY <3>1 DEF Reply
  <2>1. ASSUME NEW p \in {"idle", "sr"}, NEW ea, After(p, TRUE, ea, FALSE), isr' \in {"none", "onSlaveReceive"},
               slaveTxIndex' = slaveTxIndex
        PROVE  ReplyInv'
    <3>1. status' = "none" /\ phase' # "st" /\ isr' \notin {"onSlaveTransmit", "filled"}  BY ONLY <2>1 DEF After
    <3> QED  BY <2>1, <3>1, <1>a, <1>c, <1>d
  <2>a. "idle" \in {"idle", "sr"} /\ "sr" \in {"idle", "sr"} /\ "none" \in {"none", "onSlaveReceive"}
        /\ "onSlaveReceive" \in {"none", "onSlaveReceive"}
    OBVIOUS
  <2>2. CASE OnAddressedReceive \/ OnSlaveData \/ OnSlaveRefused \/ OnSlaveSent
    <3>1. isr = "none"  BY <2>2 DEF OnAddressedReceive, OnSlaveData, OnSlaveRefused, OnSlaveSent, Handle, Interrupt
    <3>2. CASE OnAddressedReceive  BY <2>1, <2>a, <3>1, <3>2, SlaveEffect DEF SlaveDoes
    <3>3. CASE OnSlaveData  BY <2>1, <2>a, <3>1, <3>3, SlaveEffect DEF SlaveDoes
    <3>4. CASE OnSlaveRefused \/ OnSlaveSent  BY <2>1, <2>a, <3>1, <3>4, SlaveEffect, Tuples DEF Apart, SlaveDoes
    <3> QED  BY <2>2, <3>2, <3>3, <3>4
  <2>3. CASE OnSlaveStop  BY <2>1, <2>3, <2>a, SlaveEffect DEF SlaveDoes
  <2>4. CASE OnSlaveStopDone
    <3>1. /\ isr = "received" /\ isr' = "none" /\ slaveTxIndex' = slaveTxIndex
          /\ After(PhaseAfter(status, phase, FALSE, FALSE), TRUE, TRUE, FALSE)
      BY <2>4, StopDoneEffect DEF StopDoneDoes
    <3>2. isr \in {"onSlaveReceive", "received"}  BY ONLY <3>1
    <3>3. status = "none" /\ phase = "idle"
      BY <3>2, ~bus.slow DEF LineInv, MessageInv
    <3>4. PhaseAfter(status, phase, FALSE, FALSE) = "idle"
      BY ONLY <3>3 DEF PhaseAfter, AddressedReceive, AddressedTransmit
    <3> QED  BY <2>1, <2>a, <3>1, <3>4
  <2>5. CASE OnAddressedTransmit
    <3>1. /\ status \in AddressedTransmit /\ isr' = "onSlaveTransmit" /\ twi_state' = "TWI_STX"
          /\ slaveTxIndex' = 0 /\ slaveTxLength' = 0 /\ UNCHANGED <<status, phase, answered>>
      BY <2>5, SlaveEffect, Tuples DEF Apart, SlaveDoes
    <3>2. status \in AddressedReceive \cup AddressedTransmit  BY ONLY <3>1
    <3>3. phase' # "st" /\ isr' # "filled" /\ (slaveTxIndex' <= Size)
      <4>1. phase \in {"idle", "address"}  BY <3>2, <1>e
      <4> QED  BY ONLY <3>1, <4>1, <1>b
    <3> QED  BY <3>1, <3>3, <1>a DEF ReplyInv
  <2>6. CASE OnFilled
    <3>1. UNCHANGED wire  BY <1>4 DEF SlaveVect
    <3>2. /\ Holds(Reply', slaveTx', slaveTxLength')
          /\ slaveTxIndex' = answered' + 1 /\ slaveTxIndex' <= slaveTxLength' /\ slaveTxIndex' <= Size
          /\ twdr' = slaveTx'[slaveTxIndex' - 1] /\ twea' = (slaveTxIndex' < slaveTxLength')
          /\ status' = "none" /\ phase' = "st" /\ isr' = "none"
      BY <2>6, <3>1, bus.master, bus.transfers = 0, ~bus.slow, ReplyFilled
    <3>3. isr' \notin {"onSlaveTransmit", "filled"} /\ isr' # "onSlaveTransmit" /\ isr' # "filled"  BY ONLY <3>2
    <3> QED  BY <3>2, <3>3, <1>c DEF ReplyInv
  <2>7. CASE OnSlaveByteSent
    <3>1. /\ status = "TW_ST_DATA_ACK" /\ phase' = "st" /\ status' = "none" /\ twea' = (slaveTxIndex' < slaveTxLength)
          /\ twdr' \in IF slaveTxIndex \in Cell THEN {slaveTx[slaveTxIndex]} ELSE Byte
          /\ slaveTxIndex' = UInt8(slaveTxIndex + 1)
          /\ UNCHANGED <<slaveTx, slaveTxLength, isr, answered>>
      BY <2>7, SlaveEffect DEF After, SlaveDoes
    <3>2. isr = "none"  BY <2>7 DEF OnSlaveByteSent, Handle, Interrupt
    <3>3. phase = "st"
      <4>1. status \in {"TW_ST_DATA_ACK", "TW_ST_DATA_NACK", "TW_ST_LAST_DATA"}  BY ONLY <3>1
      <4> QED  BY <4>1, PhaseOf DEF PhaseMeans
    <3>4. Holds(Reply, slaveTx, slaveTxLength) /\ slaveTxIndex = answered /\ slaveTxIndex < slaveTxLength
      BY <3>1, <3>3, <1>a
    <3>5. /\ slaveTxIndex \in Cell /\ slaveTxIndex + 1 \in 0..255 /\ slaveTxIndex + 1 <= slaveTxLength
          /\ slaveTxIndex + 1 <= Size /\ (slaveTxIndex + 1) - 1 = slaveTxIndex
      <4>1. slaveTxIndex < slaveTxLength  BY ONLY <3>4
      <4>2. slaveTxIndex \in Cell  BY ONLY <4>1, <1>b, Constants
      <4> QED  BY ONLY <4>1, <4>2, <1>b
    <3>6. slaveTxIndex' = slaveTxIndex + 1  BY <3>1, <3>5, UInt8Same
    <3>7. twdr' = slaveTx[slaveTxIndex]  BY ONLY <3>1, <3>5
    <3>8. /\ slaveTxIndex' = answered' + 1 /\ slaveTxIndex' <= slaveTxLength' /\ slaveTxIndex' <= Size
          /\ twdr' = slaveTx'[slaveTxIndex' - 1] /\ twea' = (slaveTxIndex' < slaveTxLength')
          /\ Holds(Reply', slaveTx', slaveTxLength')
      BY <2>0, <3>1, <3>4, <3>5, <3>6, <3>7
    <3> QED  BY <3>1, <3>2, <3>8, <1>c DEF ReplyInv
  <2> QED  BY <1>4, <2>2, <2>3, <2>4, <2>5, <2>6, <2>7 DEF SlaveVect
<1>5. CASE onReceiveService
  <2>1. isr = "onSlaveReceive" /\ isr' = "received" /\ UNCHANGED <<status, phase, slaveTxIndex, answered>>
    BY <1>5, CallbackFrame, Tuples DEF onReceiveService, Apart, CallbacksKeep
  <2>2. isr \in {"onSlaveReceive", "received"} /\ isr' \notin {"onSlaveTransmit", "filled"}  BY ONLY <2>1
  <2>3. phase = "idle"  BY <2>2 DEF LineInv
  <2>4. phase' # "st"  BY ONLY <2>1, <2>3
  <2> QED  BY <2>1, <2>2, <2>4, <1>a, <1>d
<1>6. CASE onRequestService
  <2>1. isr = "onSlaveTransmit" /\ isr' = "filled" /\ UNCHANGED <<status, phase, answered>>
    BY <1>6, CallbackFrame, Tuples DEF onRequestService, Apart, CallbacksKeep
  <2>2. /\ slaveTxIndex' = 0 /\ twi_state' = "TWI_STX"
        /\ IF Len(given') \in 1..Size THEN Holds(given', slaveTx', slaveTxLength') ELSE slaveTxLength' = 0
    BY <1>6, bus.master, bus.transfers = 0, ~bus.slow, ReplyGiven
  <2>3. isr \in {"onSlaveTransmit", "filled"} /\ isr' # "onSlaveTransmit"  BY ONLY <2>1
  <2>4. status \in AddressedTransmit /\ status \in AddressedReceive \cup AddressedTransmit
    <3>1. status \in AddressedTransmit  BY <2>3 DEF LineInv
    <3> QED  BY ONLY <3>1
  <2>5. phase' # "st" /\ (slaveTxIndex' <= Size)
    <3>1. phase \in {"idle", "address"}  BY <2>4, <1>e
    <3> QED  BY ONLY <2>1, <2>2, <3>1, <1>b
  <2> QED  BY <2>1, <2>2, <2>3, <2>5, <1>a DEF ReplyInv
<1>7. CASE /\ Hardware
           /\ (Addressed /\ phase = "idle") \/ SlaveDataReceived \/ SlaveStopReceived \/ SlaveDataSent \/ BusError
  <2>0. /\ status = "none" /\ isr = "none"
        /\ UNCHANGED <<isr, phase, twi_state, twea, slaveTx, slaveTxIndex, slaveTxLength, given>>
        /\ Reply' = Reply
    <3>1. /\ status = "none" /\ isr = "none"
          /\ UNCHANGED <<isr, phase, twi_state, twea, slaveTx, slaveTxIndex, slaveTxLength, given>>
      BY <1>7, ~bus.slow, HardwareFrame, Tuples DEF Apart
    <3> QED  BY <3>1 DEF Reply
  <2>1. CASE phase # "st"
    <3>1. status' \in AddressedTransmit => answered' = 0
      <4>1. CASE Addressed  BY <4>1 DEF Addressed, Raise, AddressedTransmit
      <4>2. CASE SlaveDataReceived \/ SlaveStopReceived \/ SlaveDataSent \/ BusError
        BY ONLY <4>2 DEF SlaveDataReceived, SlaveStopReceived, SlaveDataSent, BusError, Raise, AddressedTransmit
      <4> QED  BY <1>7, <4>1, <4>2
    <3>2. phase' # "st" /\ isr' \notin {"onSlaveTransmit", "filled"}  BY ONLY <2>0, <2>1
    <3> QED  BY <2>0, <3>1, <3>2, <1>a, <1>d
  <2>2. CASE phase = "st"
    <3>0. /\ slaveTxIndex = answered + 1 /\ twea = (slaveTxIndex < slaveTxLength) /\ Holds(Reply, slaveTx, slaveTxLength)
      BY <2>0, <2>2, <1>a
    <3>1. SlaveDataSent \/ BusError
      <4>1. phase # "idle" /\ phase # "sr"  BY ONLY <2>2
      <4> QED  BY <1>7, <4>1 DEF SlaveDataReceived, SlaveStopReceived
    <3>2. /\ status' \notin AddressedTransmit /\ status' # "none"
          /\ status' = "TW_ST_DATA_ACK" => answered' = answered + 1 /\ twea
      <4>1. CASE SlaveDataSent  BY ONLY <4>1 DEF SlaveDataSent, Raise, AddressedTransmit
      <4>2. CASE BusError  BY ONLY <4>2 DEF BusError, Raise, AddressedTransmit
      <4> QED  BY <3>1, <4>1, <4>2
    <3>3. status' = "TW_ST_DATA_ACK" => slaveTxIndex' = answered' /\ slaveTxIndex' < slaveTxLength'
      <4>1. ASSUME status' = "TW_ST_DATA_ACK" PROVE slaveTxIndex' = answered' /\ slaveTxIndex' < slaveTxLength'
        <5>1. slaveTxIndex = answered' /\ slaveTxIndex < slaveTxLength  BY <3>0, <3>2, <4>1
        <5> QED  BY <5>1, <2>0
      <4> QED  BY <4>1
    <3>4. Holds(Reply', slaveTx', slaveTxLength')  BY <2>0, <3>0
    <3> QED  BY <2>0, <3>2, <3>3, <3>4, <1>a, <1>c DEF ReplyInv
  <2> QED  BY <2>1, <2>2
<1>8. UNCHANGED vars \/ SlaveStep
  BY bus.master, bus.transfers = 0, SlaveSteps
<1> QED  BY <1>1, <1>2, <1>3, <1>4, <1>5, <1>6, <1>7, <1>8 DEF SlaveStep

\* Without another master nothing is sent as slave.
LEMMA StepSilent ==
  ASSUME LineInv, SoleInv, SilentInv, [Next]_vars
  PROVE  SilentInv'
<1> USE Zenon
<1>0. bus' = bus  BY Steps
<1> SUFFICES ASSUME ~bus.master PROVE SilentInv'  BY <1>0, Zenon DEF SilentInv
<1>1. slaveTxIndex = 0  BY ~bus.master DEF SilentInv
<1>2. UNCHANGED vars \/ SoleStep  BY ~bus.master, SoleSteps
<1>3. slaveTxIndex' = slaveTxIndex
  <2>1. CASE UNCHANGED vars  BY <2>1, Tuples DEF Apart
  <2>2. CASE begin  BY <2>2, Tuples DEF begin, twi_init, Apart
  <2>3. CASE Quiet  BY <2>3, QuietFrame, Tuples DEF Apart
  <2>4. CASE Driver  BY <2>4, DriverFrame, Tuples DEF Apart
  <2>5. CASE MasterVect  BY <2>5, MasterFrame, Tuples DEF Apart
  <2>6. CASE Hardware  BY <2>6, HardwareFrame, Tuples DEF Apart
  <2> QED  BY <1>2, <2>1, <2>2, <2>3, <2>4, <2>5, <2>6 DEF SoleStep
<1> QED  BY <1>1, <1>3 DEF SilentInv

-----------------------------------------------------------------------------
(* The invariant.                                                           *)

\* The variables have their types at the start.
LEMMA InitType == Init => TypeInv
<1> USE Zenon
<1> SUFFICES ASSUME Init PROVE TypeInv  OBVIOUS
<1>a. /\ bus \in Buses /\ status = "none" /\ phase = "off" /\ twdr = Null
      /\ twie = FALSE /\ twea = FALSE /\ twsta = FALSE
      /\ transfer = NoTransfer /\ heard = <<>> /\ answered = 0
  BY Init DEF Init, PeripheralInit
<1>b. /\ twi_state = "TWI_READY" /\ twi_slarw = "TW_WRITE"
      /\ twi_sendStop = FALSE /\ twi_inRepStart = FALSE /\ twi_error = "none"
      /\ masterBuffer = [i \in Cell |-> Null] /\ masterIndex = 0 /\ masterLength = 0
      /\ slaveTx = [i \in Cell |-> Null] /\ slaveTxIndex = 0 /\ slaveTxLength = 0
      /\ slaveRx = [i \in Cell |-> Null] /\ slaveRxIndex = 0
      /\ isr = "none" /\ pc = "off" /\ mode = "TWI_MTX" /\ length = 0 /\ sendStop = FALSE
  BY Init DEF Init, TwiInit
<1>c. /\ rxBuffer = [i \in Slot |-> Null] /\ rxBufferIndex = 0 /\ rxBufferLength = 0
      /\ txBuffer = [i \in Slot |-> Null] /\ txBufferIndex = 0 /\ txBufferLength = 0
      /\ transmitting = FALSE /\ user = {} /\ datum = Null
      /\ transfers = 0 /\ composed = <<>> /\ asked = 0 /\ given = <<>>
  BY Init DEF Init
<1>d. Null \in Byte /\ <<>> \in Seq(Byte)  BY ONLY DEF Byte
<1>e. [i \in Cell |-> Null] \in [Cell -> Byte] /\ [i \in Slot |-> Null] \in [Slot -> Byte]  BY ONLY <1>d
<1>1. PlainType
  <2>1. status \in Status /\ phase \in Phase /\ twdr \in Byte  BY ONLY <1>a, <1>d DEF Status, Phase
  <2>2. twie \in BOOLEAN /\ twea \in BOOLEAN /\ twsta \in BOOLEAN  BY <1>a
  <2>3. twdr \in Byte \cup {"TW_WRITE", "TW_READ"}  BY ONLY <2>1
  <2> QED  BY <1>a, <2>1, <2>2, <2>3 DEF PlainType
<1>2. HistoryType  BY ONLY <1>a, <1>d DEF HistoryType, NoTransfer
<1>3. FlagType
  <2>1. twi_error \in Status  BY ONLY <1>b DEF Status
  <2>2. twi_state \in {"TWI_READY", "TWI_MRX", "TWI_MTX", "TWI_SRX", "TWI_STX"} /\ twi_slarw \in {"TW_WRITE", "TW_READ"}
    BY ONLY <1>b
  <2>3. twi_sendStop \in BOOLEAN /\ twi_inRepStart \in BOOLEAN  BY <1>b
  <2> QED  BY <2>1, <2>2, <2>3 DEF FlagType
<1>4. MasterType /\ SlaveType
  <2>1. masterIndex \in 0..255 /\ masterLength \in 0..255 /\ slaveTxIndex \in 0..255  BY ONLY <1>b
  <2>2. slaveTxLength \in 0..Size /\ slaveRxIndex \in 0..Size  BY ONLY <1>b, Constants
  <2> QED  BY <1>b, <1>e, <2>1, <2>2 DEF MasterType, SlaveType
<1>5. CallType
  <2>1. /\ isr \in {"none", "onSlaveReceive", "received", "onSlaveTransmit", "filled"}
        /\ pc \in {"off", "idle", "store", "requested"} \cup InCall /\ pc \notin InCall
        /\ mode \in {"TWI_MRX", "TWI_MTX"}
    BY ONLY <1>b DEF InCall
  <2>2. length \in 0..Size  BY ONLY <1>b, Constants
  <2>3. sendStop \in BOOLEAN  BY <1>b
  <2> QED  BY <2>1, <2>2, <2>3 DEF CallType
<1>6. WireType
  <2>1. rxBufferIndex \in 0..BUFFER_LENGTH /\ rxBufferLength \in 0..BUFFER_LENGTH /\ asked \in 0..BUFFER_LENGTH
    BY ONLY <1>c, Constants
  <2>2. txBufferIndex \in 0..255 /\ txBufferLength \in 0..255  BY ONLY <1>c
  <2>3. transfers \in 0..bus.transfers  BY ONLY <1>a, <1>c, BusFacts
  <2>4. transmitting \in BOOLEAN /\ user \subseteq {"onReceive", "onRequest"}  BY <1>c
  <2> QED  BY <1>c, <1>d, <1>e, <2>1, <2>2, <2>3, <2>4 DEF WireType
<1> QED  BY <1>1, <1>2, <1>3, <1>4, <1>5, <1>6 DEF TypeInv

\* The invariant holds at the start
LEMMA InitIInv == Init => IInv
<1> USE Zenon
<1> SUFFICES ASSUME Init PROVE IInv  OBVIOUS
<1>a. /\ status = "none" /\ phase = "off" /\ twie = FALSE /\ twsta = FALSE
  BY Init DEF Init, PeripheralInit
<1>b. /\ twi_state = "TWI_READY" /\ twi_inRepStart = FALSE /\ masterIndex = 0 /\ slaveTxIndex = 0
      /\ isr = "none" /\ pc = "off"
  BY Init DEF Init, TwiInit
<1>c. transmitting = FALSE  BY Init DEF Init
<1>d. ~Running /\ 0 <= Size  BY ONLY <1>b, Constants DEF Running
<1>1. TypeInv  BY ONLY Init, InitType
<1>2. LineInv  BY ONLY <1>a, <1>b DEF LineInv
<1>3. SoleInv  BY ONLY <1>a, <1>b, <1>d DEF SoleInv, AddressedReceive, AddressedTransmit
<1>4. ComposeInv  BY ONLY <1>b, <1>c DEF ComposeInv, InCall
<1>5. MasterInv  BY ONLY <1>b, <1>d DEF MasterInv
<1>6. TransferInv
  <2>1. pc # "wait" /\ pc # "requested"  BY ONLY <1>b
  <2> QED  BY <2>1, <1>d DEF TransferInv, AddressInv, SendInv, FetchInv, SentInv, FetchedInv
<1>7. SilentInv /\ SlaveInv  BY ONLY <1>a, <1>b, <1>c DEF SilentInv, SlaveInv
<1>8. ReplyInv
  <2>1. /\ status \notin AddressedTransmit /\ isr \notin {"onSlaveTransmit", "filled"} /\ isr # "onSlaveTransmit"
        /\ isr # "filled" /\ phase # "st" /\ slaveTxIndex <= Size
    BY ONLY <1>a, <1>b, <1>d DEF AddressedTransmit
  <2> QED  BY <2>1 DEF ReplyInv
<1>9. MessageInv
  <2>1. status \notin AddressedReceive /\ isr \notin {"onSlaveReceive", "received"} /\ isr # "onSlaveReceive" /\ phase # "sr"
    BY ONLY <1>a, <1>b DEF AddressedReceive
  <2> QED  BY <2>1 DEF MessageInv
<1> QED  BY <1>1, <1>2, <1>3, <1>4, <1>5, <1>6, <1>7, <1>8, <1>9 DEF IInv

\* and every step keeps it.
LEMMA StepIInv == IInv /\ [Next]_vars => IInv'
<1> USE Zenon
<1> SUFFICES ASSUME IInv, [Next]_vars PROVE IInv'  OBVIOUS
<1>a. /\ TypeInv /\ LineInv /\ SoleInv /\ ComposeInv /\ MasterInv
      /\ AddressInv /\ SendInv /\ FetchInv /\ SentInv /\ FetchedInv
      /\ SilentInv /\ SlaveInv /\ ReplyInv /\ MessageInv
  BY IInv DEF IInv, TransferInv
<1>1. TypeInv' /\ LineInv'  BY <1>a, [Next]_vars, StepType, StepLine
<1>2. SoleInv' /\ SilentInv'  BY <1>a, [Next]_vars, StepSole, StepSilent
<1>3. ComposeInv' /\ MasterInv'  BY <1>a, [Next]_vars, StepCompose, StepMaster
<1>4. AddressInv' /\ SendInv' /\ FetchInv'  BY <1>a, [Next]_vars, StepAddress, StepSend, StepFetch
<1>5. SentInv' /\ FetchedInv'  BY <1>a, [Next]_vars, StepSent, StepFetched
<1>6. SlaveInv' /\ ReplyInv' /\ MessageInv'  BY <1>a, [Next]_vars, StepSlave, StepReply, StepMessage
<1> QED  BY <1>1, <1>2, <1>3, <1>4, <1>5, <1>6 DEF IInv, TransferInv

\* The inductive invariant holds on every bus, for every size of the buffers.
THEOREM Invariant == Spec => []IInv
BY InitIInv, StepIInv, PTL DEF Spec

-----------------------------------------------------------------------------
(* What it establishes.                                                     *)

\* Either nobody else is master, or the sketch starts no transfer.
LEMMA Regimes ==
  ASSUME IInv, ~Race
  PROVE  ~bus.master \/ (bus.master /\ bus.transfers = 0)
<1>1. bus \in Buses  BY ONLY IInv, Zenon DEF IInv, TypeInv, PlainType
<1>2. bus.transfers \in Nat  BY ONLY <1>1, BusFacts, Zenon
<1>3. ~(bus.transfers > 0) => bus.transfers = 0  BY ONLY <1>2
<1> QED  BY ONLY ~Race, <1>3, Zenon DEF Race

\* Two sequences in the same buffer are the same.
LEMMA HoldsBoth ==
  ASSUME NEW s \in Seq(Byte), NEW t \in Seq(Byte), NEW buffer, NEW n, Holds(s, buffer, n), Holds(t, buffer, n)
  PROVE  s = t
<1>1. Len(s) = Len(t) /\ \A i \in 1..Len(s) : s[i] = t[i]
  BY ONLY Holds(s, buffer, n), Holds(t, buffer, n), Zenon DEF Holds
<1> QED  BY ONLY <1>1, ByteSequencesEqual

\* A sequence in a buffer is its start.
LEMMA HoldsPrefix ==
  ASSUME NEW s \in Seq(Byte), NEW buffer, NEW n, Holds(s, buffer, n)
  PROVE  Prefix(buffer, n) = s
<1>1. Len(s) = n /\ \A i \in 1..n : s[i] = buffer[i - 1]  BY ONLY Holds(s, buffer, n), Zenon DEF Holds
<1>2. s \in [1..n -> Byte]
  <2>1. s \in [1..Len(s) -> Byte]  BY ONLY ByteSequence, s \in Seq(Byte)
  <2> QED  BY ONLY <2>1, <1>1, Zenon
<1>3. s = [i \in 1..n |-> s[i]]  BY ONLY <1>2
<1> QED  BY ONLY <1>1, <1>3 DEF Prefix

\* The invariant gives the types of the model,
LEMMA TypeHolds == IInv => TypeOK
<1> USE Zenon
<1> SUFFICES ASSUME IInv PROVE TypeOK  OBVIOUS
<1>a. PlainType /\ HistoryType /\ FlagType /\ MasterType /\ SlaveType /\ CallType /\ WireType
  BY IInv DEF IInv, TypeInv
<1>b. Size \in Nat /\ Size <= 254 /\ Size = TWI_BUFFER_LENGTH  BY ONLY Constants DEF Size
<1>1. PeripheralTypeOK  BY <1>a DEF PeripheralTypeOK, PlainType, HistoryType
<1>2. TwiTypeOK
  <2>1. slaveTxLength \in 0..Size /\ slaveRxIndex \in 0..Size /\ length \in 0..Size
    BY <1>a DEF SlaveType, CallType
  <2>2. slaveTxLength \in 0..255 /\ slaveRxIndex \in 0..255 /\ length \in 0..255  BY ONLY <2>1, <1>b
  <2>3. pc \in {"off", "idle", "store", "requested"} \cup InCall  BY <1>a DEF CallType
  <2>4. pc \in {"off", "idle", "store", "ready", "claim", "setup", "start", "wait", "requested"}
    BY ONLY <2>3 DEF InCall
  <2> QED  BY <1>a, <2>2, <2>4 DEF TwiTypeOK, FlagType, MasterType, SlaveType, CallType
<1>3. ~Race => /\ masterIndex <= TWI_BUFFER_LENGTH /\ slaveRxIndex <= TWI_BUFFER_LENGTH
               /\ slaveTxLength <= TWI_BUFFER_LENGTH
               /\ ~bus.slow => slaveTxIndex <= TWI_BUFFER_LENGTH
  <2> SUFFICES ASSUME ~Race PROVE /\ masterIndex <= Size /\ slaveRxIndex <= Size /\ slaveTxLength <= Size
                                  /\ ~bus.slow => slaveTxIndex <= Size
    BY <1>b, Zenon
  <2>1. slaveRxIndex <= Size /\ slaveTxLength <= Size
    <3>1. slaveTxLength \in 0..Size /\ slaveRxIndex \in 0..Size  BY <1>a DEF SlaveType
    <3> QED  BY ONLY <3>1, <1>b
  <2>2. 0 <= Size  BY ONLY <1>b
  <2>3. CASE ~bus.master
    <3>1. masterIndex <= Size /\ slaveTxIndex = 0  BY <2>3, IInv DEF IInv, MasterInv, SilentInv
    <3> QED  BY <2>1, <2>2, <3>1
  <2>4. CASE bus.master /\ bus.transfers = 0
    <3>1. masterIndex = 0 /\ (~bus.slow => slaveTxIndex <= Size)
      BY <2>4, IInv DEF IInv, SlaveInv, ReplyInv
    <3> QED  BY <2>1, <2>2, <3>1
  <2> QED  BY IInv, ~Race, Regimes, <2>3, <2>4
<1> QED  BY <1>a, <1>1, <1>2, <1>3 DEF TypeOK, WireType

\* twi.c, Wire.cpp: every variable keeps its type, and without a competing
\* master and a transfer at once every index stays inside its buffer, the
\* reply's as long as the callbacks are short.
THEOREM TypeCorrect == Spec => []TypeOK
BY Invariant, TypeHolds, PTL

\* the tenure of the bus,
LEMMA TenureHolds == IInv => BusTenure
<1> USE Zenon
<1> SUFFICES ASSUME IInv, ~Race, pc = "idle", isr = "none"
             PROVE  IF twi_inRepStart
                    THEN (phase = "restart" /\ (twsta \/ status = "TW_REP_START") /\ ~twie)
                    ELSE (phase \in {"idle", "sr", "st"} /\ twie)
  BY Zenon DEF BusTenure
<1>a. pc # "off" /\ pc # "wait"  BY ONLY pc = "idle"
<1>1. CASE twi_inRepStart  BY <1>1, IInv DEF IInv, LineInv
<1>2. CASE ~twi_inRepStart
  <2>1. twie /\ phase \notin {"off", "restart"}  BY <1>2, <1>a, IInv DEF IInv, LineInv
  <2>2. phase \in {"off", "idle", "restart"} \/ phase \in {"off", "idle", "sr", "st"}
    <3>1. CASE ~bus.master  BY <3>1, <1>a, IInv DEF IInv, SoleInv, Running
    <3>2. CASE bus.master /\ bus.transfers = 0  BY <3>2, IInv DEF IInv, SlaveInv
    <3> QED  BY IInv, ~Race, Regimes, <3>1, <3>2
  <2>3. phase \in {"idle", "sr", "st"}  BY ONLY <2>1, <2>2
  <2> QED  BY <1>2, <2>1, <2>3
<1> QED  BY <1>1, <1>2

\* twi.c:386-391: between two calls the bus is free, or a repeated START is
\* kept for the next transfer with its interrupt off.
THEOREM TenureKept == Spec => []BusTenure
BY Invariant, TenureHolds, PTL

\* and the reply.
LEMMA ReplyHolds == IInv => ReplySent
<1> USE Zenon
<1> SUFFICES ASSUME IInv, ~Race, ~bus.slow, phase = "st", status = "none"
             PROVE  answered < Len(Reply) /\ twdr = Reply[answered + 1]
  BY Zenon DEF ReplySent
<1>1. bus.master /\ bus.transfers = 0
  <2>1. ~bus.master => phase # "st"
    <3>1. ~bus.master => phase \in {"off", "idle", "restart", "address", "mt", "mr"}
      BY IInv DEF IInv, SoleInv
    <3> QED  BY ONLY <3>1
  <2> QED  BY <2>1, phase = "st", IInv, ~Race, Regimes
<1>2. /\ Holds(Reply, slaveTx, slaveTxLength) /\ slaveTxIndex = answered + 1 /\ slaveTxIndex <= slaveTxLength
      /\ twdr = slaveTx[slaveTxIndex - 1]
  BY <1>1, IInv, ~bus.slow, phase = "st", status = "none" DEF IInv, ReplyInv
<1>3. Len(Reply) = slaveTxLength /\ \A i \in 1..slaveTxLength : Reply[i] = slaveTx[i - 1]
  BY <1>2 DEF Holds
<1>4. answered \in Nat /\ slaveTxLength \in Int /\ Size \in Nat
  <2>1. Size \in Nat  BY ONLY Constants
  <2>2. answered \in Nat /\ slaveTxLength \in 0..Size
    BY IInv DEF IInv, TypeInv, HistoryType, SlaveType
  <2> QED  BY ONLY <2>1, <2>2
<1>5. slaveTxIndex \in 1..slaveTxLength /\ answered < slaveTxLength  BY ONLY <1>2, <1>4
<1> QED  BY <1>2, <1>3, <1>5

\* twi.c:494-508: what another master reads is the callback's reply, byte by
\* byte and no further, or one zero byte if the callback gave none.
THEOREM ReplyTrue == Spec => []ReplySent
BY Invariant, ReplyHolds, PTL

\* The result of endTransmission, when it returns.
LEMMA WriteResult ==
  ASSUME IInv, ~Race, twi_writeTo_return
  PROVE  /\ WriteStatus = 0 => /\ transfer.sla = "ack" /\ ~transfer.nacked
                               /\ transfer.bytes = composed
         /\ WriteStatus = 2 => transfer.sla = "nack"
         /\ WriteStatus = 3 => transfer.sla = "ack" /\ transfer.nacked
<1> USE Zenon
<1>1. pc = "wait" /\ mode = "TWI_MTX" /\ twi_state # "TWI_MTX"
  BY DEF twi_writeTo_return, Done
<1>2. ~Running /\ pc \in {"start", "wait"} /\ pc \notin {"off", "idle"}  BY ONLY <1>1 DEF Running
<1>3. ~bus.master
  <2>1. ~(bus.master /\ bus.transfers = 0)  BY <1>2 DEF IInv, SlaveInv
  <2> QED  BY <2>1, Regimes
<1>4. /\ twi_error = "none" => /\ transfer.sla = "ack" /\ ~transfer.nacked
                               /\ Holds(transfer.bytes, masterBuffer, length)
      /\ twi_error = "TW_MT_SLA_NACK" => transfer.sla = "nack"
      /\ twi_error = "TW_MT_DATA_NACK" => transfer.sla = "ack" /\ transfer.nacked
  BY <1>1, <1>2, <1>3 DEF IInv, TransferInv, SentInv
<1>5. Holds(composed, masterBuffer, length)
  BY <1>1, <1>2, <1>3 DEF IInv, ComposeInv
<1>6. transfer.bytes \in Seq(Byte) /\ composed \in Seq(Byte)
  <2>1. transfer \in [sla : {"none", "ack", "nack"}, bytes : Seq(Byte), nacked : BOOLEAN] /\ composed \in Seq(Byte)
    BY DEF IInv, TypeInv, HistoryType, WireType
  <2> QED  BY ONLY <2>1
<1>7. twi_error = "none" => transfer.bytes = composed  BY <1>4, <1>5, <1>6, HoldsBoth
<1>8. /\ WriteStatus = 0 => twi_error = "none"
      /\ WriteStatus = 2 => twi_error = "TW_MT_SLA_NACK"
      /\ WriteStatus = 3 => twi_error = "TW_MT_DATA_NACK"
  BY ONLY DEF WriteStatus
<1> QED  BY <1>4, <1>7, <1>8

\* The result of requestFrom, when it returns.
LEMMA ReadResult ==
  ASSUME IInv, ~Race, requestFrom_return
  PROVE  /\ Prefix(rxBuffer', rxBufferLength') = transfer.bytes
         /\ \/ transfer.sla # "ack" \/ twi_error # "none"
            \/ rxBufferLength' = asked /\ transfer.nacked
<1> USE Zenon
<1>1. pc = "requested" /\ rxBufferLength' = length /\ rxBuffer' = rxBuffer
  BY DEF requestFrom_return
<1>2. pc \notin {"off", "idle"}  BY ONLY <1>1
<1>3. ~bus.master
  <2>1. ~(bus.master /\ bus.transfers = 0)  BY <1>2 DEF IInv, SlaveInv
  <2> QED  BY <2>1, Regimes
<1>4. /\ Holds(transfer.bytes, rxBuffer, length)
      /\ transfer.sla # "ack" \/ twi_error # "none" \/ (length = asked /\ transfer.nacked)
  BY <1>1, <1>3 DEF IInv, TransferInv, FetchedInv
<1>5. transfer.bytes \in Seq(Byte)
  <2>1. transfer \in [sla : {"none", "ack", "nack"}, bytes : Seq(Byte), nacked : BOOLEAN]
    BY DEF IInv, TypeInv, HistoryType
  <2> QED  BY ONLY <2>1
<1>6. Prefix(rxBuffer, length) = transfer.bytes  BY <1>4, <1>5, HoldsPrefix
<1> QED  BY <1>1, <1>4, <1>6

\* twi.c:135-140, 186-190: for a sole master of any number of transfers, what
\* endTransmission returns and what requestFrom makes available is what took
\* place on the bus.
THEOREM ResultsTrue == Spec => ResultTrue
<1>1. IInv /\ [Next]_vars =>
        [~Race =>
           /\ twi_writeTo_return =>
                /\ WriteStatus = 0 => /\ transfer.sla = "ack" /\ ~transfer.nacked
                                      /\ transfer.bytes = composed
                /\ WriteStatus = 2 => transfer.sla = "nack"
                /\ WriteStatus = 3 => transfer.sla = "ack" /\ transfer.nacked
           /\ requestFrom_return =>
                /\ Prefix(rxBuffer', rxBufferLength') = transfer.bytes
                /\ \/ transfer.sla # "ack" \/ twi_error # "none"
                   \/ rxBufferLength' = asked /\ transfer.nacked]_vars
  BY ONLY WriteResult, ReadResult, Zenon
<1> QED  BY <1>1, Invariant, PTL DEF Spec, ResultTrue

\* The bytes of the driver's buffer are the beginning of the message.
LEMMA KeptPrefix ==
  ASSUME NEW s \in Seq(Byte), NEW buffer, NEW k, Kept(s, Len(s), buffer, k)
  PROVE  Prefix(buffer, k) = SubSeq(s, 1, IF Len(s) < TWI_BUFFER_LENGTH THEN Len(s) ELSE TWI_BUFFER_LENGTH)
<1> USE Zenon
<1>1. k = (IF Len(s) < Size THEN Len(s) ELSE Size) /\ \A i \in 1..k : s[i] = buffer[i - 1]
  BY DEF Kept
<1>2. Len(s) \in Nat /\ Size \in Nat /\ Size = TWI_BUFFER_LENGTH
  <2>1. Len(s) \in Nat  BY ONLY ByteSequence, s \in Seq(Byte)
  <2> QED  BY ONLY <2>1, Constants DEF Size
<1>3. k \in 0..Len(s) /\ k \in Int /\ 1 \in Int  BY ONLY <1>1, <1>2
<1>4. \A i \in 1..k : s[i] \in Byte
  <2> SUFFICES ASSUME NEW i \in 1..k PROVE s[i] \in Byte  OBVIOUS
  <2>1. i \in 1..Len(s)  BY ONLY i \in 1..k, <1>2, <1>3
  <2> QED  BY ONLY <2>1, s \in Seq(Byte), ByteSequence
<1> DEFINE u == SubSeq(s, 1, k)
<1>5. /\ u \in Seq(Byte)
      /\ Len(u) = IF 1 <= k THEN k - 1 + 1 ELSE 0
      /\ \A i \in 1..(k - 1 + 1) : u[i] = s[1 + i - 1]
  BY ONLY <1>3, <1>4, BytePrefix
<1> HIDE DEF u
<1>6. Len(u) = k /\ k - 1 + 1 = k  BY ONLY <1>2, <1>3, <1>5
<1>7. \A i \in 1..k : u[i] = buffer[i - 1]
  <2> SUFFICES ASSUME NEW i \in 1..k PROVE u[i] = buffer[i - 1]  OBVIOUS
  <2>1. 1 + i - 1 = i  BY ONLY <1>3, i \in 1..k
  <2>2. u[i] = s[1 + i - 1]  BY <1>5, <1>6, i \in 1..k
  <2> QED  BY <1>1, <2>1, <2>2, i \in 1..k
<1>8. Prefix(buffer, k) = u
  <2>1. u \in Seq(Byte) /\ Holds(u, buffer, k)  BY <1>5, <1>6, <1>7 DEF Holds
  <2> QED  BY <2>1, HoldsPrefix
<1>9. k = IF Len(s) < TWI_BUFFER_LENGTH THEN Len(s) ELSE TWI_BUFFER_LENGTH  BY <1>1, <1>2
<1> QED  BY <1>8, <1>9 DEF u

\* What the sketch is handed, when it is.
LEMMA MessageTaken ==
  ASSUME IInv, onReceiveService, ~bus.slow, "onReceive" \in user, rxBufferIndex >= rxBufferLength
  PROVE  Prefix(rxBuffer', rxBufferLength') =
           SubSeq(heard, 1, IF Len(heard) < TWI_BUFFER_LENGTH THEN Len(heard) ELSE TWI_BUFFER_LENGTH)
<1> USE Zenon
<1>1. /\ isr = "onSlaveReceive" /\ rxBufferLength' = slaveRxIndex
      /\ rxBuffer' = [i \in Slot |-> IF i < slaveRxIndex THEN slaveRx[i] ELSE rxBuffer[i]]
  BY DEF onReceiveService
<1>2. Kept(heard, Len(heard), slaveRx, slaveRxIndex)
  BY <1>1 DEF IInv, MessageInv
<1>3. heard \in Seq(Byte) /\ slaveRxIndex \in 0..Size
  BY DEF IInv, TypeInv, HistoryType, SlaveType
<1>4. Prefix(rxBuffer', slaveRxIndex) = Prefix(slaveRx, slaveRxIndex)
  <2>1. \A i \in 1..slaveRxIndex : rxBuffer'[i - 1] = slaveRx[i - 1]
    <3> SUFFICES ASSUME NEW i \in 1..slaveRxIndex PROVE rxBuffer'[i - 1] = slaveRx[i - 1]  OBVIOUS
    <3>1. i - 1 \in Slot /\ i - 1 < slaveRxIndex  BY ONLY <1>3, i \in 1..slaveRxIndex, Constants DEF Slot
    <3> QED  BY ONLY <1>1, <3>1
  <2> QED  BY <2>1 DEF Prefix
<1> QED  BY <1>1, <1>2, <1>3, <1>4, KeptPrefix

\* twi.c:450-475, Wire.cpp:250-252: on every bus, a competing master included,
\* onReceive is given the bytes that were sent, in order, as many as the
\* buffer holds, and bytes the sketch has not read stay as they are.
THEOREM MessagesTrue == Spec => MessageHanded
<1> USE Zenon
<1>1. IInv /\ [Next]_vars =>
        [/\ onReceiveService /\ ~bus.slow /\ "onReceive" \in user /\ rxBufferIndex >= rxBufferLength =>
              Prefix(rxBuffer', rxBufferLength') =
                        SubSeq(heard, 1, IF Len(heard) < TWI_BUFFER_LENGTH
                                        THEN Len(heard) ELSE TWI_BUFFER_LENGTH)
         /\ Handler /\ rxBufferIndex < rxBufferLength => UNCHANGED wireRx]_vars
  <2>1. ASSUME IInv, Handler, rxBufferIndex < rxBufferLength PROVE UNCHANGED wireRx
    <3>1. ~(rxBufferIndex >= rxBufferLength)
      <4>1. rxBufferIndex \in 0..BUFFER_LENGTH /\ rxBufferLength \in 0..BUFFER_LENGTH
        BY <2>1 DEF IInv, TypeInv, WireType
      <4> QED  BY ONLY <2>1, <4>1, Constants
    <3>2. UNCHANGED wire => UNCHANGED wireRx  BY Tuples DEF wireRx, Apart
    <3>3. onReceiveService => UNCHANGED wireRx  BY <3>1 DEF onReceiveService
    <3>4. onRequestService => UNCHANGED wireRx  BY CallbackFrame DEF CallbacksKeep
    <3> QED  BY <2>1, <3>2, <3>3, <3>4 DEF Handler
  <2> QED  BY <2>1, MessageTaken
<1> QED  BY <1>1, Invariant, PTL DEF Spec, MessageHanded
=============================================================================
