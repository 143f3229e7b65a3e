------------------------------- MODULE Wire -------------------------------
(***************************************************************************)
(* The Wire library (libraries/Wire/Wire.cpp) over the two-wire driver: a  *)
(* sketch that is a master and may also be a slave, its callbacks, which   *)
(* run inside TWI_vect, and the buffers both sides share.                  *)
(***************************************************************************)
EXTENDS Twi

CONSTANTS
  BUFFER_LENGTH

ASSUME WireAssumption ==
  /\ BUFFER_LENGTH \in TWI_BUFFER_LENGTH..254
  /\ \A b \in Buses : b.size <= BUFFER_LENGTH + 1

VARIABLES
  rxBuffer, rxBufferIndex, rxBufferLength,
  txBuffer, txBufferIndex, txBufferLength,
  transmitting,
  user,              \* the callbacks the sketch has registered
  transfers,         \* bound: transfers started
  datum,             \* the argument of write()
  composed,          \* history: bytes the sketch wrote since beginTransmission
  asked,             \* history: the clamped quantity of requestFrom
  given              \* history: the reply of the onRequest callback

wireRx == <<rxBuffer, rxBufferIndex, rxBufferLength>>
wireTx == <<txBuffer, txBufferIndex, txBufferLength, transmitting>>
history == <<transfers, composed, asked, given>>
wire == <<wireRx, wireTx, user, datum, history>>
vars == <<bus, peripheral, busHist, driver, wire>>

Slot == 0..(BUFFER_LENGTH - 1)
Prefix(buffer, n) == [i \in 1..n |-> buffer[i - 1]]

\* Transfers of the sketch and messages of another master meet on the bus.
\* twi_writeTo and twi_readFrom test and set twi_state in two steps and take
\* any change of it for the end of their transfer: what they return, and a
\* reply that is being sent when they write TWCR, are then not reliable.
Race == bus.master /\ bus.transfers > 0

\* Every variable has its type, and the handler stays inside its buffers,
\* whatever is sent and asked for (twi.c: the tests of TWI_BUFFER_LENGTH).
\* With slow callbacks a request can be lost, and the reply is then read from
\* where the last one ended.
TypeOK ==
  /\ PeripheralTypeOK /\ TwiTypeOK
  /\ rxBuffer \in [Slot -> Byte]
  /\ rxBufferIndex \in 0..BUFFER_LENGTH /\ rxBufferLength \in 0..BUFFER_LENGTH
  /\ txBuffer \in [Slot -> Byte]
  /\ txBufferIndex \in 0..255 /\ txBufferLength \in 0..255
  /\ transmitting \in BOOLEAN
  /\ user \subseteq {"onReceive", "onRequest"}
  /\ datum \in Byte
  /\ transfers \in 0..bus.transfers
  /\ composed \in Seq(Byte) /\ asked \in 0..BUFFER_LENGTH
  /\ given \in Seq(Byte)
  /\ ~Race => /\ masterIndex <= TWI_BUFFER_LENGTH /\ slaveRxIndex <= TWI_BUFFER_LENGTH
              /\ slaveTxLength <= TWI_BUFFER_LENGTH
              /\ ~bus.slow => slaveTxIndex <= TWI_BUFFER_LENGTH

Init ==
  /\ PeripheralInit /\ TwiInit
  /\ rxBuffer = [i \in Slot |-> Null] /\ rxBufferIndex = 0 /\ rxBufferLength = 0
  /\ txBuffer = [i \in Slot |-> Null] /\ txBufferIndex = 0 /\ txBufferLength = 0
  /\ transmitting = FALSE /\ user = {} /\ datum = Null
  /\ transfers = 0 /\ composed = <<>> /\ asked = 0
  /\ given = <<>>

-----------------------------------------------------------------------------
(***************************************************************************)
(* The sketch.                                                             *)
(***************************************************************************)

SketchIdle == SketchRuns /\ pc = "idle"

\* begin(address): addressed as a slave from here on.
begin ==
  /\ pc = "off"
  /\ pc' = "idle"
  /\ twi_init
  /\ rxBufferIndex' = 0 /\ rxBufferLength' = 0
  /\ txBufferIndex' = 0 /\ txBufferLength' = 0
  /\ UNCHANGED <<mode, length, sendStop, rxBuffer, txBuffer, transmitting, user, datum,
                 history>>

onReceive ==
  /\ SketchIdle /\ user' = user \cup {"onReceive"} /\ user' # user
  /\ UNCHANGED <<peripheral, busHist, driver, wireRx, wireTx, datum, history>>

onRequest ==
  /\ SketchIdle /\ user' = user \cup {"onRequest"} /\ user' # user
  /\ UNCHANGED <<peripheral, busHist, driver, wireRx, wireTx, datum, history>>

beginTransmission ==
  /\ SketchIdle /\ transfers < bus.transfers
  /\ transfers' = transfers + 1
  /\ transmitting' = TRUE /\ txBufferIndex' = 0 /\ txBufferLength' = 0
  /\ composed' = <<>>
  /\ UNCHANGED <<peripheral, busHist, driver, wireRx, txBuffer, user, datum,
                 asked, given>>

\* write(data) up to the test of the buffer; a full one refuses the byte.
write ==
  /\ SketchIdle /\ transmitting /\ txBufferLength < BUFFER_LENGTH
  /\ Len(composed) < bus.size
  /\ datum' \in bus.data
  /\ pc' = "store"
  /\ UNCHANGED <<peripheral, busHist, flags, master, slave, isr, mode, length, sendStop,
                 wireRx, wireTx, user, history>>

write_store ==
  /\ SketchRuns /\ pc = "store"
  /\ txBuffer' = [txBuffer EXCEPT ![txBufferIndex] = datum]
  /\ txBufferIndex' = UInt8(txBufferIndex + 1) /\ txBufferLength' = txBufferIndex'
  /\ composed' = Append(composed, datum)
  /\ pc' = "idle" /\ datum' = Null
  /\ UNCHANGED <<peripheral, busHist, flags, master, slave, isr, mode, length, sendStop,
                 wireRx, transmitting, user, transfers, asked, given>>

\* What endTransmission does once twi_writeTo has returned.
EndTail ==
  /\ txBufferIndex' = 0 /\ txBufferLength' = 0 /\ transmitting' = FALSE
  /\ composed' = <<>>
  /\ UNCHANGED <<wireRx, txBuffer, user, datum, transfers, asked, given>>

endTransmission ==
  /\ SketchIdle /\ transmitting
  /\ IF TWI_BUFFER_LENGTH < txBufferLength
     THEN EndTail /\ UNCHANGED <<peripheral, busHist, driver>>
     ELSE /\ \E stop \in BOOLEAN : Call("TWI_MTX", txBufferLength, stop)
          /\ UNCHANGED wire

twi_writeTo_return ==
  /\ Done("TWI_MTX")
  /\ EndTail
  /\ pc' = "idle" /\ length' = 0 /\ transfer' = NoTransfer
  /\ UNCHANGED <<peripheral, heard, answered, flags, master, slave, isr, mode, sendStop>>

Fits(n) == IF n > BUFFER_LENGTH THEN BUFFER_LENGTH ELSE n

requestFrom ==
  /\ SketchIdle
  /\ \E q \in 1..bus.size, stop \in BOOLEAN :
       LET n == Fits(q) IN
       /\ IF TWI_BUFFER_LENGTH < n
          THEN /\ rxBufferIndex' = 0 /\ rxBufferLength' = 0
               /\ UNCHANGED <<peripheral, busHist, driver, transfers, asked>>
          ELSE /\ Call("TWI_MRX", n, stop)
               /\ asked' = n
               /\ transfers < bus.transfers /\ transfers' = transfers + 1
               /\ UNCHANGED <<rxBufferIndex, rxBufferLength>>
  /\ UNCHANGED <<rxBuffer, wireTx, user, datum, composed, given>>

\* twi_readFrom copies the bytes into Wire's buffer ...
twi_readFrom_return ==
  /\ Done("TWI_MRX")
  /\ length' = ReadLength
  /\ rxBuffer' = [i \in Slot |-> IF i < length' THEN masterBuffer[i] ELSE rxBuffer[i]]
  /\ pc' = "requested"
  /\ UNCHANGED <<peripheral, busHist, flags, master, slave, isr, mode, sendStop,
                 rxBufferIndex, rxBufferLength, wireTx, user, datum, history>>

\* ... and requestFrom then makes them available.
requestFrom_return ==
  /\ SketchRuns /\ pc = "requested"
  /\ rxBufferIndex' = 0 /\ rxBufferLength' = length /\ asked' = 0
  /\ pc' = "idle" /\ length' = 0 /\ transfer' = NoTransfer
  /\ UNCHANGED <<peripheral, heard, answered, flags, master, slave, isr, mode, sendStop,
                 rxBuffer, wireTx, user, datum, transfers, composed, given>>

read ==
  /\ SketchIdle /\ rxBufferIndex < rxBufferLength
  /\ rxBufferIndex' = rxBufferIndex + 1
  /\ UNCHANGED <<peripheral, busHist, driver, rxBuffer, rxBufferLength, wireTx, user,
                 datum, history>>

-----------------------------------------------------------------------------
(***************************************************************************)
(* The callbacks TWI_vect makes.                                           *)
(***************************************************************************)

\* The message goes to the sketch unless bytes of requestFrom are unread; the
\* sketch's callback reads as many of its bytes as it likes.
onReceiveService ==
  /\ isr = "onSlaveReceive" /\ isr' = "received"
  /\ IF "onReceive" \in user /\ rxBufferIndex >= rxBufferLength
     THEN /\ rxBuffer' = [i \in Slot |-> IF i < slaveRxIndex THEN slaveRx[i] ELSE rxBuffer[i]]
          /\ rxBufferLength' = slaveRxIndex
          /\ rxBufferIndex' \in 0..slaveRxIndex
     ELSE UNCHANGED wireRx
  /\ UNCHANGED <<peripheral, busHist, flags, master, slave, call, wireTx, user, datum,
                 transfers, composed, asked, given>>

\* The sketch's callback writes a reply, which write() takes for part of the
\* message the sketch is composing if it is.
onRequestService ==
  /\ isr = "onSlaveTransmit" /\ isr' = "filled"
  /\ IF "onRequest" \in user
     THEN \E n \in 0..bus.size : \E reply \in [1..n -> bus.data] :
          /\ given' = reply
          /\ IF transmitting
             THEN /\ txBuffer' = [i \in Slot |-> IF i < n THEN reply[i + 1] ELSE txBuffer[i]]
                  /\ txBufferIndex' = Fits(n) /\ txBufferLength' = Fits(n)
                  /\ UNCHANGED slave
             ELSE /\ txBufferIndex' = 0 /\ txBufferLength' = 0
                  /\ twi_transmit(reply)
                  /\ UNCHANGED <<txBuffer, slaveTxIndex, slaveRx, slaveRxIndex>>
     ELSE /\ given' = <<>>
          /\ UNCHANGED <<slave, txBuffer, txBufferIndex, txBufferLength>>
  /\ UNCHANGED <<peripheral, busHist, flags, master, call, wireRx, transmitting, user,
                 datum, transfers, composed, asked>>

-----------------------------------------------------------------------------
SketchNext ==
  \/ begin \/ onReceive \/ onRequest \/ beginTransmission \/ write \/ endTransmission
  \/ requestFrom \/ read

twi_writeTo ==
  /\ \/ AwaitReady \/ Claim \/ Start \/ twi_writeTo_setup(txBuffer)
  /\ mode = "TWI_MTX" /\ UNCHANGED wire

twi_readFrom ==
  /\ \/ AwaitReady \/ Claim \/ Start \/ twi_readFrom_setup
  /\ mode = "TWI_MRX" /\ UNCHANGED wire

\* A call the sketch has made goes on.
Continue ==
  \/ twi_writeTo \/ twi_readFrom \/ write_store
  \/ twi_writeTo_return \/ twi_readFrom_return \/ requestFrom_return

Handler == (TWI_vect /\ UNCHANGED wire) \/ onReceiveService \/ onRequestService

\* When the callbacks are short nobody addresses us while they run, after
\* twi_stop has given the bus free.  LossBound: each request that is lost while
\* one runs moves the index further past the reply.
LossBound == slaveTxIndex <= TWI_BUFFER_LENGTH + 2

Hardware ==
  /\ isr = "none" \/ (bus.slow /\ LossBound)
  /\ PeripheralNext
  /\ UNCHANGED <<driver, wire>>

Next == (SketchNext \/ Continue \/ Handler \/ Hardware) /\ UNCHANGED bus

Spec == Init /\ [][Next]_vars

\* The sketch polls twi_state far more often than a transfer on the bus can
\* change it, so a wait whose condition keeps coming true ends.  Devices and
\* other masters finish what they begin.
FairSpec ==
  /\ Spec
  /\ SF_vars(Continue /\ UNCHANGED bus)
  /\ WF_vars(Handler /\ UNCHANGED bus) /\ WF_vars(Hardware /\ UNCHANGED bus)
  /\ SF_vars(Hardware /\ SlaveStopReceived /\ UNCHANGED bus)

-----------------------------------------------------------------------------
(***************************************************************************)
(* Properties.                                                             *)
(***************************************************************************)

\* endTransmission's result is what happened on the bus (twi.c:186-190): 0
\* only if the device took the address and every byte the sketch wrote, in
\* order; 2 only if it refused the address; 3 only if it refused a byte.
\* requestFrom makes available exactly the bytes the device sent, all those
\* asked for unless the device or the bus failed, and the device was told
\* which was the last by a NACK (twi.c:135-140).
ResultTrue ==
  [][~Race =>
       /\ twi_writeTo_return =>
            /\ WriteStatus = 0 => /\ transfer.sla = "ack" /\ ~transfer.nacked
                                  /\ transfer.bytes = composed
            /\ WriteStatus = 2 => transfer.sla = "nack"
            /\ WriteStatus = 3 => transfer.sla = "ack" /\ transfer.nacked
       /\ requestFrom_return =>
            /\ Prefix(rxBuffer', rxBufferLength') = transfer.bytes
            /\ \/ transfer.sla # "ack" \/ twi_error # "none"
               \/ rxBufferLength' = asked /\ transfer.nacked]_vars

\* Between two calls the bus is free, or it is ours, the repeated START is
\* out and its interrupt is off until the next transfer (twi.c:386-391).
BusTenure ==
  ~Race /\ pc = "idle" /\ isr = "none" =>
    IF twi_inRepStart
    THEN (phase = "restart" /\ (twsta \/ status = "TW_REP_START") /\ ~twie)
    ELSE (phase \in {"idle", "sr", "st"} /\ twie)

\* onReceive is given the bytes the other master sent, in order, up to the
\* size of the buffer (twi.c:450-475), also when the message meets a transfer
\* of the sketch; bytes the sketch has not read are kept, and the message is
\* dropped (Wire.cpp:250-252).  While a callback runs, the address of the next
\* message is lost: twi_releaseBus clears the status unseen (twi.c:474).
MessageHanded ==
  [][/\ onReceiveService /\ ~bus.slow /\ "onReceive" \in user /\ rxBufferIndex >= rxBufferLength =>
          Prefix(rxBuffer', rxBufferLength') =
                    SubSeq(heard, 1, IF Len(heard) < TWI_BUFFER_LENGTH
                                    THEN Len(heard) ELSE TWI_BUFFER_LENGTH)
     /\ Handler /\ rxBufferIndex < rxBufferLength => UNCHANGED wireRx]_vars

\* The bytes that should answer the other master.
Reply == IF Len(given) \in 1..TWI_BUFFER_LENGTH THEN given ELSE <<Null>>

\* What another master reads is the reply of the onRequest callback, byte by
\* byte and no further, or one zero byte (twi.c:494-508).
ReplySent ==
  ~Race /\ ~bus.slow /\ phase = "st" /\ status = "none" =>
    answered < Len(Reply) /\ twdr = Reply[answered + 1]

\* endTransmission and requestFrom return, whoever else uses the bus, when
\* nobody sends us more than one byte too many: after the second the driver
\* waits for a STOP the hardware does not report.
CallReturns ==
  bus.remote <= TWI_BUFFER_LENGTH + 1 => (pc \notin {"off", "idle"} ~> pc = "idle")
=============================================================================
