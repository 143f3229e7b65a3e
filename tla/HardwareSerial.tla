--------------------------- MODULE HardwareSerial ---------------------------
(***************************************************************************)
(* Serial1, the USART1 port of the AT90USB core                            *)
(* (cores/AT90USB/HardwareSerial.cpp): the sketch's thread, the receive    *)
(* and the data-register-empty interrupt handlers, and the USART itself.   *)
(*                                                                         *)
(* The sketch's calls are split where an interrupt between two of their    *)
(* volatile accesses can be told apart; pc is where the sketch is, isr     *)
(* where the data-register-empty handler is, which spins with interrupts   *)
(* off until its byte is sent (the RS-485 change of this port).            *)
(***************************************************************************)
EXTENDS SerialRing, Sequences, FiniteSets

CONSTANTS
  Byte,        \* the characters
  NoByte,      \* no character in a local variable
  Pins,        \* Arduino pin numbers a sketch passes to setPin
  RxDepth,     \* characters the receiver holds before it overruns
  MaxTx,       \* bound: characters the sketch writes
  MaxRx,       \* bound: characters that arrive
  Sketches     \* the sketches to consider, each the liberties it takes

\* What the sketch and the rest of the firmware may do.
AllLiberties ==
  { "late",         \* other handlers delay the data-register-empty one
    "mask",         \* the sketch calls write() with interrupts off
    "rebegin",      \* begin() on a port that is open
    "writeClosed",  \* write() on a port that is not open
    "flush" }       \* the sketch calls flush()

ASSUME SerialAssumption ==
  /\ NoByte \notin Byte
  /\ Pins \subseteq Nat
  /\ RxDepth \in Nat \ {0}
  /\ MaxTx \in Nat
  /\ MaxRx \in Nat
  /\ Sketches \subseteq SUBSET AllLiberties

VARIABLES
  liberties,                  \* what this sketch does; never changes
  txBuffer, txHead, txTail,   \* tx_buffer1
  rxBuffer, rxHead, rxTail,   \* rx_buffer1
  transmitting,               \* HardwareSerial::transmitting
  pin,                        \* _pin, 0 when there is no RS-485 driver
  pc, lc, li,                 \* the sketch: control point and locals c and i
  isr,                        \* control point of the UDRE handler
  ie,                         \* global interrupt enable
  rxen, txen, rxcie, udrie,   \* UCSR1B
  txc,                        \* UCSR1A.TXC1
  udr, shift,                 \* transmit data and shift register, <<>> if empty
  fifo,                       \* received characters not read from UDR1
  driven,                     \* the pins that are HIGH
  written, taken, line,       \* history: write()n, given to UDR1, on the wire
  arrivals, stored, got       \* history: arrivals, put in rx_buffer1, read()

txRing  == <<txBuffer, txHead, txTail>>
rxRing  == <<rxBuffer, rxHead, rxTail>>
sketch  == <<pc, lc, li>>
enables == <<rxen, txen, rxcie, udrie>>
usartTx == <<txc, udr, shift, line>>
usartRx == <<fifo, arrivals>>
txHist  == <<written, taken>>
rxHist  == <<stored, got>>

vars == <<txRing, rxRing, transmitting, pin, sketch, isr, ie, enables,
          usartTx, usartRx, driven, txHist, rxHist, liberties>>

PC == {"idle", "begin", "beginConfig", "writeFull", "writeHead", "writeUdrie",
       "writeTxc", "read", "flush", "end", "setPin"}

\* Every variable has its type: the indices of both rings stay inside them.
TypeOK ==
  /\ txBuffer \in [Slot -> Byte \cup {NoByte}] /\ txHead \in Slot /\ txTail \in Slot
  /\ rxBuffer \in [Slot -> Byte \cup {NoByte}] /\ rxHead \in Slot /\ rxTail \in Slot
  /\ transmitting \in BOOLEAN
  /\ pin \in Pins \cup {0}
  /\ pc \in PC /\ lc \in Byte \cup {NoByte} /\ li \in Slot
  /\ isr \in {"none", "sending", "clearing"}
  /\ ie \in BOOLEAN
  /\ rxen \in BOOLEAN /\ txen \in BOOLEAN /\ rxcie \in BOOLEAN /\ udrie \in BOOLEAN
  /\ txc \in BOOLEAN
  /\ udr \in Seq(Byte) /\ shift \in Seq(Byte)
  /\ fifo \in Seq([c : Byte, upe : BOOLEAN])
  /\ driven \subseteq Pins
  /\ written \in Seq(Byte) /\ taken \in Seq(Byte) /\ line \in Seq(Byte)
  /\ arrivals \in Nat /\ stored \in Seq(Byte) /\ got \in Seq(Byte)

Init ==
  /\ liberties \in Sketches
  /\ txBuffer = [s \in Slot |-> NoByte] /\ txHead = 0 /\ txTail = 0
  /\ rxBuffer = [s \in Slot |-> NoByte] /\ rxHead = 0 /\ rxTail = 0
  /\ transmitting = FALSE
  /\ pin = 0
  /\ pc = "idle" /\ lc = NoByte /\ li = 0
  /\ isr = "none"
  /\ ie = TRUE
  /\ rxen = FALSE /\ txen = FALSE /\ rxcie = FALSE /\ udrie = FALSE
  /\ txc = FALSE
  /\ udr = <<>> /\ shift = <<>>
  /\ fifo = <<>>
  /\ driven = {}
  /\ written = <<>> /\ taken = <<>> /\ line = <<>>
  /\ arrivals = 0 /\ stored = <<>> /\ got = <<>>

-----------------------------------------------------------------------------
(***************************************************************************)
(* The USART.                                                              *)
(***************************************************************************)

\* A character written to UDR1 starts at once when the transmitter is enabled
\* and idle, and waits in the data register otherwise.
UDR1write(c) ==
  IF shift = <<>> /\ txen
  THEN shift' = <<c>> /\ UNCHANGED udr
  ELSE udr' = <<c>> /\ UNCHANGED shift

\* The last bit of a frame leaves; TXC1 is set only if the data register is
\* empty, and writing UDR1 never clears it.
ShiftOut ==
  /\ shift # <<>>
  /\ line' = line \o shift
  /\ shift' = udr
  /\ udr' = <<>>
  /\ txc' = (txc \/ udr = <<>>)
  /\ UNCHANGED <<txRing, rxRing, transmitting, pin, sketch, isr, ie, enables,
                 usartRx, driven, txHist, rxHist>>

\* A character arrives; upe is its parity error flag. A full receiver drops it.
Arrive ==
  /\ rxen
  /\ arrivals < MaxRx
  /\ arrivals' = arrivals + 1
  /\ \E c \in Byte, upe \in BOOLEAN :
       fifo' = IF Len(fifo) < RxDepth
               THEN Append(fifo, [c |-> c, upe |-> upe]) ELSE fifo
  /\ UNCHANGED <<txRing, rxRing, transmitting, pin, sketch, isr, ie, enables,
                 usartTx, driven, txHist, rxHist>>

-----------------------------------------------------------------------------
(***************************************************************************)
(* The interrupt handlers.                                                 *)
(***************************************************************************)

\* store_char(): the character is dropped when the ring is full.
store_char(c) ==
  IF NextSlot(rxHead) # rxTail
  THEN /\ rxBuffer' = [rxBuffer EXCEPT ![rxHead] = c]
       /\ rxHead' = NextSlot(rxHead)
       /\ stored' = Append(stored, c)
  ELSE UNCHANGED <<rxBuffer, rxHead, stored>>

\* SIGNAL(USART1_RX_vect): a character with a parity error is read and dropped.
USART1_RX ==
  /\ ie /\ isr = "none"
  /\ rxcie /\ fifo # <<>>
  /\ fifo' = Tail(fifo)
  /\ IF Head(fifo).upe
     THEN UNCHANGED <<rxBuffer, rxHead, stored>>
     ELSE store_char(Head(fifo).c)
  /\ UNCHANGED <<txRing, rxTail, transmitting, pin, sketch, isr, ie, enables,
                 usartTx, arrivals, driven, txHist, got>>

UdreInterrupt == ie /\ isr = "none" /\ udrie /\ udr = <<>>

\* ISR(USART1_UDRE_vect), buffer empty: the interrupt is disabled.
USART1_UDRE_empty ==
  /\ UdreInterrupt
  /\ txHead = txTail
  /\ udrie' = FALSE
  /\ UNCHANGED <<txRing, rxRing, transmitting, pin, sketch, isr, ie, rxen, txen,
                 rxcie, usartTx, usartRx, driven, txHist, rxHist>>

\* Fault variant: UDR1 is written whether it is empty or not.
USART1_UDRE_unready ==
  /\ ie /\ isr = "none" /\ udrie
  /\ txHead # txTail
  /\ driven' = IF pin > 0 THEN driven \cup {pin} ELSE driven
  /\ txTail' = NextSlot(txTail)
  /\ taken' = Append(taken, txBuffer[txTail])
  /\ UDR1write(txBuffer[txTail])
  /\ isr' = "sending"
  /\ UNCHANGED <<txBuffer, txHead, rxRing, transmitting, pin, sketch, ie, enables,
                 txc, line, usartRx, written, rxHist>>

\* ISR(USART1_UDRE_vect), a byte to send, up to the busy-wait.
USART1_UDRE_send ==
  /\ UdreInterrupt
  /\ txHead # txTail
  /\ driven' = IF pin > 0 THEN driven \cup {pin} ELSE driven
  /\ txTail' = NextSlot(txTail)
  /\ taken' = Append(taken, txBuffer[txTail])
  /\ UDR1write(txBuffer[txTail])
  /\ isr' = "sending"
  /\ UNCHANGED <<txBuffer, txHead, rxRing, transmitting, pin, sketch, ie, enables,
                 txc, line, usartRx, written, rxHist>>

\* Fault variant: the wait for TXC1 is missing.
USART1_UDRE_nowait ==
  /\ isr = "sending"
  /\ isr' = "clearing"
  /\ UNCHANGED <<txRing, rxRing, transmitting, pin, sketch, ie, enables,
                 usartTx, usartRx, driven, txHist, rxHist>>

\* while(!(UCSR1A & _BV(TXC0))) ends.
USART1_UDRE_sent ==
  /\ isr = "sending"
  /\ txc
  /\ isr' = "clearing"
  /\ UNCHANGED <<txRing, rxRing, transmitting, pin, sketch, ie, enables,
                 usartTx, usartRx, driven, txHist, rxHist>>

\* Fault variant: the driver is not released.
USART1_UDRE_keep ==
  /\ isr = "clearing"
  /\ isr' = "none"
  /\ UNCHANGED driven
  /\ UNCHANGED <<txRing, rxRing, transmitting, pin, sketch, ie, enables,
                 usartTx, usartRx, txHist, rxHist>>

\* After _delay_us(SER_CLEAR_TM) the driver is released and the handler returns.
USART1_UDRE_done ==
  /\ isr = "clearing"
  /\ isr' = "none"
  /\ driven' = IF pin > 0 THEN driven \ {pin} ELSE driven
  /\ UNCHANGED <<txRing, rxRing, transmitting, pin, sketch, ie, enables,
                 usartTx, usartRx, txHist, rxHist>>

-----------------------------------------------------------------------------
(***************************************************************************)
(* The sketch. It runs when no handler does; a pending data-register-empty *)
(* interrupt is served before its next statement unless "late".            *)
(***************************************************************************)

At(p) ==
  /\ isr = "none"
  /\ pc = p
  /\ "late" \in liberties \/ ~UdreInterrupt

Return == pc' = "idle" /\ lc' = NoByte /\ li' = 0

GoTo(p) == pc' = p /\ UNCHANGED <<lc, li>>

\* begin(baud) and begin(baud, config), up to the UCSR1B writes. The write of
\* UCSR1A leaves TXC1 alone (a zero written to it has no effect).
Begin ==
  /\ At("idle")
  /\ ~txen \/ "rebegin" \in liberties
  /\ pin' = 0
  /\ \/ GoTo("begin")
     \/ GoTo("beginConfig")
  /\ UNCHANGED <<txRing, rxRing, transmitting, isr, ie, enables,
                 usartTx, usartRx, driven, txHist, rxHist>>

\* The rest of begin; only begin(baud) clears transmitting. Enabling the
\* transmitter starts a character that waits in UDR1.
BeginEnable ==
  /\ \/ At("begin") /\ transmitting' = FALSE
     \/ At("beginConfig") /\ UNCHANGED transmitting
  /\ Return
  /\ rxen' = TRUE /\ txen' = TRUE /\ rxcie' = TRUE /\ udrie' = FALSE
  /\ IF shift = <<>>
     THEN shift' = udr /\ udr' = <<>>
     ELSE UNCHANGED <<shift, udr>>
  /\ UNCHANGED <<txRing, rxRing, pin, isr, ie, txc, line, usartRx, driven,
                 txHist, rxHist>>

\* write(c): the call computes i.
Write ==
  /\ At("idle")
  /\ txen \/ "writeClosed" \in liberties
  /\ Len(written) < MaxTx
  /\ \E c \in Byte : lc' = c
  /\ li' = NextSlot(txHead)
  /\ pc' = "writeFull"
  /\ UNCHANGED <<txRing, rxRing, transmitting, pin, isr, ie, enables,
                 usartTx, usartRx, driven, txHist, rxHist>>

\* Fault variant: the wait for a free slot is missing.
WriteStore_nowait ==
  /\ At("writeFull")
  /\ txBuffer' = [txBuffer EXCEPT ![txHead] = lc]
  /\ GoTo("writeHead")
  /\ UNCHANGED <<txHead, txTail, rxRing, transmitting, pin, isr, ie, enables,
                 usartTx, usartRx, driven, txHist, rxHist>>

\* while (i == tail) ends; the character is stored.
WriteStore ==
  /\ At("writeFull")
  /\ li # txTail
  /\ txBuffer' = [txBuffer EXCEPT ![txHead] = lc]
  /\ GoTo("writeHead")
  /\ UNCHANGED <<txHead, txTail, rxRing, transmitting, pin, isr, ie, enables,
                 usartTx, usartRx, driven, txHist, rxHist>>

\* head = i.
WriteHead ==
  /\ At("writeHead")
  /\ txHead' = li
  /\ written' = Append(written, lc)
  /\ GoTo("writeUdrie")
  /\ UNCHANGED <<txBuffer, txTail, rxRing, transmitting, pin, isr, ie, enables,
                 usartTx, usartRx, driven, taken, rxHist>>

\* Fault variant: the interrupt is enabled by the first write only.
WriteUdrie_once ==
  /\ At("writeUdrie")
  /\ udrie' = (udrie \/ ~transmitting)
  /\ GoTo("writeTxc")
  /\ UNCHANGED <<txRing, rxRing, transmitting, pin, isr, ie, rxen, txen, rxcie,
                 usartTx, usartRx, driven, txHist, rxHist>>

\* sbi(*_ucsrb, _udrie).
WriteUdrie ==
  /\ At("writeUdrie")
  /\ udrie' = TRUE
  /\ GoTo("writeTxc")
  /\ UNCHANGED <<txRing, rxRing, transmitting, pin, isr, ie, rxen, txen, rxcie,
                 usartTx, usartRx, driven, txHist, rxHist>>

\* transmitting = true; sbi(*_ucsra, TXC0), which clears TXC1; return.
WriteTxc ==
  /\ At("writeTxc")
  /\ transmitting' = TRUE
  /\ txc' = FALSE
  /\ Return
  /\ UNCHANGED <<txRing, rxRing, pin, isr, ie, enables, udr, shift, line,
                 usartRx, driven, txHist, rxHist>>

\* Fault variant: the character stored last is loaded.
Read_latest ==
  /\ At("idle")
  /\ rxHead # rxTail
  /\ lc' = rxBuffer[(SERIAL_BUFFER_SIZE + rxHead - 1) % SERIAL_BUFFER_SIZE]
  /\ pc' = "read"
  /\ UNCHANGED <<txRing, rxRing, transmitting, pin, li, isr, ie, enables,
                 usartTx, usartRx, driven, txHist, rxHist>>

\* read(): -1 when the ring is empty, else the character at tail is loaded.
Read ==
  /\ At("idle")
  /\ rxHead # rxTail
  /\ lc' = rxBuffer[rxTail]
  /\ pc' = "read"
  /\ UNCHANGED <<txRing, rxRing, transmitting, pin, li, isr, ie, enables,
                 usartTx, usartRx, driven, txHist, rxHist>>

\* read(): tail moves on and the character is returned.
ReadTail ==
  /\ At("read")
  /\ rxTail' = NextSlot(rxTail)
  /\ got' = Append(got, lc)
  /\ Return
  /\ UNCHANGED <<txRing, rxBuffer, rxHead, transmitting, pin, isr, ie, enables,
                 usartTx, usartRx, driven, txHist, stored>>

\* flush(): the call, and the return when the loop ends.
Flush ==
  /\ At("idle")
  /\ "flush" \in liberties
  /\ GoTo("flush")
  /\ UNCHANGED <<txRing, rxRing, transmitting, pin, isr, ie, enables,
                 usartTx, usartRx, driven, txHist, rxHist>>

FlushDone ==
  /\ At("flush")
  /\ ~transmitting \/ txc
  /\ transmitting' = FALSE
  /\ Return
  /\ UNCHANGED <<txRing, rxRing, pin, isr, ie, enables,
                 usartTx, usartRx, driven, txHist, rxHist>>

\* end(): the call, and everything after the wait for an empty ring. Frames
\* already in the transmitter still go out; the receiver forgets its own.
End ==
  /\ At("idle")
  /\ txen
  /\ GoTo("end")
  /\ UNCHANGED <<txRing, rxRing, transmitting, pin, isr, ie, enables,
                 usartTx, usartRx, driven, txHist, rxHist>>

\* Fault variant: the receive ring is not emptied.
EndDisable_keep ==
  /\ At("end")
  /\ txHead = txTail
  /\ rxen' = FALSE /\ txen' = FALSE /\ rxcie' = FALSE /\ udrie' = FALSE
  /\ fifo' = <<>>
  /\ UNCHANGED rxHead
  /\ stored' = got
  /\ Return
  /\ UNCHANGED <<txRing, rxBuffer, rxTail, transmitting, pin, isr, ie, usartTx,
                 arrivals, driven, txHist, got>>

EndDisable ==
  /\ At("end")
  /\ txHead = txTail
  /\ rxen' = FALSE /\ txen' = FALSE /\ rxcie' = FALSE /\ udrie' = FALSE
  /\ fifo' = <<>>
  /\ rxHead' = rxTail
  /\ stored' = got
  /\ Return
  /\ UNCHANGED <<txRing, rxBuffer, rxTail, transmitting, pin, isr, ie, usartTx,
                 arrivals, driven, txHist, got>>

\* setPin(pin): _pin is set before the pin is made an output and driven LOW.
SetPin ==
  /\ At("idle")
  /\ pin' \in Pins
  /\ GoTo("setPin")
  /\ UNCHANGED <<txRing, rxRing, transmitting, isr, ie, enables,
                 usartTx, usartRx, driven, txHist, rxHist>>

SetPinLow ==
  /\ At("setPin")
  /\ driven' = driven \ {pin}
  /\ Return
  /\ UNCHANGED <<txRing, rxRing, transmitting, pin, isr, ie, enables,
                 usartTx, usartRx, txHist, rxHist>>

\* noInterrupts() and interrupts(), or a handler that calls the port.
MaskInterrupts ==
  /\ At("idle")
  /\ "mask" \in liberties
  /\ ie' = ~ie
  /\ UNCHANGED <<txRing, rxRing, transmitting, pin, sketch, isr, enables,
                 usartTx, usartRx, driven, txHist, rxHist>>

-----------------------------------------------------------------------------
Usart == ShiftOut \/ Arrive

UdreHandler ==
  USART1_UDRE_empty \/ USART1_UDRE_send \/ USART1_UDRE_sent \/ USART1_UDRE_done

\* What the sketch does once it is inside a call.
InCall ==
  \/ BeginEnable \/ WriteStore \/ WriteHead \/ WriteUdrie \/ WriteTxc
  \/ ReadTail \/ FlushDone \/ EndDisable \/ SetPinLow

Call == Begin \/ Write \/ Read \/ Flush \/ End \/ SetPin \/ MaskInterrupts

Step == Usart \/ USART1_RX \/ UdreHandler \/ InCall \/ Call

Next == Step /\ UNCHANGED liberties

Spec == Init /\ [][Next]_vars

\* The transmitter shifts, pending interrupts are served and a call that can
\* go on does; the sketch need not call anything and nothing need arrive.
Fairness ==
  /\ WF_vars(ShiftOut /\ UNCHANGED liberties)
  /\ WF_vars(USART1_RX /\ UNCHANGED liberties)
  /\ WF_vars(UdreHandler /\ UNCHANGED liberties)
  /\ WF_vars(InCall /\ UNCHANGED liberties)

FairSpec == Spec /\ Fairness

-----------------------------------------------------------------------------
(***************************************************************************)
(* Safety.                                                                 *)
(***************************************************************************)

Tx == INSTANCE ByteFifo WITH accepted <- written, delivered <- taken,
        Capacity <- SERIAL_BUFFER_SIZE - 1, MayDiscard <- FALSE

Rx == INSTANCE ByteFifo WITH accepted <- stored, delivered <- got,
        Capacity <- SERIAL_BUFFER_SIZE - 1, MayDiscard <- TRUE

\* write() and the UDRE handler, interleaved in every way, implement a FIFO of
\* SERIAL_BUFFER_SIZE - 1 bytes over tx_buffer1: what reaches UDR1 is what was
\* written, in order, with nothing lost, repeated or overwritten.
TxIsFifo == Tx!FifoSpec

\* store_char(), read() and end() implement a FIFO over rx_buffer1: read()
\* returns the stored characters in order, and only end() discards any.
RxIsFifo == Rx!FifoSpec

\* What peek() returns, NoByte standing for -1.
Peek == IF rxHead = rxTail THEN NoByte ELSE rxBuffer[rxTail]

\* Whatever the receive handler does meanwhile, available() counts the bytes
\* that are stored and not read (for sizes its uint8_t cast can take), and
\* peek() shows the one read() gives next.
ReceiveView ==
  /\ SERIAL_BUFFER_SIZE <= 128 =>
       Available(rxHead, rxTail) = Len(stored) - Len(got)
  /\ Peek = IF Len(stored) = Len(got) THEN NoByte ELSE stored[Len(got) + 1]

\* The RS-485 driver is on only inside the UDRE handler: the sketch never runs
\* while the port holds the bus.
DriverReleased == isr = "none" => driven = {}

\* A sketch that opens a closed port only, and writes to an open one only.
Disciplined == liberties \cap {"rebegin", "writeClosed"} = {}

\* No lost wake-up: queued bytes always find the UDRE interrupt enabled, or
\* write() about to enable it, although the handler disables it on its own.
NoLostWakeup ==
  Disciplined => (txHead # txTail => udrie \/ pc = "writeUdrie")

\* When interrupts are served at once, the handler's wait for TXC1 keeps the
\* RS-485 driver on for as long as a frame is being shifted out.
DriverCoversFrame ==
  liberties \cap {"late", "mask", "writeClosed"} = {} =>
    (shift # <<>> => isr # "none" /\ (pin > 0 => pin \in driven))

(***************************************************************************)
(* Liveness.                                                               *)
(***************************************************************************)

\* write() waits for the handler "to empty it a bit" and end() "for transmission
\* of outgoing data": both waits end, and every byte written reaches the wire,
\* none overwritten in UDR1 on its way.
AllSent ==
  /\ pc = "writeFull" /\ ie /\ Disciplined ~> pc # "writeFull"
  /\ pc = "end" /\ ie /\ Disciplined ~> pc # "end"
  /\ Len(line) < Len(written) /\ Disciplined ~> Len(line) >= Len(written)

\* flush() waits for TXC1, which "triggers when EMPTY && SENT": the wait ends.
FlushReturns == pc = "flush" ~> pc # "flush"
=============================================================================
