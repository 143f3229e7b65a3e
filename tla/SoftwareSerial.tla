--------------------------- MODULE SoftwareSerial ---------------------------
(***************************************************************************)
(* Serial ports in software (libraries/SoftwareSerial): objects that share *)
(* one receive buffer, of which one listens; the pin change interrupt that *)
(* receives a whole byte while it runs; and write(), which sends one with  *)
(* interrupts off.  The wires and their senders are external: a frame is   *)
(* a start bit, some data bits and the stop bit.                           *)
(*                                                                         *)
(* The interrupt is taken before the next instruction, so it comes between *)
(* any two steps of the sketch, and a start bit outlasts the way to it.    *)
(***************************************************************************)
EXTENDS Integers, Sequences

CONSTANTS
  Objects, Data,
  Garbage,            \* what is sampled from the middle of a frame
  None,
  _SS_MAX_RX_BUFF

ASSUME SoftwareSerialAssumption ==
  /\ _SS_MAX_RX_BUFF \in Nat /\ _SS_MAX_RX_BUFF > 1
  /\ Garbage \notin Data /\ None \notin Objects

VARIABLES
  SenderWaits,             \* whether the others send only to a listener that is not sending
  active_object, _receive_buffer, _receive_buffer_head, _receive_buffer_tail,
  _buffer_overflow,
  PCMSK, PCIF, I,          \* pins that interrupt; interrupt pending, enabled
  line, frame,             \* the receive wires and the byte on each
  pc, this, d,             \* the call of the sketch; its object and local
  pending,                 \* history: bytes stored and not read
  dropped                  \* history: objects with a drop overflow() has not told of,
                           \* drops between its two halves left out

ring == <<_receive_buffer, _receive_buffer_head, _receive_buffer_tail>>
wires == <<line, frame>>
call == <<pc, this, d>>
vars == <<SenderWaits, active_object, ring, _buffer_overflow, PCMSK, PCIF, I, wires, call, pending, dropped>>

Slot == 0..(_SS_MAX_RX_BUFF - 1)
Value == Data \cup {Garbage}

\* The next index of the buffer.
NextSlot(i) == (i + 1) % _SS_MAX_RX_BUFF
Nothing == Garbage

\* Every variable has its type; BufferIsQueue includes it.
TypeOK ==
  /\ SenderWaits \in BOOLEAN
  /\ active_object \in Objects \cup {None} /\ _receive_buffer \in [Slot -> Value]
  /\ _receive_buffer_head \in Slot /\ _receive_buffer_tail \in Slot
  /\ _buffer_overflow \in [Objects -> BOOLEAN]
  /\ PCMSK \subseteq Objects /\ PCIF \in BOOLEAN /\ I \in BOOLEAN
  /\ line \in [Objects -> {"idle", "start", "low", "high"}] /\ frame \in [Objects -> Value]
  /\ pc \in {"sketch", "advance", "clear", "sending"} /\ this \in Objects \cup {None}
  /\ d \in Value \cup BOOLEAN
  /\ pending \in Seq(Value) /\ dropped \subseteq Objects

Init ==
  /\ SenderWaits \in BOOLEAN
  /\ active_object = None /\ _receive_buffer = [s \in Slot |-> Nothing]
  /\ _receive_buffer_head = 0 /\ _receive_buffer_tail = 0
  /\ _buffer_overflow = [o \in Objects |-> FALSE]
  /\ PCMSK = {} /\ PCIF = FALSE /\ I = TRUE
  /\ line = [o \in Objects |-> "idle"] /\ frame = [o \in Objects |-> Nothing]
  /\ pc = "sketch" /\ this = None /\ d = Nothing
  /\ pending = <<>> /\ dropped = {}

Interrupted == PCIF /\ I

-----------------------------------------------------------------------------
(***************************************************************************)
(* External: the senders.                                                  *)
(***************************************************************************)

Edge(o) == PCIF' = (PCIF \/ o \in PCMSK)

Sends == UNCHANGED <<active_object, ring, _buffer_overflow, PCMSK, I, call, pending, dropped>>

StartBit(o, b) ==
  /\ ~Interrupted /\ line[o] = "idle"
  /\ SenderWaits => o \in PCMSK /\ active_object = o /\ I
  /\ line' = [line EXCEPT ![o] = "start"] /\ frame' = [frame EXCEPT ![o] = b]
  /\ Edge(o)
  /\ Sends

DataBit(o, bit) ==
  /\ ~Interrupted /\ line[o] # "idle"
  /\ line' = [line EXCEPT ![o] = bit]
  /\ IF (line[o] = "high") # (bit = "high") THEN Edge(o) ELSE UNCHANGED PCIF
  /\ UNCHANGED frame
  /\ Sends

StopBit(o) ==
  /\ ~Interrupted /\ line[o] \in {"low", "high"}
  /\ line' = [line EXCEPT ![o] = "idle"] /\ frame' = [frame EXCEPT ![o] = Nothing]
  /\ IF line[o] = "low" THEN Edge(o) ELSE UNCHANGED PCIF
  /\ Sends

-----------------------------------------------------------------------------
(***************************************************************************)
(* The interrupt.                                                          *)
(***************************************************************************)

\* overflow() clears the flag of a byte that is dropped while it runs.
Missed(o) == IF pc = "clear" /\ this = o THEN dropped ELSE dropped \cup {o}

\* The end of recv() as it would be without the overflow flag.
Store_silent(o, b) ==
  /\ IF NextSlot(_receive_buffer_tail) # _receive_buffer_head
     THEN /\ _receive_buffer' = [_receive_buffer EXCEPT ![_receive_buffer_tail] = b]
          /\ _receive_buffer_tail' = NextSlot(_receive_buffer_tail)
          /\ pending' = Append(pending, b)
          /\ UNCHANGED dropped
     ELSE /\ dropped' = Missed(o)
          /\ UNCHANGED <<_receive_buffer, _receive_buffer_tail, pending>>
  /\ UNCHANGED _buffer_overflow

\* The byte goes into the buffer, or the overflow flag is set.
Store(o, b) ==
  IF NextSlot(_receive_buffer_tail) # _receive_buffer_head
  THEN /\ _receive_buffer' = [_receive_buffer EXCEPT ![_receive_buffer_tail] = b]
       /\ _receive_buffer_tail' = NextSlot(_receive_buffer_tail)
       /\ pending' = Append(pending, b)
       /\ UNCHANGED <<_buffer_overflow, dropped>>
  ELSE /\ _buffer_overflow' = [_buffer_overflow EXCEPT ![o] = TRUE]
       /\ dropped' = Missed(o)
       /\ UNCHANGED <<_receive_buffer, _receive_buffer_tail, pending>>

\* recv() as it would be if it did not wait for the last bits.
recv_short(o) ==
  /\ line[o] \in {"start", "low"}
  /\ Store(o, IF line[o] = "start" THEN frame[o] ELSE Garbage)
  /\ line' = [line EXCEPT ![o] = "low"] /\ UNCHANGED frame
  /\ PCIF' = TRUE

\* The line is low: eight bits are sampled, and their edges leave another
\* interrupt pending.
recv(o) ==
  /\ line[o] \in {"start", "low"}
  /\ Store(o, IF line[o] = "start" THEN frame[o] ELSE Garbage)
  /\ line' = [line EXCEPT ![o] = "idle"] /\ frame' = [frame EXCEPT ![o] = Nothing]
  /\ PCIF' = TRUE

\* The line is high, or nobody listens: not for us.
NotForUs ==
  /\ active_object = None \/ line[active_object] \in {"idle", "high"}
  /\ PCIF' = FALSE
  /\ UNCHANGED <<_receive_buffer, _receive_buffer_tail, _buffer_overflow, wires, pending, dropped>>

handle_interrupt ==
  /\ Interrupted
  /\ (active_object # None /\ recv(active_object)) \/ NotForUs
  /\ UNCHANGED <<active_object, _receive_buffer_head, PCMSK, I, call>>

-----------------------------------------------------------------------------
(***************************************************************************)
(* The sketch.                                                             *)
(***************************************************************************)

Call == pc = "sketch" /\ ~Interrupted
Return == pc' = "sketch" /\ this' = None /\ d' = Nothing

\* listen() as it would be if it kept the bytes of the other object.
Listen_keep(o) ==
  IF active_object # o
  THEN /\ _buffer_overflow' = [_buffer_overflow EXCEPT ![o] = FALSE]
       /\ active_object' = o
       /\ pending' = <<>> /\ dropped' = dropped \ {o}
       /\ UNCHANGED <<_receive_buffer_head, _receive_buffer_tail>>
  ELSE UNCHANGED <<_buffer_overflow, active_object, _receive_buffer_head, _receive_buffer_tail, pending, dropped>>

\* listen()
Listen(o) ==
  IF active_object # o
  THEN /\ _buffer_overflow' = [_buffer_overflow EXCEPT ![o] = FALSE]
       /\ _receive_buffer_head' = 0 /\ _receive_buffer_tail' = 0
       /\ active_object' = o
       /\ pending' = <<>> /\ dropped' = dropped \ {o}
  ELSE UNCHANGED <<_buffer_overflow, active_object, _receive_buffer_head, _receive_buffer_tail, pending, dropped>>

listen(o) ==
  /\ Call
  /\ Listen(o)
  /\ UNCHANGED <<_receive_buffer, PCMSK, PCIF, I, wires, call>>

\* begin() with a baud rate of the table.
begin(o) ==
  /\ Call
  /\ PCMSK' = PCMSK \cup {o}
  /\ Listen(o)
  /\ UNCHANGED <<_receive_buffer, PCIF, I, wires, call>>

end(o) ==
  /\ Call
  /\ PCMSK' = PCMSK \ {o}
  /\ UNCHANGED <<active_object, ring, _buffer_overflow, PCIF, I, wires, call, pending, dropped>>

\* read() takes the byte, then moves head; without a byte it changes nothing.
read(o) ==
  /\ Call
  /\ active_object = o /\ _receive_buffer_head # _receive_buffer_tail
  /\ d' = _receive_buffer[_receive_buffer_head]
  /\ pc' = "advance" /\ this' = o
  /\ UNCHANGED <<active_object, ring, _buffer_overflow, PCMSK, PCIF, I, wires, pending, dropped>>

read_advance ==
  /\ pc = "advance" /\ ~Interrupted
  /\ _receive_buffer_head' = NextSlot(_receive_buffer_head)
  /\ pending' = Tail(pending)
  /\ Return
  /\ UNCHANGED <<active_object, _receive_buffer, _receive_buffer_tail, _buffer_overflow, PCMSK, PCIF, I, wires, dropped>>

flush(o) ==
  /\ Call
  /\ active_object = o
  /\ _receive_buffer_head' = 0 /\ _receive_buffer_tail' = 0
  /\ pending' = <<>>
  /\ UNCHANGED <<active_object, _receive_buffer, _buffer_overflow, PCMSK, PCIF, I, wires, call, dropped>>

\* overflow(): ret = _buffer_overflow, then _buffer_overflow = false.
overflow(o) ==
  /\ Call
  /\ d' = _buffer_overflow[o]
  /\ pc' = "clear" /\ this' = o
  /\ UNCHANGED <<active_object, ring, _buffer_overflow, PCMSK, PCIF, I, wires, pending, dropped>>

overflow_clear ==
  /\ pc = "clear" /\ ~Interrupted
  /\ _buffer_overflow' = [_buffer_overflow EXCEPT ![this] = FALSE]
  /\ dropped' = IF d THEN dropped \ {this} ELSE dropped
  /\ Return
  /\ UNCHANGED <<active_object, ring, PCMSK, PCIF, I, wires, pending>>

\* write() from cli() to the restoring of SREG.
write(o) ==
  /\ Call
  /\ SenderWaits => \A p \in Objects : line[p] = "idle"
  /\ I' = FALSE /\ pc' = "sending" /\ this' = o
  /\ UNCHANGED <<active_object, ring, _buffer_overflow, PCMSK, PCIF, wires, d, pending, dropped>>

write_done ==
  /\ pc = "sending"
  /\ I' = TRUE
  /\ Return
  /\ UNCHANGED <<active_object, ring, _buffer_overflow, PCMSK, PCIF, wires, pending, dropped>>

Sketch ==
  \/ \E o \in Objects : begin(o) \/ end(o) \/ listen(o) \/ read(o) \/ flush(o) \/ overflow(o) \/ write(o)
  \/ read_advance \/ overflow_clear \/ write_done

Sender ==
  \E o \in Objects :
    \/ \E b \in Data : StartBit(o, b)
    \/ \E bit \in {"low", "high"} : DataBit(o, bit)
    \/ StopBit(o)

Next == (Sketch \/ Sender \/ handle_interrupt) /\ UNCHANGED SenderWaits

Spec == Init /\ [][Next]_vars

-----------------------------------------------------------------------------
(***************************************************************************)
(* Properties.                                                             *)
(***************************************************************************)

\* The buffer holds, from head to tail, exactly the bytes received for the
\* listening object and not read: none of another object, none twice (recv,
\* read, listen and flush share the indices); and read() returns the oldest
\* of them, although bytes arrive while it runs.
BufferIsQueue ==
  /\ TypeOK
  /\ (_receive_buffer_tail + _SS_MAX_RX_BUFF - _receive_buffer_head) % _SS_MAX_RX_BUFF = Len(pending)
  /\ \A i \in 1..Len(pending) :
       pending[i] = _receive_buffer[(_receive_buffer_head + i - 1) % _SS_MAX_RX_BUFF]
  /\ pc = "advance" => pending # <<>> /\ d = Head(pending)

\* A byte dropped because the buffer was full has set the flag that
\* overflow() returns ("if buffer full, set the overflow flag and return"),
\* unless it was dropped between the test and the clearing in overflow().
OverflowTold == pc = "sketch" => \A o \in dropped : _buffer_overflow[o]

\* A low line at the interrupt is a start bit ("If RX line is high, then we
\* don't see any start bit"): nothing is sampled from the middle of a frame,
\* as long as nobody sends while write() keeps the interrupt off or before
\* begin() has enabled it.
FramesWhole == SenderWaits => \A i \in 1..Len(pending) : pending[i] # Garbage
=============================================================================
