--------------------------- MODULE LibraryProofs ----------------------------
(***************************************************************************)
(* Proofs about two libraries.                                             *)
(*                                                                         *)
(* The software serial ports, for every number of objects, every buffer    *)
(* size and every sender: the shared buffer is a queue, a drop is told of, *)
(* and a sender that waits is received in whole frames.                    *)
(*                                                                         *)
(* The servo library, for every number of servos and pins and every width  *)
(* of the timer: pulses come one at a time and are as long as was asked,   *)
(* and frames are a refresh interval apart.                                *)
(***************************************************************************)
EXTENDS SoftwareSerial, Servo, FiniteSetTheorems, TLAPS

-----------------------------------------------------------------------------
(***************************************************************************)
(* The ports (SoftwareSerial).                                             *)
(***************************************************************************)

-----------------------------------------------------------------------------
(* The buffer: byte i of the queue is i - 1 slots after head.               *)

\* An index that has run past the end of the buffer at most once.
Wrap(n) == IF n < _SS_MAX_RX_BUFF THEN n ELSE n - _SS_MAX_RX_BUFF

\* Wrap is the remainder the code computes.
LEMMA WrapIsMod ==
  ASSUME NEW n \in Nat, n < 2 * _SS_MAX_RX_BUFF
  PROVE  n % _SS_MAX_RX_BUFF = Wrap(n) /\ Wrap(n) \in Slot
<1> DEFINE S == _SS_MAX_RX_BUFF
           q == n \div S
           r == n % S
<1>1. S \in Nat /\ S > 1  BY SoftwareSerialAssumption
<1>2. r \in 0..(S - 1) /\ q \in Nat /\ n = q * S + r  BY <1>1, SMT
<1> HIDE DEF q, r
<1>3. q < 2
  <2> SUFFICES ASSUME q >= 2 PROVE FALSE  BY <1>2
  <2>1. q * S >= 2 * S  BY <1>1, <1>2, SMT
  <2> QED  BY <1>1, <1>2, <2>1
<1>4. q = 0 \/ q = 1  BY <1>2, <1>3
<1>5. r = Wrap(n)
  BY <1>1, <1>2, <1>4 DEF Wrap
<1> QED  BY <1>1, <1>2, <1>5 DEF r, Slot

QueueOf(head, tail, buffer, queue) ==
  /\ head \in Slot /\ buffer \in [Slot -> Value] /\ queue \in Seq(Value)
  /\ Len(queue) < _SS_MAX_RX_BUFF
  /\ tail = Wrap(head + Len(queue))
  /\ \A i \in 1..Len(queue) : queue[i] = buffer[Wrap(head + i - 1)]

\* A buffer with b in one of its slots.
Stored(buffer, slot, b) == [buffer EXCEPT ![slot] = b]

\* The tail of a queue is a slot, and NextSlot is the slot after it.
LEMMA QueueSlots ==
  ASSUME NEW head, NEW tail, NEW buffer, NEW queue,
         QueueOf(head, tail, buffer, queue)
  PROVE  /\ Len(queue) \in Nat /\ head \in Slot /\ tail \in Slot
         /\ NextSlot(head) = Wrap(head + 1) /\ NextSlot(tail) = Wrap(tail + 1)
         /\ NextSlot(head) \in Slot /\ NextSlot(tail) \in Slot
<1> DEFINE S == _SS_MAX_RX_BUFF
<1>1. S \in Nat /\ S > 1  BY SoftwareSerialAssumption
<1>2. /\ Len(queue) \in Nat /\ Len(queue) < S /\ head \in 0..(S - 1)
      /\ tail = Wrap(head + Len(queue))
  BY DEF QueueOf, Slot
<1>3. head + Len(queue) \in Nat /\ head + Len(queue) < 2 * S  BY ONLY <1>1, <1>2
<1>4. tail \in Slot  BY ONLY <1>2, <1>3, WrapIsMod
<1>5. /\ head + 1 \in Nat /\ head + 1 < 2 * S
      /\ tail + 1 \in Nat /\ tail + 1 < 2 * S
  BY ONLY <1>1, <1>2, <1>4 DEF Slot
<1>6. /\ (head + 1) % S = Wrap(head + 1) /\ Wrap(head + 1) \in Slot
      /\ (tail + 1) % S = Wrap(tail + 1) /\ Wrap(tail + 1) \in Slot
  BY ONLY <1>5, WrapIsMod
<1> QED  BY ONLY <1>1, <1>2, <1>4, <1>6 DEF NextSlot, Slot

\* recv() adds a byte at the tail when the next slot is not head.
LEMMA QueuePut ==
  ASSUME NEW head, NEW tail, NEW buffer, NEW queue, NEW b \in Value,
         QueueOf(head, tail, buffer, queue), NextSlot(tail) # head
  PROVE  QueueOf(head, NextSlot(tail), Stored(buffer, tail, b), Append(queue, b))
<1> DEFINE S == _SS_MAX_RX_BUFF
           new == Stored(buffer, tail, b)
           q == Append(queue, b)
<1>1. S \in Nat /\ S > 1  BY SoftwareSerialAssumption
<1>2. /\ Len(queue) \in Nat /\ head \in 0..(S - 1) /\ tail \in 0..(S - 1)
      /\ NextSlot(tail) = Wrap(tail + 1)
  BY QueueSlots DEF Slot
<1>3. /\ Len(queue) < S /\ tail = Wrap(head + Len(queue))
      /\ buffer \in [Slot -> Value] /\ queue \in Seq(Value)
      /\ \A i \in 1..Len(queue) : queue[i] = buffer[Wrap(head + i - 1)]
  BY DEF QueueOf
<1>4. Len(queue) + 1 < S /\ Wrap(tail + 1) = Wrap(head + (Len(queue) + 1))
  <2>1. /\ Len(queue) < S /\ tail = Wrap(head + Len(queue))
        /\ Wrap(tail + 1) # head
    BY ONLY <1>2, <1>3, NextSlot(tail) # head
  <2> QED  BY ONLY <1>1, <1>2, <2>1 DEF Wrap
<1>5. /\ q \in Seq(Value) /\ Len(q) = Len(queue) + 1
      /\ \A i \in 1..Len(queue) : q[i] = queue[i]
      /\ q[Len(queue) + 1] = b
  BY ONLY <1>3, b \in Value
<1>6. new \in [Slot -> Value] /\ new[tail] = b /\ \A s \in Slot \ {tail} : new[s] = buffer[s]
  BY ONLY <1>2, <1>3, b \in Value DEF Stored, Slot
<1> HIDE DEF new, q
<1>7. ASSUME NEW i \in 1..Len(q)
      PROVE  q[i] = new[Wrap(head + i - 1)]
  <2>1. CASE i = Len(queue) + 1
    <3>1. head + i - 1 = head + Len(queue)  BY ONLY <2>1, <1>2
    <3> QED  BY ONLY <2>1, <3>1, <1>3, <1>5, <1>6
  <2>2. CASE i # Len(queue) + 1
    <3>1. i \in 1..Len(queue)  BY ONLY <2>2, <1>2, <1>5, <1>7
    <3>2. Wrap(head + i - 1) \in Slot \ {tail}
      BY ONLY <3>1, <1>1, <1>2, <1>3 DEF Wrap, Slot
    <3> QED  BY ONLY <3>1, <3>2, <1>3, <1>5, <1>6
  <2> QED  BY ONLY <2>1, <2>2
<1>8. head \in Slot  BY ONLY <1>2 DEF Slot
<1>9. QueueOf(head, NextSlot(tail), new, q)
  BY ONLY <1>2, <1>4, <1>5, <1>6, <1>7, <1>8 DEF QueueOf
<1> QED  BY <1>9 DEF new, q

\* head = tail exactly when the queue is empty; otherwise head is its first.
LEMMA QueueHead ==
  ASSUME NEW head, NEW tail, NEW buffer, NEW queue,
         QueueOf(head, tail, buffer, queue), head # tail
  PROVE  queue # <<>> /\ buffer[head] = Head(queue)
<1> DEFINE S == _SS_MAX_RX_BUFF
<1>1. S \in Nat /\ S > 1  BY SoftwareSerialAssumption
<1>2. /\ Len(queue) \in Nat /\ head \in 0..(S - 1)  BY QueueSlots DEF Slot
<1>3. /\ tail = Wrap(head + Len(queue)) /\ queue \in Seq(Value)
      /\ \A i \in 1..Len(queue) : queue[i] = buffer[Wrap(head + i - 1)]
  BY DEF QueueOf
<1>4. Len(queue) # 0  BY ONLY <1>1, <1>2, <1>3, head # tail DEF Wrap
<1>5. 1 \in 1..Len(queue) /\ Wrap(head + 1 - 1) = head
  BY ONLY <1>1, <1>2, <1>4 DEF Wrap
<1>6. queue[1] = buffer[head]  BY ONLY <1>3, <1>5
<1> QED  BY ONLY <1>3, <1>4, <1>6

\* read() takes the first byte off.
LEMMA QueueGet ==
  ASSUME NEW head, NEW tail, NEW buffer, NEW queue,
         QueueOf(head, tail, buffer, queue), queue # <<>>
  PROVE  QueueOf(NextSlot(head), tail, buffer, Tail(queue))
<1> DEFINE S == _SS_MAX_RX_BUFF
           q == Tail(queue)
<1>1. S \in Nat /\ S > 1  BY SoftwareSerialAssumption
<1>2. /\ Len(queue) \in Nat /\ head \in 0..(S - 1)
      /\ NextSlot(head) = Wrap(head + 1) /\ NextSlot(head) \in Slot
  BY QueueSlots DEF Slot
<1>3. /\ Len(queue) < S /\ tail = Wrap(head + Len(queue))
      /\ buffer \in [Slot -> Value] /\ queue \in Seq(Value)
      /\ \A i \in 1..Len(queue) : queue[i] = buffer[Wrap(head + i - 1)]
  BY DEF QueueOf
<1>4. /\ q \in Seq(Value) /\ Len(q) = Len(queue) - 1 /\ Len(queue) > 0
      /\ \A i \in 1..Len(q) : q[i] = queue[i + 1]
  BY ONLY <1>3, queue # <<>>
<1> HIDE DEF q
<1>5. tail = Wrap(Wrap(head + 1) + Len(q))
  BY ONLY <1>1, <1>2, <1>3, <1>4 DEF Wrap
<1>6. ASSUME NEW i \in 1..Len(q)
      PROVE  q[i] = buffer[Wrap(Wrap(head + 1) + i - 1)]
  <2>1. i + 1 \in 1..Len(queue)  BY ONLY <1>2, <1>4, <1>6
  <2>2. Wrap(head + (i + 1) - 1) = Wrap(Wrap(head + 1) + i - 1)
    BY ONLY <1>1, <1>2, <1>3, <2>1 DEF Wrap
  <2>3. queue[i + 1] = buffer[Wrap(head + (i + 1) - 1)]  BY ONLY <1>3, <2>1
  <2> QED  BY ONLY <1>4, <1>6, <2>2, <2>3
<1>7. Len(q) < S  BY ONLY <1>1, <1>2, <1>3, <1>4
<1>8. QueueOf(NextSlot(head), tail, buffer, q)
  BY ONLY <1>2, <1>3, <1>4, <1>5, <1>6, <1>7 DEF QueueOf
<1> QED  BY <1>8 DEF q

\* begin(), listen() and flush() leave an empty queue.
LEMMA QueueEmpty ==
  ASSUME NEW buffer \in [Slot -> Value]
  PROVE  QueueOf(0, 0, buffer, <<>>)
<1>1. _SS_MAX_RX_BUFF \in Nat /\ _SS_MAX_RX_BUFF > 1  BY SoftwareSerialAssumption
<1>2. <<>> \in Seq(Value) /\ Len(<<>>) = 0 /\ 1..0 = {}  OBVIOUS
<1>3. 0 \in Slot /\ Wrap(0 + 0) = 0  BY <1>1 DEF Slot, Wrap
<1> QED  BY <1>1, <1>2, <1>3 DEF QueueOf

-----------------------------------------------------------------------------
(* The inductive invariant.                                                 *)

\* The types of what is not part of the buffer.
PortType ==
  /\ SenderWaits \in BOOLEAN
  /\ active_object \in Objects \cup {None}
  /\ _buffer_overflow \in [Objects -> BOOLEAN]
  /\ PCMSK \subseteq Objects /\ PCIF \in BOOLEAN /\ I \in BOOLEAN
  /\ line \in [Objects -> {"idle", "start", "low", "high"}] /\ frame \in [Objects -> Value]
  /\ pc \in {"sketch", "advance", "clear", "sending"} /\ this \in Objects \cup {None}
  /\ d \in Value \cup BOOLEAN
  /\ dropped \subseteq Objects

Buffered == QueueOf(_receive_buffer_head, _receive_buffer_tail, _receive_buffer, pending)

Reading == pc = "advance" => pending # <<>> /\ d = Head(pending)

\* A drop not told of has its flag set; overflow() that clears the flag of
\* one returns true.
FlagInv ==
  /\ \A o \in dropped : _buffer_overflow[o]
  /\ pc = "clear" => this \in Objects /\ d \in BOOLEAN /\ (this \in dropped => d)

\* A sender that waits: whatever is on a wire is a start bit whose interrupt
\* comes next.
Quiet(o) ==
  \/ line[o] = "idle"
  \/ line[o] = "start" /\ o = active_object /\ Interrupted /\ frame[o] \in Data

WireInv ==
  SenderWaits =>
    /\ I = (pc # "sending")
    /\ \A o \in Objects : Quiet(o)

NoGarbage == SenderWaits => \A i \in 1..Len(pending) : pending[i] # Garbage

IInv == PortType /\ Buffered /\ Reading /\ FlagInv /\ WireInv /\ NoGarbage

\* The end of recv(): the buffer stays a queue, and its first byte its first.
LEMMA StoreKeepsQueue ==
  ASSUME NEW o, NEW b \in Value, Buffered, Reading, Store(o, b),
         UNCHANGED <<_receive_buffer_head, call>>
  PROVE  /\ Buffered' /\ Reading'
         /\ pending' \in {pending, Append(pending, b)}
<1>1. CASE NextSlot(_receive_buffer_tail) # _receive_buffer_head
  <2>1. /\ _receive_buffer' = Stored(_receive_buffer, _receive_buffer_tail, b)
        /\ _receive_buffer_tail' = NextSlot(_receive_buffer_tail)
        /\ pending' = Append(pending, b)
        /\ _receive_buffer_head' = _receive_buffer_head /\ pc' = pc /\ d' = d
    BY <1>1 DEF Store, Stored, call
  <2>2. Buffered'
    BY ONLY <1>1, <2>1, Buffered, b \in Value, QueuePut DEF Buffered
  <2>3. pending \in Seq(Value)  BY DEF Buffered, QueueOf
  <2>4. pending # <<>> => pending' # <<>> /\ Head(pending') = Head(pending)
    BY ONLY <2>1, <2>3, b \in Value
  <2>5. Reading'  BY ONLY <2>1, <2>4, Reading DEF Reading
  <2> QED  BY ONLY <2>1, <2>2, <2>5
<1>2. CASE NextSlot(_receive_buffer_tail) = _receive_buffer_head
  <2>1. UNCHANGED <<ring, call, pending>>  BY <1>2 DEF Store, call, ring
  <2> QED  BY ONLY <2>1, Buffered, Reading DEF Buffered, Reading, ring, call
<1> QED  BY <1>1, <1>2

\* Every step keeps the buffer a queue from whose head read() takes its byte.
LEMMA StepBuffered ==
  ASSUME PortType, Buffered, Reading, [Next]_vars
  PROVE  Buffered' /\ Reading'
<1> DEFINE Kept == UNCHANGED <<ring, pending>> /\ (pc' = "advance" => pc = "advance" /\ d' = d)
<1>1. ASSUME Kept PROVE Buffered' /\ Reading'
  BY ONLY <1>1, Buffered, Reading DEF Buffered, Reading, ring
<1>2. _receive_buffer \in [Slot -> Value]  BY DEF Buffered, QueueOf
<1>3. CASE \E o \in Objects : end(o) \/ overflow(o) \/ write(o)
  BY <1>1, <1>3 DEF end, overflow, write, Call, call
<1>4. CASE overflow_clear \/ write_done \/ UNCHANGED vars
  BY <1>1, <1>4 DEF overflow_clear, write_done, Return, vars, call
<1>5. CASE Sender
  <2>1. Sends  BY <1>5 DEF Sender, StartBit, DataBit, StopBit
  <2> QED  BY ONLY <2>1, <1>1 DEF Sends, call
<1>6. ASSUME NEW o \in Objects, begin(o) \/ listen(o) PROVE Buffered' /\ Reading'
  <2>1. Listen(o) /\ UNCHANGED <<_receive_buffer, call>> /\ pc = "sketch"
    BY <1>6 DEF begin, listen, Call
  <2>2. CASE active_object = o  BY ONLY <2>1, <2>2, <1>1 DEF Listen, call, ring
  <2>3. CASE active_object # o
    <3>1. /\ _receive_buffer_head' = 0 /\ _receive_buffer_tail' = 0 /\ pending' = <<>>
          /\ _receive_buffer' = _receive_buffer /\ pc' = "sketch"
      BY ONLY <2>1, <2>3 DEF Listen, call
    <3> QED  BY ONLY <3>1, <1>2, QueueEmpty DEF Buffered, Reading
  <2> QED  BY ONLY <2>2, <2>3
<1>7. ASSUME NEW o \in Objects, flush(o) PROVE Buffered' /\ Reading'
  <2>1. /\ _receive_buffer_head' = 0 /\ _receive_buffer_tail' = 0 /\ pending' = <<>>
        /\ _receive_buffer' = _receive_buffer /\ pc' = "sketch"
    BY <1>7 DEF flush, Call, call
  <2> QED  BY ONLY <2>1, <1>2, QueueEmpty DEF Buffered, Reading
<1>8. ASSUME NEW o \in Objects, read(o) PROVE Buffered' /\ Reading'
  <2>1. /\ UNCHANGED <<ring, pending>> /\ _receive_buffer_head # _receive_buffer_tail
        /\ d' = _receive_buffer[_receive_buffer_head]
    BY <1>8 DEF read
  <2>2. pending # <<>> /\ _receive_buffer[_receive_buffer_head] = Head(pending)
    BY ONLY <2>1, Buffered, QueueHead DEF Buffered
  <2> QED  BY ONLY <2>1, <2>2, Buffered DEF Buffered, Reading, ring
<1>9. CASE read_advance
  <2>1. /\ pc = "advance" /\ pc' = "sketch" /\ pending' = Tail(pending)
        /\ _receive_buffer_head' = NextSlot(_receive_buffer_head)
        /\ UNCHANGED <<_receive_buffer, _receive_buffer_tail>>
    BY <1>9 DEF read_advance, Return
  <2>2. pending # <<>>  BY ONLY <2>1, Reading DEF Reading
  <2> QED  BY ONLY <2>1, <2>2, Buffered, QueueGet DEF Buffered, Reading
<1>10. CASE handle_interrupt
  <2>1. UNCHANGED <<_receive_buffer_head, call>>  BY <1>10 DEF handle_interrupt
  <2>2. CASE active_object # None /\ recv(active_object)
    <3>1. \E b \in Value : Store(active_object, b)
      <4>1. active_object \in Objects  BY <2>2 DEF PortType
      <4>2. frame[active_object] \in Value /\ Garbage \in Value
        BY <4>1 DEF PortType, Value
      <4>3. (IF line[active_object] = "start" THEN frame[active_object] ELSE Garbage) \in Value
        BY ONLY <4>2
      <4> QED  BY ONLY <2>2, <4>3 DEF recv
    <3> QED  BY ONLY <2>1, <3>1, Buffered, Reading, StoreKeepsQueue
  <2>3. CASE NotForUs
    BY ONLY <1>1, <2>1, <2>3 DEF NotForUs, call, ring
  <2> QED  BY ONLY <1>10, <2>2, <2>3 DEF handle_interrupt
<1> QED
  BY ONLY <1>3, <1>4, <1>5, <1>6, <1>7, <1>8, <1>9, <1>10, [Next]_vars, Zenon
  DEF Next, Sketch

\* Every step keeps the types.
LEMMA StepType ==
  ASSUME PortType, Buffered, [Next]_vars
  PROVE  PortType'
<1> USE DEF PortType
<1>1. _receive_buffer \in [Slot -> Value] /\ _receive_buffer_head \in Slot
  BY DEF Buffered, QueueOf
<1>2. Nothing \in Value /\ Data \subseteq Value  BY DEF Nothing, Value
<1>3. ASSUME NEW o \in Objects, Store(o, Garbage) \/ \E b : Store(o, b)
      PROVE  _buffer_overflow' \in [Objects -> BOOLEAN] /\ dropped' \subseteq Objects
  BY <1>3, Zenon DEF Store, Missed
<1>4. ASSUME NEW o \in Objects, Listen(o)
      PROVE  /\ _buffer_overflow' \in [Objects -> BOOLEAN] /\ dropped' \subseteq Objects
             /\ active_object' \in Objects \cup {None}
  BY <1>4, Zenon DEF Listen
<1>5. CASE UNCHANGED vars  BY <1>5 DEF vars, wires, call
<1>6. ASSUME NEW o \in Objects, begin(o) \/ listen(o), UNCHANGED SenderWaits PROVE PortType'
  <2>1. Listen(o)  BY <1>6 DEF begin, listen
  <2> QED  BY <1>6, <1>4, <2>1 DEF begin, listen, wires, call
<1>7. ASSUME NEW o \in Objects, end(o) \/ flush(o) \/ write(o), UNCHANGED SenderWaits PROVE PortType'
  BY <1>7, Zenon DEF end, flush, write, Call, wires, call
<1>8. ASSUME NEW o \in Objects, read(o), UNCHANGED SenderWaits PROVE PortType'
  <2>1. _receive_buffer[_receive_buffer_head] \in Value  BY ONLY <1>1
  <2> QED  BY <1>8, <2>1 DEF read, wires
<1>9. ASSUME NEW o \in Objects, overflow(o), UNCHANGED SenderWaits PROVE PortType'
  BY <1>9 DEF overflow, wires
<1>10. CASE read_advance /\ UNCHANGED SenderWaits
  BY <1>2, <1>10 DEF read_advance, Return, wires
<1>11. CASE overflow_clear /\ UNCHANGED SenderWaits
  BY <1>2, <1>11, Zenon DEF overflow_clear, Return, wires
<1>12. CASE write_done /\ UNCHANGED SenderWaits
  BY <1>2, <1>12 DEF write_done, Return, wires
<1>13. CASE Sender /\ UNCHANGED SenderWaits
  <2>1. Sends  BY <1>13 DEF Sender, StartBit, DataBit, StopBit
  <2>2. /\ line' \in [Objects -> {"idle", "start", "low", "high"}]
        /\ frame' \in [Objects -> Value]
    BY <1>2, <1>13 DEF Sender, StartBit, DataBit, StopBit
  <2>3. PCIF' \in BOOLEAN
    BY <1>13, Zenon DEF Sender, StartBit, DataBit, StopBit, Edge
  <2> QED  BY <1>13, <2>1, <2>2, <2>3 DEF Sends, call
<1>14. CASE handle_interrupt /\ UNCHANGED SenderWaits
  <2>1. CASE active_object # None /\ recv(active_object)
    <3>1. active_object \in Objects  BY <2>1
    <3>2. _buffer_overflow' \in [Objects -> BOOLEAN] /\ dropped' \subseteq Objects
      BY <1>3, <2>1, <3>1 DEF recv
    <3>3. /\ line' \in [Objects -> {"idle", "start", "low", "high"}]
          /\ frame' \in [Objects -> Value] /\ PCIF' \in BOOLEAN
      BY <1>2, <2>1, <3>1 DEF recv
    <3> QED  BY <1>14, <3>2, <3>3 DEF handle_interrupt, call
  <2>2. CASE NotForUs
    BY <1>14, <2>2, Zenon DEF handle_interrupt, NotForUs, wires, call
  <2> QED  BY <1>14, <2>1, <2>2 DEF handle_interrupt
<1> QED
  BY ONLY <1>5, <1>6, <1>7, <1>8, <1>9, <1>10, <1>11, <1>12, <1>13, <1>14,
          [Next]_vars, Zenon
  DEF Next, Sketch

\* Every step keeps the overflow flags honest.
LEMMA StepFlag ==
  ASSUME PortType, FlagInv, [Next]_vars
  PROVE  FlagInv'
<1>1. /\ _buffer_overflow \in [Objects -> BOOLEAN] /\ dropped \subseteq Objects
      /\ None \notin Objects
  BY SoftwareSerialAssumption DEF PortType
<1>2. ASSUME UNCHANGED <<_buffer_overflow, dropped>>,
             pc' = "clear" => pc = "clear" /\ UNCHANGED <<this, d>>
      PROVE  FlagInv'
  BY ONLY <1>2, FlagInv DEF FlagInv
<1>3. CASE \E o \in Objects : end(o) \/ flush(o) \/ write(o) \/ read(o)
  BY <1>2, <1>3 DEF end, flush, write, read, Call, call
<1>4. CASE read_advance \/ write_done \/ UNCHANGED vars
  BY <1>2, <1>4 DEF read_advance, write_done, Return, vars, call
<1>5. CASE Sender
  <2>1. Sends  BY <1>5 DEF Sender, StartBit, DataBit, StopBit
  <2> QED  BY ONLY <2>1, <1>2 DEF Sends, call
<1>6. ASSUME NEW o \in Objects, begin(o) \/ listen(o) PROVE FlagInv'
  <2>1. Listen(o) /\ UNCHANGED call /\ pc = "sketch"  BY <1>6 DEF begin, listen, Call
  <2>2. CASE active_object = o  BY ONLY <2>1, <2>2, <1>2 DEF Listen, call
  <2>3. CASE active_object # o
    BY ONLY <1>1, <2>1, <2>3, FlagInv DEF Listen, call, FlagInv
  <2> QED  BY ONLY <2>2, <2>3
<1>7. ASSUME NEW o \in Objects, overflow(o) PROVE FlagInv'
  <2>1. /\ UNCHANGED <<_buffer_overflow, dropped>> /\ this' = o
        /\ d' = _buffer_overflow[o]
    BY <1>7 DEF overflow
  <2> QED  BY ONLY <2>1, <1>1, FlagInv, o \in Objects DEF FlagInv
<1>8. CASE overflow_clear
  <2>1. /\ pc = "clear" /\ pc' = "sketch"
        /\ _buffer_overflow' = [_buffer_overflow EXCEPT ![this] = FALSE]
        /\ dropped' = IF d THEN dropped \ {this} ELSE dropped
    BY <1>8 DEF overflow_clear, Return
  <2>2. dropped' \subseteq dropped \ {this}
    BY ONLY <2>1, FlagInv, Zenon DEF FlagInv
  <2> QED  BY ONLY <1>1, <2>1, <2>2, FlagInv DEF FlagInv
<1>9. CASE handle_interrupt
  <2>1. UNCHANGED call  BY <1>9 DEF handle_interrupt
  <2>2. CASE active_object # None /\ recv(active_object)
    <3>1. active_object \in Objects  BY <2>2 DEF PortType
    <3>2. \/ UNCHANGED <<_buffer_overflow, dropped>>
          \/ /\ _buffer_overflow' = [_buffer_overflow EXCEPT ![active_object] = TRUE]
             /\ dropped' = Missed(active_object)
      BY ONLY <2>2 DEF recv, Store
    <3> QED  BY ONLY <1>1, <1>2, <2>1, <3>1, <3>2, FlagInv DEF FlagInv, Missed, call
  <2>3. CASE NotForUs
    BY ONLY <1>2, <2>1, <2>3 DEF NotForUs, call
  <2> QED  BY ONLY <1>9, <2>2, <2>3 DEF handle_interrupt
<1> QED
  BY ONLY <1>3, <1>4, <1>5, <1>6, <1>7, <1>8, <1>9, [Next]_vars, Zenon
  DEF Next, Sketch

\* As long as no interrupt is pending, the wires of a sender that waits are
\* idle; then what leaves the wires alone and keeps I with pc is harmless.
LEMMA StepWire ==
  ASSUME PortType, WireInv, [Next]_vars
  PROVE  WireInv'
<1> SUFFICES ASSUME SenderWaits' PROVE I' = (pc' # "sending") /\ \A o \in Objects : Quiet(o)'
  BY DEF WireInv
<1>1. SenderWaits /\ UNCHANGED SenderWaits  BY Zenon DEF Next, vars
<1>2. I = (pc # "sending") /\ \A o \in Objects : Quiet(o)  BY <1>1 DEF WireInv
<1>3. ~Interrupted => \A o \in Objects : line[o] = "idle"
  BY ONLY <1>2, Zenon DEF Quiet
<1>4. ASSUME ~Interrupted, UNCHANGED line
      PROVE  \A o \in Objects : Quiet(o)'
  BY ONLY <1>3, <1>4, Zenon DEF Quiet
<1>5. CASE UNCHANGED vars
  BY ONLY <1>2, <1>5, Zenon DEF vars, wires, call, Quiet, Interrupted
<1>6. CASE \E o \in Objects : begin(o) \/ end(o) \/ listen(o) \/ flush(o)
  <2>1. ~Interrupted /\ UNCHANGED <<line, I, pc>>
    BY ONLY <1>6 DEF begin, end, listen, flush, Call, wires, call
  <2> QED  BY ONLY <1>2, <1>4, <2>1
<1>7. CASE \E o \in Objects : read(o) \/ overflow(o)
  <2>1. /\ ~Interrupted /\ UNCHANGED <<line, I>>
        /\ pc = "sketch" /\ pc' \in {"advance", "clear"}
    BY ONLY <1>7 DEF read, overflow, Call, wires
  <2> QED  BY ONLY <1>2, <1>4, <2>1
<1>8. CASE read_advance \/ overflow_clear
  <2>1. /\ ~Interrupted /\ UNCHANGED <<line, I>>
        /\ pc \in {"advance", "clear"} /\ pc' = "sketch"
    BY ONLY <1>8 DEF read_advance, overflow_clear, Return, wires
  <2> QED  BY ONLY <1>2, <1>4, <2>1
<1>9. CASE \E o \in Objects : write(o)
  <2>1. ~Interrupted /\ UNCHANGED line /\ I' = FALSE /\ pc' = "sending"
    BY ONLY <1>9 DEF write, Call, wires
  <2> QED  BY ONLY <1>4, <2>1, Zenon
<1>10. CASE write_done
  <2>1. pc = "sending" /\ UNCHANGED line /\ I' = TRUE /\ pc' = "sketch"
    BY ONLY <1>10 DEF write_done, Return, wires
  <2>2. ~Interrupted  BY ONLY <1>2, <2>1, Zenon DEF Interrupted
  <2> QED  BY ONLY <1>4, <2>1, <2>2, Zenon
<1>11. CASE Sender
  <2>1. UNCHANGED <<I, pc, active_object, PCMSK>>
    BY ONLY <1>11 DEF Sender, StartBit, DataBit, StopBit, Sends, call
  <2>2. ~Interrupted  BY ONLY <1>11 DEF Sender, StartBit, DataBit, StopBit
  <2>3. PICK o \in Objects, b \in Data : StartBit(o, b)
    BY ONLY <1>3, <1>11, <2>2 DEF Sender, DataBit, StopBit
  <2>4. line' = [line EXCEPT ![o] = "start"] /\ frame' = [frame EXCEPT ![o] = b]
    BY ONLY <2>3 DEF StartBit
  <2>5. o \in PCMSK /\ active_object = o /\ I /\ PCIF'
    BY ONLY <1>1, <2>3, Zenon DEF StartBit, Edge
  <2>6. \A p \in Objects : Quiet(p)'
    <3> SUFFICES ASSUME NEW p \in Objects PROVE Quiet(p)'  OBVIOUS
    <3>1. DOMAIN line = Objects /\ DOMAIN frame = Objects  BY DEF PortType
    <3>2. CASE p = o
      <4>1. line'[p] = "start" /\ frame'[p] \in Data
        BY ONLY <2>4, <3>1, <3>2, o \in Objects, b \in Data
      <4>2. p = active_object' /\ Interrupted'
        BY ONLY <2>1, <2>5, <3>2 DEF Interrupted
      <4> QED  BY ONLY <4>1, <4>2, Zenon DEF Quiet
    <3>3. CASE p # o
      <4>1. line'[p] = "idle"
        BY ONLY <1>3, <2>2, <2>4, <3>1, <3>3, o \in Objects, p \in Objects
      <4> QED  BY ONLY <4>1, Zenon DEF Quiet
    <3> QED  BY ONLY <3>2, <3>3
  <2> QED  BY ONLY <1>2, <2>1, <2>6
<1>12. CASE handle_interrupt
  <2>1. UNCHANGED <<I, pc, active_object>>  BY ONLY <1>12 DEF handle_interrupt, call
  <2>2. \A p \in Objects : line'[p] = "idle"
    <3> SUFFICES ASSUME NEW p \in Objects PROVE line'[p] = "idle"  OBVIOUS
    <3>1. DOMAIN line = Objects  BY DEF PortType
    <3>2. line[p] = "idle" \/ (line[p] = "start" /\ p = active_object)
      BY ONLY <1>2, p \in Objects, Zenon DEF Quiet
    <3>3. CASE active_object # None /\ recv(active_object)
      <4>1. line' = [line EXCEPT ![active_object] = "idle"]  BY ONLY <3>3 DEF recv
      <4> QED  BY ONLY <3>1, <3>2, <4>1, p \in Objects
    <3>4. CASE NotForUs
      <4>1. UNCHANGED line /\ (active_object = None \/ line[active_object] \in {"idle", "high"})
        BY ONLY <3>4 DEF NotForUs, wires
      <4>2. None \notin Objects  BY SoftwareSerialAssumption
      <4> QED  BY ONLY <3>2, <4>1, <4>2, p \in Objects
    <3> QED  BY ONLY <1>12, <3>3, <3>4 DEF handle_interrupt
  <2>3. \A p \in Objects : Quiet(p)'  BY ONLY <2>2, Zenon DEF Quiet
  <2> QED  BY ONLY <1>2, <2>1, <2>3
<1> QED
  BY ONLY <1>5, <1>6, <1>7, <1>8, <1>9, <1>10, <1>11, <1>12, [Next]_vars, Zenon
  DEF Next, Sketch

\* Every step keeps what is sampled from the middle of a frame out of the buffer.
LEMMA StepGarbage ==
  ASSUME PortType, Buffered, Reading, WireInv, NoGarbage, [Next]_vars
  PROVE  NoGarbage'
<1> SUFFICES ASSUME SenderWaits' PROVE (\A i \in 1..Len(pending) : pending[i] # Garbage)'
  BY DEF NoGarbage
<1>1. SenderWaits  BY Zenon DEF Next, vars
<1>2. \A i \in 1..Len(pending) : pending[i] # Garbage  BY <1>1 DEF NoGarbage
<1>3. pending \in Seq(Value)  BY DEF Buffered, QueueOf
<1>4. CASE pending' = pending  BY ONLY <1>2, <1>4
<1>5. CASE pending' = <<>>  BY ONLY <1>5
<1>6. CASE pending # <<>> /\ pending' = Tail(pending)
  <2>1. \A i \in 1..Len(pending') : pending'[i] = pending[i + 1] /\ i + 1 \in 1..Len(pending)
    BY ONLY <1>3, <1>6
  <2> QED  BY ONLY <1>2, <2>1
<1>7. ASSUME NEW b \in Data, pending' = Append(pending, b)
      PROVE  (\A i \in 1..Len(pending) : pending[i] # Garbage)'
  <2>1. b # Garbage  BY SoftwareSerialAssumption
  <2>2. Len(pending') = Len(pending) + 1 /\ Len(pending) \in Nat
        /\ pending'[Len(pending) + 1] = b
        /\ \A i \in 1..Len(pending) : pending'[i] = pending[i]
    BY ONLY <1>3, <1>7
  <2> QED  BY ONLY <1>2, <2>1, <2>2
<1>8. CASE \E o \in Objects : end(o) \/ overflow(o) \/ write(o) \/ read(o)
  BY ONLY <1>4, <1>8, Zenon DEF end, overflow, write, read
<1>9. CASE overflow_clear \/ write_done \/ UNCHANGED vars
  BY ONLY <1>4, <1>9, Zenon DEF overflow_clear, write_done, vars
<1>10. CASE Sender
  <2>1. Sends  BY ONLY <1>10 DEF Sender, StartBit, DataBit, StopBit
  <2> QED  BY ONLY <1>4, <2>1 DEF Sends
<1>11. CASE \E o \in Objects : begin(o) \/ listen(o) \/ flush(o)
  BY ONLY <1>4, <1>5, <1>11 DEF begin, listen, flush, Listen
<1>12. CASE read_advance
  <2>1. pc = "advance" /\ pending' = Tail(pending)  BY ONLY <1>12 DEF read_advance
  <2> QED  BY ONLY <1>6, <2>1, Reading DEF Reading
<1>13. CASE handle_interrupt
  <2>1. CASE active_object # None /\ recv(active_object)
    <3>1. active_object \in Objects  BY <2>1 DEF PortType
    <3>2. Quiet(active_object)  BY ONLY <1>1, <3>1, WireInv DEF WireInv
    <3>3. line[active_object] = "start" /\ frame[active_object] \in Data
      BY ONLY <2>1, <3>2 DEF recv, Quiet
    <3>4. Store(active_object, frame[active_object])  BY ONLY <2>1, <3>3 DEF recv
    <3>5. pending' = pending \/ pending' = Append(pending, frame[active_object])
      BY ONLY <3>4 DEF Store
    <3> QED  BY ONLY <1>4, <1>7, <3>3, <3>5, Zenon
  <2>2. CASE NotForUs  BY ONLY <1>4, <2>2 DEF NotForUs
  <2> QED  BY ONLY <1>13, <2>1, <2>2 DEF handle_interrupt
<1> QED
  BY ONLY <1>8, <1>9, <1>10, <1>11, <1>12, <1>13, [Next]_vars, Zenon
  DEF Next, Sketch

-----------------------------------------------------------------------------
\* The buffer is empty and no frame is on a wire at the start.
LEMMA InitIInv == Init => IInv
<1> SUFFICES ASSUME Init PROVE IInv  OBVIOUS
<1>1. Nothing \in Value  BY DEF Nothing, Value
<1>2. PortType  BY <1>1, Zenon DEF Init, PortType
<1>3. _receive_buffer \in [Slot -> Value]  BY <1>1 DEF Init
<1>4. Buffered  BY <1>3, QueueEmpty DEF Init, Buffered
<1>5. Reading /\ FlagInv  BY DEF Init, Reading, FlagInv
<1>6. I = (pc # "sending") /\ \A o \in Objects : line[o] = "idle"  BY Zenon DEF Init
<1>7. WireInv  BY ONLY <1>6, Zenon DEF WireInv, Quiet
<1>8. NoGarbage  BY DEF Init, NoGarbage
<1> QED  BY <1>2, <1>4, <1>5, <1>7, <1>8 DEF IInv

\* Every step of the sketch, the interrupt and the senders keeps it.
LEMMA StepIInv == IInv /\ [Next]_vars => IInv'
  BY StepType, StepBuffered, StepFlag, StepWire, StepGarbage, Zenon DEF IInv

\* The inductive invariant holds in every reachable state.
LEMMA Invariant == Spec => []IInv
  BY InitIInv, StepIInv, PTL DEF Spec

\* The queue as BufferIsQueue states it, with the remainders the code computes.
LEMMA QueueStated ==
  ASSUME IInv
  PROVE  BufferIsQueue
<1> DEFINE S == _SS_MAX_RX_BUFF
           h == _receive_buffer_head
           t == _receive_buffer_tail
           n == Len(pending)
<1>1. S \in Nat /\ S > 1  BY SoftwareSerialAssumption
<1>2. Buffered /\ Reading /\ PortType  BY DEF IInv
<1>3. n \in Nat /\ h \in Slot /\ t \in Slot
  BY ONLY <1>2, QueueSlots DEF Buffered
<1>4. /\ n < S /\ t = Wrap(h + n) /\ pending \in Seq(Value) /\ _receive_buffer \in [Slot -> Value]
      /\ \A i \in 1..n : pending[i] = _receive_buffer[Wrap(h + i - 1)]
  BY ONLY <1>2 DEF Buffered, QueueOf
<1>5. TypeOK  BY ONLY <1>2, <1>3, <1>4 DEF TypeOK, PortType
<1> HIDE DEF h, t, n
<1>6. h \in 0..(S - 1) /\ t \in 0..(S - 1)  BY ONLY <1>3 DEF Slot
<1>7. (t + S - h) % S = n
  <2>1. t + S - h \in Nat /\ t + S - h < 2 * S  BY ONLY <1>1, <1>6
  <2>2. (t + S - h) % S = Wrap(t + S - h)  BY ONLY <2>1, WrapIsMod
  <2>3. Wrap(t + S - h) = n  BY ONLY <1>1, <1>3, <1>4, <1>6 DEF Wrap
  <2> QED  BY ONLY <2>2, <2>3
<1>8. ASSUME NEW i \in 1..n PROVE pending[i] = _receive_buffer[(h + i - 1) % S]
  <2>1. h + i - 1 \in Nat /\ h + i - 1 < 2 * S  BY ONLY <1>1, <1>3, <1>4, <1>6, <1>8
  <2>2. (h + i - 1) % S = Wrap(h + i - 1)  BY ONLY <2>1, WrapIsMod
  <2> QED  BY ONLY <1>4, <1>8, <2>2
<1> QED  BY ONLY <1>2, <1>5, <1>7, <1>8 DEF BufferIsQueue, Reading, h, t, n

\* The shared buffer is a queue of the bytes received and not read, and
\* read() returns the oldest, for every buffer size and number of objects.
THEOREM BufferAlwaysQueue == Spec => []BufferIsQueue
  BY Invariant, QueueStated, PTL

\* A byte dropped from a full buffer has set the flag overflow() returns.
THEOREM DropsAlwaysTold == Spec => []OverflowTold
<1>1. IInv => OverflowTold  BY Zenon DEF IInv, FlagInv, OverflowTold
<1> QED  BY <1>1, Invariant, PTL

\* recv() samples no frame from the middle when the sender waits for a
\* listener that is not sending.
THEOREM FramesAlwaysWhole == Spec => []FramesWhole
<1>1. IInv => FramesWhole  BY Zenon DEF IInv, NoGarbage, FramesWhole
<1> QED  BY <1>1, Invariant, PTL
-----------------------------------------------------------------------------
(***************************************************************************)
(* The servo library (Servo).                                              *)
(***************************************************************************)

-----------------------------------------------------------------------------
(* Arithmetic.                                                              *)

\* What the assumption says of the sizes.
LEMMA ServoSizes ==
  /\ SERVOS_PER_TIMER \in Nat /\ SERVOS_PER_TIMER > 0
  /\ MIN_PULSE_WIDTH \in Nat /\ MAX_PULSE_WIDTH \in Nat /\ DEFAULT_PULSE_WIDTH \in Nat
  /\ REFRESH_INTERVAL \in Nat /\ Margin \in Nat /\ TimerSize \in Nat /\ ServoLatency \in Nat
  /\ 0 < MIN_PULSE_WIDTH /\ MIN_PULSE_WIDTH <= DEFAULT_PULSE_WIDTH
  /\ DEFAULT_PULSE_WIDTH <= MAX_PULSE_WIDTH
  /\ MAX_PULSE_WIDTH < TimerSize /\ REFRESH_INTERVAL + Margin < TimerSize /\ ServoLatency < Margin
<1>1. /\ SERVOS_PER_TIMER \in Nat /\ SERVOS_PER_TIMER > 0
      /\ MIN_PULSE_WIDTH \in Nat /\ MAX_PULSE_WIDTH \in Nat /\ DEFAULT_PULSE_WIDTH \in Nat
      /\ REFRESH_INTERVAL \in Nat /\ Margin \in Nat /\ TimerSize \in Nat
      /\ ServoLatency \in Nat /\ ServoLatency < Margin
  BY ServoAssumption
<1>2. PICK a \in Int : a = SERVOS_PER_TIMER * (MAX_PULSE_WIDTH + ServoLatency)  BY <1>1
<1>3. a >= MAX_PULSE_WIDTH + ServoLatency
  <2>1. PICK longest \in Nat : longest = MAX_PULSE_WIDTH + ServoLatency  BY <1>1
  <2>2. a = SERVOS_PER_TIMER * longest  BY ONLY <1>2, <2>1, Zenon
  <2>3. PICK k \in Nat : SERVOS_PER_TIMER = k + 1
    <3>1. SERVOS_PER_TIMER - 1 \in Nat /\ SERVOS_PER_TIMER = (SERVOS_PER_TIMER - 1) + 1
      BY ONLY <1>1
    <3> QED  BY ONLY <3>1
  <2>4. (k + 1) * longest = k * longest + longest /\ k * longest \in Nat
    BY ONLY k \in Nat, longest \in Nat
  <2>5. a = k * longest + longest  BY ONLY <2>2, <2>3, <2>4
  <2>6. PICK b \in Nat : b = k * longest  BY ONLY <2>4
  <2>7. a = b + longest  BY ONLY <2>5, <2>6, Zenon
  <2> QED  BY ONLY <2>1, <2>7
<1>4. a + REFRESH_INTERVAL + Margin < TimerSize  BY ONLY ServoAssumption, <1>2, Zenon
<1>5. 0 < MIN_PULSE_WIDTH /\ MIN_PULSE_WIDTH <= DEFAULT_PULSE_WIDTH
      /\ DEFAULT_PULSE_WIDTH <= MAX_PULSE_WIDTH
  BY ONLY ServoAssumption, Zenon
<1>6. MAX_PULSE_WIDTH < TimerSize /\ REFRESH_INTERVAL + Margin < TimerSize
  BY ONLY <1>1, <1>3, <1>4, a \in Int
<1> QED  BY ONLY <1>1, <1>5, <1>6

\* The timer wraps at most once within a pulse.
LEMMA TurnOnce ==
  ASSUME NEW T \in Nat \ {0}, NEW x \in Nat, x < T + T
  PROVE  x % T = IF x < T THEN x ELSE x - T
<1>1. PICK p \in Int, r \in 0..(T - 1) : x = p * T + r /\ r = x % T
  <2>1. x \div T \in Int /\ x % T \in 0..(T - 1) /\ x = (x \div T) * T + (x % T)  BY SMT
  <2> QED  BY ONLY <2>1, Zenon
<1>2. p < 2
  <2> SUFFICES ASSUME p >= 2 PROVE FALSE  OBVIOUS
  <2>1. p * T >= 2 * T /\ p * T \in Int  BY ONLY p \in Int, T \in Nat \ {0}, p >= 2
  <2>2. PICK a \in Int : a = p * T  BY ONLY <2>1
  <2>3. x = a + r /\ a >= 2 * T  BY ONLY <1>1, <2>1, <2>2
  <2> QED  BY ONLY <2>3, x \in Nat, x < T + T, T \in Nat \ {0}, r \in 0..(T - 1), a \in Int
<1>3. p > -1
  <2> SUFFICES ASSUME p <= -1 PROVE FALSE  OBVIOUS
  <2>1. p * T <= -T /\ p * T \in Int  BY ONLY p \in Int, T \in Nat \ {0}, p <= -1
  <2>2. PICK a \in Int : a = p * T  BY ONLY <2>1
  <2>3. x = a + r /\ a <= -T  BY ONLY <1>1, <2>1, <2>2
  <2> QED  BY ONLY <2>3, x \in Nat, T \in Nat \ {0}, r \in 0..(T - 1), a \in Int
<1>4. p = 0 \/ p = 1  BY ONLY <1>2, <1>3, p \in Int
<1>5. x = r \/ x = T + r  BY ONLY <1>1, <1>4, T \in Nat \ {0}, r \in 0..(T - 1)
<1> QED  BY ONLY <1>1, <1>5, x \in Nat, T \in Nat \ {0}, r \in 0..(T - 1)

\* One tick of the timer.
LEMMA CountTick ==
  ASSUME NEW at \in 0..(TimerSize - 1), NEW ahead \in 1..MAX_PULSE_WIDTH
  PROVE  /\ (at + 1) % TimerSize \in 0..(TimerSize - 1)
         /\ (at + ahead) % TimerSize \in 0..(TimerSize - 1)
         /\ ahead = 1 => (at + ahead) % TimerSize = (at + 1) % TimerSize
         /\ ahead # 1 => /\ (at + ahead) % TimerSize # (at + 1) % TimerSize
                         /\ (at + ahead) % TimerSize = (((at + 1) % TimerSize) + (ahead - 1)) % TimerSize
<1>1. TimerSize \in Nat \ {0} /\ MAX_PULSE_WIDTH < TimerSize /\ MAX_PULSE_WIDTH \in Nat
  BY ONLY ServoSizes
<1>2. (at + 1) % TimerSize = IF at + 1 < TimerSize THEN at + 1 ELSE at + 1 - TimerSize
  <2>1. PICK x \in Nat : x = at + 1 /\ x < TimerSize + TimerSize
    <3>1. at + 1 \in Nat /\ at + 1 < TimerSize + TimerSize  BY ONLY <1>1
    <3> QED  BY ONLY <3>1, Zenon
  <2>2. x % TimerSize = IF x < TimerSize THEN x ELSE x - TimerSize
    BY ONLY <1>1, <2>1, TurnOnce, Zenon
  <2>3. (at + 1) % TimerSize = x % TimerSize  BY ONLY <2>1, Zenon
  <2>4. CASE x < TimerSize
    <3>1. (at + 1) % TimerSize = at + 1 /\ at + 1 < TimerSize  BY ONLY <2>1, <2>2, <2>3, <2>4, Zenon
    <3> QED  BY ONLY <3>1, Zenon
  <2>5. CASE ~(x < TimerSize)
    <3>1. x - TimerSize = at + 1 - TimerSize  BY ONLY <1>1, <2>1
    <3>2. x % TimerSize = x - TimerSize  BY ONLY <2>2, <2>5, Zenon
    <3>3. (at + 1) % TimerSize = at + 1 - TimerSize  BY ONLY <2>3, <3>1, <3>2, Zenon
    <3>4. ~(at + 1 < TimerSize)  BY ONLY <2>1, <2>5, Zenon
    <3> QED  BY ONLY <3>3, <3>4, Zenon
  <2> QED  BY ONLY <2>4, <2>5, Zenon
<1>3. (at + ahead) % TimerSize = IF at + ahead < TimerSize THEN at + ahead ELSE at + ahead - TimerSize
  <2>1. PICK x \in Nat : x = at + ahead /\ x < TimerSize + TimerSize
    <3>1. at + ahead \in Nat /\ at + ahead < TimerSize + TimerSize  BY ONLY <1>1
    <3> QED  BY ONLY <3>1, Zenon
  <2>2. x % TimerSize = IF x < TimerSize THEN x ELSE x - TimerSize
    BY ONLY <1>1, <2>1, TurnOnce, Zenon
  <2>3. (at + ahead) % TimerSize = x % TimerSize  BY ONLY <2>1, Zenon
  <2>4. CASE x < TimerSize
    <3>1. (at + ahead) % TimerSize = at + ahead /\ at + ahead < TimerSize
      BY ONLY <2>1, <2>2, <2>3, <2>4, Zenon
    <3> QED  BY ONLY <3>1, Zenon
  <2>5. CASE ~(x < TimerSize)
    <3>1. x - TimerSize = at + ahead - TimerSize  BY ONLY <1>1, <2>1
    <3>2. x % TimerSize = x - TimerSize  BY ONLY <2>2, <2>5, Zenon
    <3>3. (at + ahead) % TimerSize = at + ahead - TimerSize  BY ONLY <2>3, <3>1, <3>2, Zenon
    <3>4. ~(at + ahead < TimerSize)  BY ONLY <2>1, <2>5, Zenon
    <3> QED  BY ONLY <3>3, <3>4, Zenon
  <2> QED  BY ONLY <2>4, <2>5, Zenon
<1>4. PICK u \in 0..(TimerSize - 1) : u = (at + 1) % TimerSize  BY ONLY <1>1, <1>2
<1>5. u = IF at + 1 < TimerSize THEN at + 1 ELSE at + 1 - TimerSize  BY ONLY <1>2, <1>4, Zenon
<1>6. PICK w \in 0..(TimerSize - 1) : w = (at + ahead) % TimerSize  BY ONLY <1>1, <1>3
<1>7. w = IF at + ahead < TimerSize THEN at + ahead ELSE at + ahead - TimerSize
  BY ONLY <1>3, <1>6, Zenon
<1>8. (u + (ahead - 1)) % TimerSize = IF u + (ahead - 1) < TimerSize THEN u + (ahead - 1) ELSE u + (ahead - 1) - TimerSize
  <2>1. PICK x \in Nat : x = u + (ahead - 1) /\ x < TimerSize + TimerSize
    <3>1. u + (ahead - 1) \in Nat /\ u + (ahead - 1) < TimerSize + TimerSize  BY ONLY <1>1
    <3> QED  BY ONLY <3>1, Zenon
  <2>2. x % TimerSize = IF x < TimerSize THEN x ELSE x - TimerSize
    BY ONLY <1>1, <2>1, TurnOnce, Zenon
  <2>3. (u + (ahead - 1)) % TimerSize = x % TimerSize  BY ONLY <2>1, Zenon
  <2>4. CASE x < TimerSize
    <3>1. (u + (ahead - 1)) % TimerSize = u + (ahead - 1) /\ u + (ahead - 1) < TimerSize
      BY ONLY <2>1, <2>2, <2>3, <2>4, Zenon
    <3> QED  BY ONLY <3>1, Zenon
  <2>5. CASE ~(x < TimerSize)
    <3>1. x - TimerSize = u + (ahead - 1) - TimerSize  BY ONLY <1>1, <2>1
    <3>2. x % TimerSize = x - TimerSize  BY ONLY <2>2, <2>5, Zenon
    <3>3. (u + (ahead - 1)) % TimerSize = u + (ahead - 1) - TimerSize
      BY ONLY <2>3, <3>1, <3>2, Zenon
    <3>4. ~(u + (ahead - 1) < TimerSize)  BY ONLY <2>1, <2>5, Zenon
    <3> QED  BY ONLY <3>3, <3>4, Zenon
  <2> QED  BY ONLY <2>4, <2>5, Zenon
<1>9. w = (u + (ahead - 1)) % TimerSize
  <2>1. PICK z : z = (u + (ahead - 1)) % TimerSize  BY ONLY Zenon
  <2>2. z = IF u + (ahead - 1) < TimerSize THEN u + (ahead - 1) ELSE u + (ahead - 1) - TimerSize
    BY ONLY <1>8, <2>1, Zenon
  <2>3. w = z  BY ONLY <1>1, <1>5, <1>7, <2>2
  <2> QED  BY ONLY <2>1, <2>3, Zenon
<1>10. (ahead = 1 => w = u) /\ (ahead # 1 => w # u)  BY ONLY <1>1, <1>5, <1>7
<1> QED  BY ONLY <1>4, <1>6, <1>9, <1>10, Zenon

-----------------------------------------------------------------------------
(* The inductive invariant.                                                 *)

\* Every servo there is has a width within the limits.
WidthInv == \A s \in Index : s < ServoCount => ticks[s] \in 1..MAX_PULSE_WIDTH

\* Only the pin of the current channel is high.
LevelInv ==
  Steady => \A p \in ServoPins :
              servo_level[p] => Channel >= 0 /\ Channel < ServoCount /\ isActive[Channel] /\ nbr[Channel] = p

\* The compare value is as far ahead as the pulse still has to last; once it
\* is reached, the pulse is over by as much as the interrupt is late.
PulseInv ==
  Steady => \A p \in ServoPins :
              servo_level[p] => /\ due[p] \in 1..MAX_PULSE_WIDTH
                                /\ ~OCF => /\ high[p] < due[p]
                                           /\ OCR = (TCNT + (due[p] - high[p])) % TimerSize
                                /\ OCF => high[p] = due[p] + late

\* The count has not run for longer than the frame.
FrameInv ==
  /\ TCNT <= servo_frame \/ servo_frame = LongFrame
  /\ Channel < 0 => REFRESH_INTERVAL <= OCR \/ servo_frame = LongFrame
  /\ Channel < 0 /\ OCF => servo_frame = LongFrame

ServoInv == ServoTypeOK /\ WidthInv /\ LevelInv /\ PulseInv /\ FrameInv

-----------------------------------------------------------------------------
(* The steps.                                                               *)

\* The steps, one by one.
LEMMA Steps ==
  ASSUME [ServoNext]_servo_vars
  PROVE  /\ UNCHANGED Calls
         /\ \/ UNCHANGED servo_vars \/ ServoTick \/ handle_interrupts \/ Servo \/ initISR \/ Activate
            \/ \E s \in Index : detach(s)
            \/ \E s \in Index, p \in ServoPins : attach(s, p)
            \/ \E s \in Index, v \in Pulses : writeMicroseconds(s, v)
<1>1. UNCHANGED servo_vars => UNCHANGED Calls  BY ONLY Zenon DEF servo_vars
<1> QED  BY ONLY <1>1, [ServoNext]_servo_vars, Zenon DEF ServoNext, ServoSketch

TimerType ==
  /\ TCNT \in 0..(TimerSize - 1) /\ OCR \in 0..(TimerSize - 1)
  /\ OCF \in BOOLEAN /\ OCIE \in BOOLEAN
ServoType ==
  /\ Channel \in -1..(SERVOS_PER_TIMER - 1) /\ ServoCount \in 0..SERVOS_PER_TIMER
  /\ nbr \in [Index -> ServoPins] /\ isActive \in [Index -> BOOLEAN]
  /\ ticks \in [Index -> 0..MAX_PULSE_WIDTH] /\ servo_level \in [ServoPins -> BOOLEAN]
CallType ==
  /\ Calls \in Sketches
  /\ servo_pc \in {"sketch", "init", "active"} /\ servo \in Index /\ pin \in ServoPins
HistoryType ==
  /\ late \in 0..ServoLatency /\ high \in [ServoPins -> 0..LongHigh]
  /\ due \in [ServoPins -> 0..MAX_PULSE_WIDTH] /\ servo_frame \in 0..LongFrame

\* The types in four parts.
LEMMA TypeParts == ServoTypeOK <=> TimerType /\ ServoType /\ CallType /\ HistoryType
  BY ONLY Zenon DEF ServoTypeOK, TimerType, ServoType, CallType, HistoryType

\* What the handler does, in parts.
LEMMA Handled ==
  ASSUME ServoTypeOK, handle_interrupts
  PROVE  /\ OCIE /\ OCF /\ TCNT' = Count /\ OCF' = FALSE /\ late' = 0
         /\ servo_frame' = (IF Channel < 0 THEN 0 ELSE servo_frame)
         /\ UNCHANGED <<OCIE, ServoCount, nbr, isActive, ticks, servo_pc, servo, pin>>
         /\ \/ \E c \in Index :
                 /\ c = Channel + 1 /\ c < ServoCount /\ Channel' = c
                 /\ OCR' = (Count + ticks[c]) % TimerSize
                 /\ servo_level' = IF isActive[c] THEN [Lowered EXCEPT ![nbr[c]] = TRUE] ELSE Lowered
                 /\ high' = IF isActive[c] THEN [high EXCEPT ![nbr[c]] = 0] ELSE high
                 /\ due' = IF isActive[c] THEN [due EXCEPT ![nbr[c]] = ticks[c]] ELSE due
            \/ /\ OCR' = NextFrame % TimerSize /\ Channel' = -1
               /\ servo_level' = Lowered /\ UNCHANGED <<high, due>>
<1>1. /\ OCIE /\ OCF /\ TCNT' = Count /\ OCF' = FALSE /\ late' = 0
      /\ servo_frame' = (IF Channel < 0 THEN 0 ELSE servo_frame)
      /\ UNCHANGED <<OCIE, ServoCount, nbr, isActive, ticks, servo_pc, servo, pin>>
  BY ONLY handle_interrupts, Zenon DEF handle_interrupts, servos, servo_call
<1>2. CASE RaiseNext
  <2>1. PICK c : c = Channel + 1  BY ONLY Zenon
  <2>2. /\ c < ServoCount /\ c < SERVOS_PER_TIMER /\ Channel' = c
        /\ OCR' = (Count + ticks[c]) % TimerSize
        /\ servo_level' = IF isActive[c] THEN [Lowered EXCEPT ![nbr[c]] = TRUE] ELSE Lowered
        /\ high' = IF isActive[c] THEN [high EXCEPT ![nbr[c]] = 0] ELSE high
        /\ due' = IF isActive[c] THEN [due EXCEPT ![nbr[c]] = ticks[c]] ELSE due
    BY ONLY <1>2, <2>1, Zenon DEF RaiseNext
  <2>3. Channel \in -1..(SERVOS_PER_TIMER - 1)  BY ONLY TypeParts, ServoTypeOK DEF ServoType
  <2>4. c \in Index  BY ONLY <2>1, <2>2, <2>3, ServoSizes DEF Index
  <2> QED  BY ONLY <1>1, <2>1, <2>2, <2>4, Zenon
<1>3. CASE FinishFrame
  BY ONLY <1>1, <1>3, Zenon DEF FinishFrame
<1> QED  BY ONLY <1>2, <1>3, handle_interrupts, Zenon DEF handle_interrupts

\* The pins after the pulse of the channel is over.
LEMMA LoweredIs ==
  ASSUME ServoTypeOK, LevelInv
  PROVE  /\ Lowered \in [ServoPins -> BOOLEAN]
         /\ \A p \in ServoPins : Lowered[p] => servo_level[p]
         /\ Steady => \A p \in ServoPins : ~Lowered[p]
<1>1. /\ Channel \in -1..(SERVOS_PER_TIMER - 1) /\ nbr \in [Index -> ServoPins]
      /\ servo_level \in [ServoPins -> BOOLEAN]
  BY ONLY TypeParts, ServoTypeOK DEF ServoType
<1>2. CASE Channel >= 0 /\ Channel < ServoCount /\ isActive[Channel]
  <2>1. Channel \in Index  BY ONLY <1>1, <1>2, ServoSizes DEF Index
  <2>2. nbr[Channel] \in ServoPins  BY ONLY <1>1, <2>1
  <2>3. Lowered = [servo_level EXCEPT ![nbr[Channel]] = FALSE]  BY ONLY <1>2, Zenon DEF Lowered
  <2>4. /\ Lowered \in [ServoPins -> BOOLEAN]
        /\ \A p \in ServoPins : Lowered[p] = IF p = nbr[Channel] THEN FALSE ELSE servo_level[p]
    BY ONLY <1>1, <2>2, <2>3
  <2>5. Steady => \A p \in ServoPins : servo_level[p] => nbr[Channel] = p
    BY ONLY LevelInv, Zenon DEF LevelInv
  <2> QED  BY ONLY <2>4, <2>5, Zenon
<1>3. CASE ~(Channel >= 0 /\ Channel < ServoCount /\ isActive[Channel])
  <2>1. Lowered = servo_level  BY ONLY <1>3, Zenon DEF Lowered
  <2>2. Steady => \A p \in ServoPins : ~servo_level[p]  BY ONLY <1>3, LevelInv, Zenon DEF LevelInv
  <2> QED  BY ONLY <1>1, <2>1, <2>2, Zenon
<1> QED  BY ONLY <1>2, <1>3

\* The count a frame starts from.
LEMMA CountIs ==
  ASSUME ServoTypeOK
  PROVE  Count \in 0..(TimerSize - 1) /\ (Channel < 0 => Count = 0) /\ (Channel >= 0 => Count = TCNT)
<1>1. TCNT \in 0..(TimerSize - 1) /\ Channel \in -1..(SERVOS_PER_TIMER - 1)
  BY ONLY TypeParts, ServoTypeOK DEF TimerType, ServoType
<1> QED  BY ONLY <1>1, ServoSizes DEF Count

\* A remainder of the timer.
LEMMA Timer == \A x \in Nat : x % TimerSize \in 0..(TimerSize - 1)
<1>1. TimerSize \in Nat \ {0}  BY ONLY ServoSizes
<1> QED  BY ONLY <1>1

-----------------------------------------------------------------------------
(* The types.                                                               *)

\* Every step keeps the types.
LEMMA StepServoType ==
  ASSUME ServoInv, [ServoNext]_servo_vars
  PROVE  ServoTypeOK'
<1>0. ServoTypeOK /\ LevelInv /\ TimerType /\ ServoType /\ CallType /\ HistoryType
  BY ONLY ServoInv, TypeParts, Zenon DEF ServoInv
<1>1. TimerType' /\ ServoType' /\ CallType' /\ HistoryType' => ServoTypeOK'
  BY ONLY Zenon DEF ServoTypeOK, TimerType, ServoType, CallType, HistoryType
<1>2. UNCHANGED Calls  BY ONLY Steps, [ServoNext]_servo_vars, Zenon
<1>3. ASSUME UNCHANGED servo_timer PROVE TimerType'
  BY ONLY <1>0, <1>3, Zenon DEF servo_timer, TimerType
<1>4. ASSUME UNCHANGED <<Channel, ServoCount, servos, servo_level>> PROVE ServoType'
  BY ONLY <1>0, <1>4, Zenon DEF servos, ServoType, Index
<1>5. ASSUME UNCHANGED servo_call PROVE CallType'
  BY ONLY <1>0, <1>2, <1>5, Zenon DEF servo_call, CallType, Index
<1>6. ASSUME UNCHANGED history PROVE HistoryType'
  BY ONLY <1>0, <1>6, Zenon DEF history, HistoryType, LongHigh, LongFrame
<1>7. FirstPin \in ServoPins /\ 0 \in Index
  <2>1. ServoPins # {}  BY ONLY ServoAssumption, Zenon
  <2>2. FirstPin \in ServoPins  BY ONLY <2>1 DEF FirstPin
  <2>3. 0 \in Index  BY ONLY ServoSizes DEF Index
  <2> QED  BY ONLY <2>2, <2>3
<1>8. CASE UNCHANGED servo_vars
  BY ONLY <1>1, <1>3, <1>4, <1>5, <1>6, <1>8, Zenon DEF servo_vars
<1>9. CASE ServoTick
  <2>1. UNCHANGED <<OCR, OCIE, Channel, ServoCount, servos, servo_level, servo_call, due>>
    BY ONLY <1>9, Zenon DEF ServoTick
  <2>2. ServoType' /\ CallType'  BY ONLY <1>4, <1>5, <2>1, Zenon
  <2>3. TCNT' \in 0..(TimerSize - 1)
    <3>1. TCNT' = (TCNT + 1) % TimerSize  BY ONLY <1>9, Zenon DEF ServoTick
    <3>2. TCNT + 1 \in Nat  BY ONLY <1>0, ServoSizes DEF TimerType
    <3> QED  BY ONLY <3>1, <3>2, Timer
  <2>4. OCF' \in BOOLEAN  BY ONLY <1>9, Zenon DEF ServoTick
  <2>5. TimerType'  BY ONLY <1>0, <2>1, <2>3, <2>4, Zenon DEF TimerType
  <2>6. late' \in 0..ServoLatency
    <3>1. late' = (IF OCF THEN late + 1 ELSE 0) /\ (OCF => late < ServoLatency)
      BY ONLY <1>9, Zenon DEF ServoTick
    <3> QED  BY ONLY <1>0, <3>1, ServoSizes DEF HistoryType
  <2>7. servo_frame' \in 0..LongFrame
    <3>1. servo_frame' = IF servo_frame < LongFrame THEN servo_frame + 1 ELSE servo_frame
      BY ONLY <1>9, Zenon DEF ServoTick
    <3> QED  BY ONLY <1>0, <3>1, ServoSizes DEF HistoryType, LongFrame
  <2>8. high' \in [ServoPins -> 0..LongHigh]
    <3>1. high' = [p \in ServoPins |-> IF servo_level[p] /\ high[p] < LongHigh THEN high[p] + 1 ELSE high[p]]
      BY ONLY <1>9, Zenon DEF ServoTick
    <3>2. LongHigh \in Nat /\ high \in [ServoPins -> 0..LongHigh]
      BY ONLY <1>0, ServoSizes DEF LongHigh, HistoryType
    <3> QED  BY ONLY <3>1, <3>2
  <2>9. HistoryType'
    BY ONLY <1>0, <2>1, <2>6, <2>7, <2>8, Zenon DEF HistoryType, LongHigh, LongFrame
  <2> QED  BY ONLY <1>1, <2>2, <2>5, <2>9
<1>10. CASE handle_interrupts
  <2>1. /\ TCNT' = Count /\ OCF' = FALSE /\ late' = 0
        /\ servo_frame' = (IF Channel < 0 THEN 0 ELSE servo_frame)
        /\ UNCHANGED <<OCIE, ServoCount, nbr, isActive, ticks, servo_pc, servo, pin>>
    BY ONLY <1>0, <1>10, Handled, Zenon
  <2>2. CallType'  BY ONLY <1>5, <2>1, Zenon DEF servo_call
  <2>3. Lowered \in [ServoPins -> BOOLEAN]  BY ONLY <1>0, LoweredIs, Zenon
  <2>4. Count \in 0..(TimerSize - 1)  BY ONLY <1>0, CountIs, Zenon
  <2>5. /\ OCR' \in 0..(TimerSize - 1) /\ Channel' \in -1..(SERVOS_PER_TIMER - 1)
        /\ servo_level' \in [ServoPins -> BOOLEAN] /\ high' \in [ServoPins -> 0..LongHigh]
        /\ due' \in [ServoPins -> 0..MAX_PULSE_WIDTH]
    <3>0. /\ high \in [ServoPins -> 0..LongHigh] /\ due \in [ServoPins -> 0..MAX_PULSE_WIDTH]
          /\ nbr \in [Index -> ServoPins] /\ ticks \in [Index -> 0..MAX_PULSE_WIDTH]
      BY ONLY <1>0, Zenon DEF HistoryType, ServoType
    <3>1. ASSUME NEW c \in Index, Channel' = c,
                 OCR' = (Count + ticks[c]) % TimerSize,
                 servo_level' = IF isActive[c] THEN [Lowered EXCEPT ![nbr[c]] = TRUE] ELSE Lowered,
                 high' = IF isActive[c] THEN [high EXCEPT ![nbr[c]] = 0] ELSE high,
                 due' = IF isActive[c] THEN [due EXCEPT ![nbr[c]] = ticks[c]] ELSE due
          PROVE  /\ OCR' \in 0..(TimerSize - 1) /\ Channel' \in -1..(SERVOS_PER_TIMER - 1)
                 /\ servo_level' \in [ServoPins -> BOOLEAN] /\ high' \in [ServoPins -> 0..LongHigh]
                 /\ due' \in [ServoPins -> 0..MAX_PULSE_WIDTH]
      <4>1. nbr[c] \in ServoPins /\ ticks[c] \in 0..MAX_PULSE_WIDTH  BY ONLY <3>0, c \in Index
      <4>2. OCR' \in 0..(TimerSize - 1)
        <5>1. Count + ticks[c] \in Nat  BY ONLY <2>4, <4>1, ServoSizes
        <5> QED  BY ONLY <3>1, <5>1, Timer
      <4>3. Channel' \in -1..(SERVOS_PER_TIMER - 1)  BY ONLY <3>1, ServoSizes DEF Index
      <4>4. servo_level' \in [ServoPins -> BOOLEAN]  BY ONLY <2>3, <3>1, <4>1
      <4>5. high' \in [ServoPins -> 0..LongHigh]
        <5>1. 0 \in 0..LongHigh  BY ONLY ServoSizes DEF LongHigh
        <5> QED  BY ONLY <3>0, <3>1, <4>1, <5>1
      <4>6. due' \in [ServoPins -> 0..MAX_PULSE_WIDTH]  BY ONLY <3>0, <3>1, <4>1
      <4> QED  BY ONLY <4>2, <4>3, <4>4, <4>5, <4>6
    <3>2. ASSUME OCR' = NextFrame % TimerSize, Channel' = -1, servo_level' = Lowered,
                 UNCHANGED <<high, due>>
          PROVE  /\ OCR' \in 0..(TimerSize - 1) /\ Channel' \in -1..(SERVOS_PER_TIMER - 1)
                 /\ servo_level' \in [ServoPins -> BOOLEAN] /\ high' \in [ServoPins -> 0..LongHigh]
                 /\ due' \in [ServoPins -> 0..MAX_PULSE_WIDTH]
      <4>1. NextFrame \in Nat  BY ONLY <2>4, ServoSizes DEF NextFrame
      <4>2. OCR' \in 0..(TimerSize - 1)  BY ONLY <3>2, <4>1, Timer
      <4>3. Channel' \in -1..(SERVOS_PER_TIMER - 1)  BY ONLY <3>2, ServoSizes
      <4> QED  BY ONLY <2>3, <3>0, <3>2, <4>2, <4>3
    <3> QED  BY ONLY <1>0, <1>10, <3>1, <3>2, Handled
  <2>6. TimerType'
    <3>1. OCF' \in BOOLEAN /\ OCIE' \in BOOLEAN /\ TCNT' \in 0..(TimerSize - 1)
      BY ONLY <1>0, <2>1, <2>4, Zenon DEF TimerType
    <3> QED  BY ONLY <2>5, <3>1, Zenon DEF TimerType
  <2>7. ServoType'  BY ONLY <1>0, <2>1, <2>5, Zenon DEF ServoType, Index
  <2>8. late' \in 0..ServoLatency /\ servo_frame' \in 0..LongFrame
    BY ONLY <1>0, <2>1, ServoSizes DEF HistoryType, LongFrame
  <2>9. HistoryType'  BY ONLY <2>5, <2>8, Zenon DEF HistoryType, LongHigh, LongFrame
  <2> QED  BY ONLY <1>1, <2>2, <2>6, <2>7, <2>9
<1>11. CASE Servo
  <2>1. /\ ServoCount < SERVOS_PER_TIMER /\ ServoCount' = ServoCount + 1
        /\ ticks' = [ticks EXCEPT ![ServoCount] = DEFAULT_PULSE_WIDTH]
        /\ UNCHANGED <<servo_timer, Channel, nbr, isActive, servo_level, servo_call, history>>
    BY ONLY <1>11, Zenon DEF Servo
  <2>2. TimerType' /\ CallType' /\ HistoryType'  BY ONLY <1>3, <1>5, <1>6, <2>1, Zenon
  <2>3. ServoCount' \in 0..SERVOS_PER_TIMER  BY ONLY <1>0, <2>1, ServoSizes DEF ServoType
  <2>4. ticks' \in [Index -> 0..MAX_PULSE_WIDTH]
    <3>1. DEFAULT_PULSE_WIDTH \in 0..MAX_PULSE_WIDTH  BY ONLY ServoSizes
    <3>2. ticks \in [Index -> 0..MAX_PULSE_WIDTH]  BY ONLY <1>0, Zenon DEF ServoType
    <3> QED  BY ONLY <2>1, <3>1, <3>2, Zenon
  <2>5. ServoType'  BY ONLY <1>0, <2>1, <2>3, <2>4, Zenon DEF ServoType, Index
  <2> QED  BY ONLY <1>1, <2>2, <2>5
<1>12. CASE \E s \in Index, p \in ServoPins : attach(s, p)
  <2>1. PICK s \in Index, p \in ServoPins : attach(s, p)  BY ONLY <1>12
  <2>2. /\ nbr' = [nbr EXCEPT ![s] = p] /\ servo_pc' = "init" /\ servo' = s /\ pin' = p
        /\ UNCHANGED <<servo_timer, Channel, ServoCount, isActive, ticks, servo_level, history>>
    BY ONLY <2>1, Zenon DEF attach
  <2>3. TimerType' /\ HistoryType'  BY ONLY <1>3, <1>6, <2>2, Zenon
  <2>4. nbr' \in [Index -> ServoPins]  BY ONLY <1>0, <2>2, p \in ServoPins DEF ServoType
  <2>5. ServoType'  BY ONLY <1>0, <2>2, <2>4, Zenon DEF ServoType, Index
  <2>6. servo_pc' \in {"sketch", "init", "active"}  BY ONLY <2>2
  <2>7. CallType'
    BY ONLY <1>0, <1>2, <2>2, <2>6, s \in Index, p \in ServoPins, Zenon DEF CallType, Index
  <2> QED  BY ONLY <1>1, <2>3, <2>5, <2>7
<1>13. CASE initISR
  <2>1. /\ \/ UNCHANGED <<servo_timer, late>>
           \/ TCNT' = 0 /\ OCF' = FALSE /\ OCIE' = TRUE /\ late' = 0 /\ UNCHANGED OCR
        /\ servo_pc' = "active"
        /\ UNCHANGED <<Channel, ServoCount, servos, servo_level, servo, pin, high, due, servo_frame>>
    BY ONLY <1>13, Zenon DEF initISR
  <2>2. ServoType'  BY ONLY <1>4, <2>1, Zenon
  <2>3. servo_pc' \in {"sketch", "init", "active"}  BY ONLY <2>1
  <2>4. CallType'  BY ONLY <1>0, <1>2, <2>1, <2>3, Zenon DEF CallType, Index
  <2>5. late' \in 0..ServoLatency  BY ONLY <1>0, <2>1, ServoSizes DEF HistoryType
  <2>6. HistoryType'  BY ONLY <1>0, <2>1, <2>5, Zenon DEF HistoryType, LongHigh, LongFrame
  <2>7. 0 \in 0..(TimerSize - 1)  BY ONLY ServoSizes
  <2>8. TimerType'  BY ONLY <1>0, <2>1, <2>7, Zenon DEF TimerType, servo_timer
  <2> QED  BY ONLY <1>1, <2>2, <2>4, <2>6, <2>8
<1>14. CASE Activate
  <2>1. /\ isActive' = [isActive EXCEPT ![servo] = TRUE]
        /\ servo_pc' = "sketch" /\ servo' = 0 /\ pin' = FirstPin
        /\ UNCHANGED <<servo_timer, Channel, ServoCount, nbr, ticks, servo_level, history>>
    BY ONLY <1>14, Zenon DEF Activate
  <2>2. TimerType' /\ HistoryType'  BY ONLY <1>3, <1>6, <2>1, Zenon
  <2>3. isActive' \in [Index -> BOOLEAN]  BY ONLY <1>0, <2>1, Zenon DEF ServoType
  <2>4. ServoType'  BY ONLY <1>0, <2>1, <2>3, Zenon DEF ServoType, Index
  <2>5. servo_pc' \in {"sketch", "init", "active"}  BY ONLY <2>1
  <2>6. CallType'  BY ONLY <1>0, <1>2, <1>7, <2>1, <2>5, Zenon DEF CallType, Index
  <2> QED  BY ONLY <1>1, <2>2, <2>4, <2>6
<1>15. CASE \E s \in Index : detach(s)
  <2>1. PICK s \in Index : detach(s)  BY ONLY <1>15
  <2>2. /\ isActive' = [isActive EXCEPT ![s] = FALSE]
        /\ UNCHANGED <<servo_timer, Channel, ServoCount, nbr, ticks, servo_level, servo_call, history>>
    BY ONLY <2>1, Zenon DEF detach
  <2>3. TimerType' /\ CallType' /\ HistoryType'  BY ONLY <1>3, <1>5, <1>6, <2>2, Zenon
  <2>4. isActive' \in [Index -> BOOLEAN]  BY ONLY <1>0, <2>2 DEF ServoType
  <2>5. ServoType'  BY ONLY <1>0, <2>2, <2>4, Zenon DEF ServoType, Index
  <2> QED  BY ONLY <1>1, <2>3, <2>5
<1>16. CASE \E s \in Index, v \in Pulses : writeMicroseconds(s, v)
  <2>1. PICK s \in Index, v \in Pulses : writeMicroseconds(s, v)  BY ONLY <1>16
  <2>2. /\ ticks' = [ticks EXCEPT ![s] = Clamped(v)]
        /\ UNCHANGED <<servo_timer, Channel, ServoCount, nbr, isActive, servo_level, servo_call, history>>
    BY ONLY <2>1, Zenon DEF writeMicroseconds
  <2>3. TimerType' /\ CallType' /\ HistoryType'  BY ONLY <1>3, <1>5, <1>6, <2>2, Zenon
  <2>4. Clamped(v) \in 0..MAX_PULSE_WIDTH
    <3>1. v \in Nat  BY ONLY ServoAssumption, v \in Pulses
    <3> QED  BY ONLY <3>1, ServoSizes DEF Clamped, Min2
  <2>5. ticks' \in [Index -> 0..MAX_PULSE_WIDTH]  BY ONLY <1>0, <2>2, <2>4 DEF ServoType
  <2>6. ServoType'  BY ONLY <1>0, <2>2, <2>5, Zenon DEF ServoType, Index
  <2> QED  BY ONLY <1>1, <2>3, <2>6
<1> QED

    BY ONLY Steps, [ServoNext]_servo_vars, <1>8, <1>9, <1>10, <1>11, <1>12, <1>13, <1>14, <1>15, <1>16, Zenon

-----------------------------------------------------------------------------
(* The servos.                                                              *)

\* Every step keeps the widths within their limits.
LEMMA StepWidth ==
  ASSUME ServoInv, [ServoNext]_servo_vars
  PROVE  WidthInv'
<1>0. ServoTypeOK /\ ServoType /\ WidthInv  BY ONLY ServoInv, TypeParts, Zenon DEF ServoInv
<1>1. ServoCount \in 0..SERVOS_PER_TIMER /\ ticks \in [Index -> 0..MAX_PULSE_WIDTH]
  BY ONLY <1>0, Zenon DEF ServoType
<1>2. CASE UNCHANGED <<ServoCount, ticks>>  BY ONLY <1>0, <1>2, Zenon DEF WidthInv, Index
<1>3. CASE Servo
  <2>1. /\ ServoCount < SERVOS_PER_TIMER /\ ServoCount' = ServoCount + 1
        /\ ticks' = [ticks EXCEPT ![ServoCount] = DEFAULT_PULSE_WIDTH]
    BY ONLY <1>3, Zenon DEF Servo
  <2>2. ASSUME NEW s \in Index, s < ServoCount' PROVE ticks'[s] \in 1..MAX_PULSE_WIDTH
    <3>1. CASE s = ServoCount
      <4>1. ticks'[s] = DEFAULT_PULSE_WIDTH  BY ONLY <1>1, <2>1, <3>1, s \in Index
      <4> QED  BY ONLY <4>1, ServoSizes
    <3>2. CASE s # ServoCount
      <4>1. ticks'[s] = ticks[s]  BY ONLY <1>1, <2>1, <3>2, s \in Index
      <4>2. s < ServoCount  BY ONLY <1>1, <2>1, <2>2, <3>2, ServoSizes DEF Index
      <4> QED  BY ONLY <1>0, <4>1, <4>2, s \in Index, Zenon DEF WidthInv
    <3> QED  BY ONLY <3>1, <3>2
  <2> QED  BY ONLY <2>2, Zenon DEF WidthInv, Index
<1>4. CASE \E s \in Index, v \in Pulses : writeMicroseconds(s, v)
  <2>1. PICK s \in Index, v \in Pulses : writeMicroseconds(s, v)  BY ONLY <1>4
  <2>2. ticks' = [ticks EXCEPT ![s] = Clamped(v)] /\ UNCHANGED ServoCount
    BY ONLY <2>1, Zenon DEF writeMicroseconds
  <2>3. Clamped(v) \in 1..MAX_PULSE_WIDTH
    <3>1. v \in Nat  BY ONLY ServoAssumption, v \in Pulses
    <3> QED  BY ONLY <3>1, ServoSizes DEF Clamped, Min2
  <2>4. ASSUME NEW r \in Index, r < ServoCount' PROVE ticks'[r] \in 1..MAX_PULSE_WIDTH
    <3>1. CASE r = s
      <4>1. ticks'[r] = Clamped(v)  BY ONLY <1>1, <2>2, <3>1, r \in Index
      <4> QED  BY ONLY <2>3, <4>1, Zenon
    <3>2. CASE r # s
      <4>1. ticks'[r] = ticks[r]  BY ONLY <1>1, <2>2, <3>2, r \in Index
      <4> QED  BY ONLY <1>0, <2>2, <2>4, <4>1, r \in Index, Zenon DEF WidthInv
    <3> QED  BY ONLY <3>1, <3>2
  <2> QED  BY ONLY <2>4, Zenon DEF WidthInv, Index
<1>5. CASE UNCHANGED servo_vars \/ ServoTick \/ initISR \/ Activate \/ (\E s \in Index : detach(s))
           \/ (\E s \in Index, p \in ServoPins : attach(s, p))
  BY ONLY <1>2, <1>5, Zenon DEF servo_vars, ServoTick, initISR, Activate, detach, attach, servos
<1>6. CASE handle_interrupts  BY ONLY <1>0, <1>2, <1>6, Handled, Zenon
<1> QED  BY ONLY Steps, [ServoNext]_servo_vars, <1>3, <1>4, <1>5, <1>6, Zenon

\* The pin that is high stays the one of the current channel.
LEMMA StepLevel ==
  ASSUME ServoInv, [ServoNext]_servo_vars
  PROVE  LevelInv'
<1>0. ServoTypeOK /\ ServoType /\ LevelInv  BY ONLY ServoInv, TypeParts, Zenon DEF ServoInv
<1>1. /\ ServoCount \in 0..SERVOS_PER_TIMER /\ Channel \in -1..(SERVOS_PER_TIMER - 1)
      /\ nbr \in [Index -> ServoPins] /\ isActive \in [Index -> BOOLEAN] /\ servo_level \in [ServoPins -> BOOLEAN]
  BY ONLY <1>0, Zenon DEF ServoType
<1>2. UNCHANGED Calls  BY ONLY Steps, [ServoNext]_servo_vars, Zenon
<1>3. SUFFICES ASSUME Steady, NEW p \in ServoPins, servo_level'[p]
               PROVE  /\ Channel' >= 0 /\ Channel' < ServoCount' /\ isActive'[Channel']
                      /\ nbr'[Channel'] = p
  BY <1>2, Zenon DEF LevelInv, Steady
<1>4. "move" \notin Calls /\ "detach" \notin Calls  BY ONLY Steady DEF Steady
<1>5. servo_level[p] => Channel >= 0 /\ Channel < ServoCount /\ isActive[Channel] /\ nbr[Channel] = p
  BY ONLY <1>0, <1>3, Zenon DEF LevelInv
<1>6. servo_level[p] => Channel \in Index  BY ONLY <1>1, <1>5, ServoSizes DEF Index
<1>7. CASE UNCHANGED <<Channel, ServoCount, nbr, isActive, servo_level>>
  BY ONLY <1>3, <1>5, <1>7, Zenon
<1>8. CASE UNCHANGED servo_vars \/ ServoTick \/ initISR \/ (\E s \in Index, v \in Pulses : writeMicroseconds(s, v))
  BY ONLY <1>7, <1>8, Zenon DEF servo_vars, ServoTick, initISR, writeMicroseconds, servos
<1>9. CASE Servo
  <2>1. ServoCount' = ServoCount + 1 /\ UNCHANGED <<Channel, nbr, isActive, servo_level>>
    BY ONLY <1>9, Zenon DEF Servo
  <2>2. Channel >= 0 /\ Channel < ServoCount /\ isActive[Channel] /\ nbr[Channel] = p
    BY ONLY <1>3, <1>5, <2>1, Zenon
  <2>3. Channel < ServoCount + 1  BY ONLY <1>1, <2>2, ServoSizes
  <2> QED  BY ONLY <2>1, <2>2, <2>3, Zenon
<1>10. CASE \E s \in Index, q \in ServoPins : attach(s, q)
  <2>1. PICK s \in Index, q \in ServoPins : attach(s, q)  BY ONLY <1>10
  <2>2. /\ nbr' = [nbr EXCEPT ![s] = q] /\ ~isActive[s]
        /\ UNCHANGED <<Channel, ServoCount, isActive, servo_level>>
    BY ONLY <1>4, <2>1, Zenon DEF attach
  <2>3. Channel >= 0 /\ Channel < ServoCount /\ isActive[Channel] /\ nbr[Channel] = p /\ Channel \in Index
    BY ONLY <1>3, <1>5, <1>6, <2>2, Zenon
  <2>4. Channel # s  BY ONLY <2>2, <2>3, Zenon
  <2>5. nbr'[Channel] = nbr[Channel]  BY ONLY <1>1, <2>2, <2>3, <2>4
  <2> QED  BY ONLY <2>2, <2>3, <2>5, Zenon
<1>11. CASE Activate
  <2>1. /\ isActive' = [isActive EXCEPT ![servo] = TRUE]
        /\ UNCHANGED <<Channel, ServoCount, nbr, servo_level>>
    BY ONLY <1>11, Zenon DEF Activate
  <2>2. Channel >= 0 /\ Channel < ServoCount /\ isActive[Channel] /\ nbr[Channel] = p /\ Channel \in Index
    BY ONLY <1>3, <1>5, <1>6, <2>1, Zenon
  <2>3. isActive'[Channel]  BY ONLY <1>1, <2>1, <2>2
  <2> QED  BY ONLY <2>1, <2>2, <2>3, Zenon
<1>12. CASE \E s \in Index : detach(s)  BY ONLY <1>4, <1>12, Zenon DEF detach
<1>13. CASE handle_interrupts
  <2>1. Lowered \in [ServoPins -> BOOLEAN] /\ \A q \in ServoPins : ~Lowered[q]
    BY ONLY <1>0, <1>3, LoweredIs, Zenon
  <2>2. UNCHANGED <<ServoCount, nbr, isActive>>  BY ONLY <1>0, <1>13, Handled, Zenon
  <2>3. servo_level' # Lowered  BY ONLY <1>3, <2>1, Zenon
  <2>4. PICK c \in Index :
           /\ c < ServoCount /\ Channel' = c
           /\ servo_level' = IF isActive[c] THEN [Lowered EXCEPT ![nbr[c]] = TRUE] ELSE Lowered
    BY ONLY <1>0, <1>13, <2>3, Handled, Zenon
  <2>5. isActive[c] /\ servo_level' = [Lowered EXCEPT ![nbr[c]] = TRUE]  BY ONLY <2>3, <2>4, Zenon
  <2>6. p = nbr[c]  BY ONLY <1>3, <2>1, <2>5
  <2>7. c >= 0  BY ONLY c \in Index, ServoSizes DEF Index
  <2> QED  BY ONLY <2>2, <2>4, <2>5, <2>6, <2>7, Zenon
<1> QED
  BY ONLY Steps, [ServoNext]_servo_vars, <1>8, <1>9, <1>10, <1>11, <1>12, <1>13, Zenon

-----------------------------------------------------------------------------
(* The pulses.                                                              *)

\* Every step keeps the compare value at the end of the pulse.
LEMMA StepPulse ==
  ASSUME ServoInv, [ServoNext]_servo_vars
  PROVE  PulseInv'
<1>0. ServoTypeOK /\ TimerType /\ ServoType /\ HistoryType /\ WidthInv /\ LevelInv /\ PulseInv
  BY ONLY ServoInv, TypeParts, Zenon DEF ServoInv
<1>1. UNCHANGED Calls  BY ONLY Steps, [ServoNext]_servo_vars, Zenon
<1>2. SUFFICES ASSUME Steady, NEW p \in ServoPins, servo_level'[p]
               PROVE  /\ due'[p] \in 1..MAX_PULSE_WIDTH
                      /\ ~OCF' => /\ high'[p] < due'[p]
                                  /\ OCR' = (TCNT' + (due'[p] - high'[p])) % TimerSize
                      /\ OCF' => high'[p] = due'[p] + late'
  BY <1>1, Zenon DEF PulseInv, Steady
<1>3. servo_level[p] => /\ due[p] \in 1..MAX_PULSE_WIDTH
                        /\ ~OCF => /\ high[p] < due[p]
                                   /\ OCR = (TCNT + (due[p] - high[p])) % TimerSize
                        /\ OCF => high[p] = due[p] + late
  BY ONLY <1>0, <1>2, Zenon DEF PulseInv
<1>4. CASE UNCHANGED <<servo_timer, servo_level, late, high, due>>
  BY ONLY <1>2, <1>3, <1>4, Zenon DEF servo_timer
<1>5. CASE UNCHANGED servo_vars \/ Servo \/ (\E s \in Index, q \in ServoPins : attach(s, q)) \/ Activate
           \/ (\E s \in Index : detach(s))
           \/ (\E s \in Index, v \in Pulses : writeMicroseconds(s, v))

    BY ONLY <1>4, <1>5, Zenon DEF servo_vars, Servo, attach, Activate, detach, writeMicroseconds, history
<1>6. CASE initISR
  <2>1. UNCHANGED <<servo_level, high, due>>  BY ONLY <1>6, Zenon DEF initISR
  <2>2. Channel >= 0 /\ isActive[Channel]  BY ONLY <1>0, <1>2, <2>1, Zenon DEF LevelInv
  <2>3. Channel \in -1..(SERVOS_PER_TIMER - 1)  BY ONLY <1>0, Zenon DEF ServoType
  <2>4. Channel \in Index  BY ONLY <2>2, <2>3, ServoSizes DEF Index
  <2>5. isTimerActive  BY ONLY <2>2, <2>4, Zenon DEF isTimerActive
  <2>6. UNCHANGED <<servo_timer, late>>  BY ONLY <1>6, <2>5, Zenon DEF initISR
  <2> QED  BY ONLY <1>4, <2>1, <2>6
<1>7. CASE ServoTick
  <2>1. /\ TCNT' = (TCNT + 1) % TimerSize /\ OCF' = (OCF \/ TCNT' = OCR)
        /\ late' = (IF OCF THEN late + 1 ELSE 0) /\ (OCF => late < ServoLatency)
        /\ UNCHANGED <<OCR, servo_level, due>>
    BY ONLY <1>7, Zenon DEF ServoTick
  <2>2. high' = [q \in ServoPins |-> IF servo_level[q] /\ high[q] < LongHigh THEN high[q] + 1 ELSE high[q]]
    BY ONLY <1>7, Zenon DEF ServoTick
  <2>3. servo_level[p] /\ due[p] \in 1..MAX_PULSE_WIDTH  BY ONLY <1>2, <1>3, <2>1, Zenon
  <2>4. /\ TCNT \in 0..(TimerSize - 1) /\ OCF \in BOOLEAN
        /\ late \in 0..ServoLatency /\ high \in [ServoPins -> 0..LongHigh]
    BY ONLY <1>0, Zenon DEF TimerType, HistoryType
  <2>5. LongHigh = MAX_PULSE_WIDTH + ServoLatency + 1 /\ MAX_PULSE_WIDTH \in Nat /\ ServoLatency \in Nat
    BY ONLY ServoSizes DEF LongHigh
  <2>6. PICK h \in Nat : h = high[p]  BY ONLY <2>4, <2>5, p \in ServoPins
  <2>7. PICK ahead \in 1..MAX_PULSE_WIDTH : ahead = due[p]  BY ONLY <2>3, Zenon
  <2>8. h < LongHigh
    <3>1. CASE OCF
      <4>1. h = ahead + late /\ late < ServoLatency
        BY ONLY <1>3, <2>1, <2>3, <2>6, <2>7, <3>1, Zenon
      <4> QED  BY ONLY <2>4, <2>5, <4>1
    <3>2. CASE ~OCF
      <4>1. h < ahead  BY ONLY <1>3, <2>3, <2>6, <2>7, <3>2, Zenon
      <4> QED  BY ONLY <2>5, <4>1
    <3> QED  BY ONLY <3>1, <3>2
  <2>9. high'[p] = h + 1 /\ due'[p] = ahead
    <3>1. high'[p] = IF servo_level[p] /\ high[p] < LongHigh THEN high[p] + 1 ELSE high[p]
      BY ONLY <2>2, p \in ServoPins, Zenon
    <3> QED  BY ONLY <2>1, <2>3, <2>6, <2>7, <2>8, <3>1, Zenon
  <2>10. CASE OCF
    <3>1. OCF' /\ late' = late + 1 /\ h = ahead + late
      BY ONLY <1>3, <2>1, <2>3, <2>6, <2>7, <2>10, Zenon
    <3>2. h + 1 = ahead + (late + 1)  BY ONLY <2>4, <3>1, ServoSizes
    <3>3. high'[p] = due'[p] + late'  BY ONLY <2>9, <3>1, <3>2, Zenon
    <3> QED  BY ONLY <2>7, <2>9, <3>1, <3>3, Zenon
  <2>11. CASE ~OCF
    <3>1. h < ahead /\ OCR = (TCNT + (ahead - h)) % TimerSize /\ late' = 0 /\ OCF' = (TCNT' = OCR)
      BY ONLY <1>3, <2>1, <2>3, <2>6, <2>7, <2>11, Zenon
    <3>2. PICK k \in 1..MAX_PULSE_WIDTH : k = ahead - h  BY ONLY <2>5, <3>1
    <3>3. OCR = (TCNT + k) % TimerSize  BY ONLY <3>1, <3>2, Zenon
    <3>4. /\ k = 1 => (TCNT + k) % TimerSize = (TCNT + 1) % TimerSize
          /\ k # 1 => /\ (TCNT + k) % TimerSize # (TCNT + 1) % TimerSize
                      /\ (TCNT + k) % TimerSize = (((TCNT + 1) % TimerSize) + (k - 1)) % TimerSize
      BY ONLY <2>4, k \in 1..MAX_PULSE_WIDTH, CountTick, Zenon
    <3>5. CASE k = 1
      <4>1. OCF'  BY ONLY <2>1, <3>1, <3>3, <3>4, <3>5, Zenon
      <4>2. h + 1 = ahead + 0  BY ONLY <3>2, <3>5
      <4>3. high'[p] = due'[p] + late'  BY ONLY <2>9, <3>1, <4>2, Zenon
      <4> QED  BY ONLY <2>7, <2>9, <4>1, <4>3, Zenon
    <3>6. CASE k # 1
      <4>1. ~OCF'  BY ONLY <2>1, <3>1, <3>3, <3>4, <3>6, Zenon
      <4>2. h + 1 < ahead /\ k - 1 = ahead - (h + 1)  BY ONLY <3>2, <3>6
      <4>3. OCR' = (TCNT' + (ahead - (h + 1))) % TimerSize
        BY ONLY <2>1, <3>3, <3>4, <3>6, <4>2, Zenon
      <4> QED  BY ONLY <2>7, <2>9, <4>1, <4>2, <4>3, Zenon
    <3> QED  BY ONLY <3>5, <3>6
  <2> QED  BY ONLY <2>10, <2>11
<1>8. CASE handle_interrupts
  <2>1. Lowered \in [ServoPins -> BOOLEAN] /\ \A q \in ServoPins : ~Lowered[q]
    BY ONLY <1>0, <1>2, LoweredIs, Zenon
  <2>2. servo_level' # Lowered  BY ONLY <1>2, <2>1, Zenon
  <2>3. PICK c \in Index :
           /\ c < ServoCount
           /\ OCR' = (Count + ticks[c]) % TimerSize
           /\ servo_level' = IF isActive[c] THEN [Lowered EXCEPT ![nbr[c]] = TRUE] ELSE Lowered
           /\ high' = IF isActive[c] THEN [high EXCEPT ![nbr[c]] = 0] ELSE high
           /\ due' = IF isActive[c] THEN [due EXCEPT ![nbr[c]] = ticks[c]] ELSE due
    BY ONLY <1>0, <1>8, <2>2, Handled, Zenon
  <2>4. /\ servo_level' = [Lowered EXCEPT ![nbr[c]] = TRUE]
        /\ high' = [high EXCEPT ![nbr[c]] = 0] /\ due' = [due EXCEPT ![nbr[c]] = ticks[c]]
    BY ONLY <2>2, <2>3, Zenon
  <2>5. p = nbr[c]  BY ONLY <1>2, <2>1, <2>4
  <2>6. high'[p] = 0 /\ due'[p] = ticks[c]
    BY ONLY <1>0, <2>4, <2>5, p \in ServoPins DEF HistoryType
  <2>7. ticks[c] \in 1..MAX_PULSE_WIDTH  BY ONLY <1>0, <2>3, Zenon DEF WidthInv
  <2>8. TCNT' = Count /\ ~OCF'  BY ONLY <1>0, <1>8, Handled, Zenon
  <2>9. 0 < ticks[c] /\ ticks[c] - 0 = ticks[c]  BY ONLY <2>7, ServoSizes
  <2> QED  BY ONLY <2>3, <2>6, <2>7, <2>8, <2>9, Zenon
<1> QED  BY ONLY Steps, [ServoNext]_servo_vars, <1>5, <1>6, <1>7, <1>8, Zenon

-----------------------------------------------------------------------------
(* The frames.                                                              *)

\* Every step keeps the count within the frame.
LEMMA StepFrame ==
  ASSUME ServoInv, [ServoNext]_servo_vars
  PROVE  FrameInv'
<1>0. ServoTypeOK /\ TimerType /\ ServoType /\ HistoryType /\ FrameInv
  BY ONLY ServoInv, TypeParts, Zenon DEF ServoInv
<1>1. /\ TCNT \in 0..(TimerSize - 1) /\ OCR \in 0..(TimerSize - 1) /\ OCF \in BOOLEAN
      /\ Channel \in -1..(SERVOS_PER_TIMER - 1) /\ servo_frame \in 0..LongFrame
  BY ONLY <1>0, Zenon DEF TimerType, ServoType, HistoryType
<1>2. LongFrame = REFRESH_INTERVAL /\ REFRESH_INTERVAL \in Nat  BY ONLY ServoSizes DEF LongFrame
<1>3. CASE UNCHANGED <<servo_timer, Channel, servo_frame>>
  BY ONLY <1>0, <1>3, Zenon DEF servo_timer, FrameInv, LongFrame
<1>4. CASE UNCHANGED servo_vars \/ Servo \/ (\E s \in Index, q \in ServoPins : attach(s, q)) \/ Activate
           \/ (\E s \in Index : detach(s))
           \/ (\E s \in Index, v \in Pulses : writeMicroseconds(s, v))

    BY ONLY <1>3, <1>4, Zenon DEF servo_vars, Servo, attach, Activate, detach, writeMicroseconds, history
<1>5. CASE initISR
  <2>1. /\ UNCHANGED servo_timer \/ (TCNT' = 0 /\ OCF' = FALSE /\ UNCHANGED OCR)
        /\ UNCHANGED <<Channel, servo_frame>>
    BY ONLY <1>5, Zenon DEF initISR
  <2>2. CASE UNCHANGED servo_timer  BY ONLY <1>3, <2>1, <2>2, Zenon
  <2>3. CASE TCNT' = 0 /\ OCF' = FALSE /\ UNCHANGED OCR
    <3>1. TCNT' <= servo_frame'  BY ONLY <1>1, <1>2, <2>1, <2>3
    <3> QED  BY ONLY <1>0, <2>1, <2>3, <3>1, Zenon DEF FrameInv, LongFrame
  <2> QED  BY ONLY <2>1, <2>2, <2>3, Zenon
<1>6. CASE ServoTick
  <2>1. /\ TCNT' = (TCNT + 1) % TimerSize /\ OCF' = (OCF \/ TCNT' = OCR)
        /\ servo_frame' = (IF servo_frame < LongFrame THEN servo_frame + 1 ELSE servo_frame)
        /\ UNCHANGED <<OCR, Channel>>
    BY ONLY <1>6, Zenon DEF ServoTick
  <2>2. TCNT' \in Nat /\ TCNT' <= TCNT + 1
    <3>1. TimerSize \in Nat \ {0} /\ TCNT + 1 \in Nat /\ TCNT + 1 < TimerSize + TimerSize
      BY ONLY <1>1, ServoSizes
    <3>2. PICK x \in Nat : x = TCNT + 1 /\ x < TimerSize + TimerSize  BY ONLY <3>1, Zenon
    <3>3. x % TimerSize = IF x < TimerSize THEN x ELSE x - TimerSize
      BY ONLY <3>1, <3>2, TurnOnce, Zenon
    <3>4. TCNT' = x % TimerSize  BY ONLY <2>1, <3>2, Zenon
    <3>5. TCNT' = IF x < TimerSize THEN x ELSE x - TimerSize  BY ONLY <3>3, <3>4, Zenon
    <3> QED  BY ONLY <1>1, <3>1, <3>2, <3>5
  <2>3. servo_frame' \in Nat /\ servo_frame' <= LongFrame /\ (servo_frame = LongFrame => servo_frame' = LongFrame)
    BY ONLY <1>1, <1>2, <2>1
  <2>4. TCNT' <= servo_frame' \/ servo_frame' = LongFrame
    <3>1. TCNT <= servo_frame \/ servo_frame = LongFrame  BY ONLY <1>0, Zenon DEF FrameInv
    <3> QED  BY ONLY <1>1, <1>2, <2>1, <2>2, <2>3, <3>1
  <2>5. Channel < 0 => REFRESH_INTERVAL <= OCR \/ servo_frame' = LongFrame
    BY ONLY <1>0, <2>3, Zenon DEF FrameInv
  <2>6. Channel < 0 /\ OCF' => servo_frame' = LongFrame
    <3>1. SUFFICES ASSUME Channel < 0, OCF' PROVE servo_frame' = LongFrame  BY Zenon
    <3>2. CASE OCF  BY ONLY <1>0, <2>3, <3>1, <3>2, Zenon DEF FrameInv
    <3>3. CASE TCNT' = OCR
      <4>1. REFRESH_INTERVAL <= TCNT' \/ servo_frame' = LongFrame  BY ONLY <2>5, <3>1, <3>3, Zenon
      <4> QED  BY ONLY <1>2, <2>2, <2>3, <2>4, <4>1
    <3> QED  BY ONLY <2>1, <3>1, <3>2, <3>3, Zenon
  <2> QED  BY ONLY <2>1, <2>4, <2>5, <2>6, Zenon DEF FrameInv, LongFrame
<1>7. CASE handle_interrupts
  <2>1. TCNT' = Count /\ OCF' = FALSE /\ servo_frame' = (IF Channel < 0 THEN 0 ELSE servo_frame)
    BY ONLY <1>0, <1>7, Handled, Zenon
  <2>2. Count \in 0..(TimerSize - 1) /\ (Channel < 0 => Count = 0) /\ (Channel >= 0 => Count = TCNT)
    BY ONLY <1>0, CountIs, Zenon
  <2>3. TCNT' <= servo_frame' \/ servo_frame' = LongFrame
    <3>1. CASE Channel < 0  BY ONLY <1>2, <2>1, <2>2, <3>1
    <3>2. CASE Channel >= 0
      <4>1. TCNT' = TCNT /\ servo_frame' = servo_frame  BY ONLY <1>1, <2>1, <2>2, <3>2
      <4> QED  BY ONLY <1>0, <4>1, Zenon DEF FrameInv
    <3> QED  BY ONLY <1>1, <3>1, <3>2
  <2>4. Channel' < 0 => REFRESH_INTERVAL <= OCR' \/ servo_frame' = LongFrame
    <3>1. ASSUME NEW c \in Index, Channel' = c PROVE ~(Channel' < 0)
      BY ONLY <3>1, ServoSizes DEF Index
    <3>2. ASSUME OCR' = NextFrame % TimerSize PROVE REFRESH_INTERVAL <= OCR' \/ servo_frame' = LongFrame
      <4>1. NextFrame = IF Count + Margin < REFRESH_INTERVAL THEN REFRESH_INTERVAL ELSE Count + Margin
        BY ONLY Zenon DEF NextFrame
      <4>2. NextFrame \in Nat /\ REFRESH_INTERVAL <= NextFrame /\ NextFrame < TimerSize + TimerSize
        BY ONLY <2>2, <4>1, ServoSizes
      <4>3. TimerSize \in Nat \ {0}  BY ONLY ServoSizes
      <4>4. OCR' = IF NextFrame < TimerSize THEN NextFrame ELSE NextFrame - TimerSize
        BY ONLY <3>2, <4>2, <4>3, TurnOnce, Zenon
      <4>5. CASE NextFrame < TimerSize  BY ONLY <4>2, <4>4, <4>5
      <4>6. CASE NextFrame >= TimerSize
        <5>1. Count >= TimerSize - Margin  BY ONLY <2>2, <4>1, <4>6, ServoSizes
        <5>2. Count > REFRESH_INTERVAL  BY ONLY <2>2, <5>1, ServoSizes
        <5>3. TCNT' > LongFrame  BY ONLY <1>2, <2>1, <5>2
        <5>4. servo_frame' \in 0..LongFrame  BY ONLY <1>1, <1>2, <2>1
        <5>5. TCNT' \in Nat  BY ONLY <2>1, <2>2, <4>3
        <5> QED  BY ONLY <1>2, <2>3, <5>3, <5>4, <5>5
      <4> QED  BY ONLY <4>2, <4>3, <4>5, <4>6
    <3> QED  BY ONLY <1>0, <1>7, <3>1, <3>2, Handled, Zenon
  <2>5. ~OCF'  BY ONLY <2>1
  <2> QED  BY ONLY <2>3, <2>4, <2>5, Zenon DEF FrameInv, LongFrame
<1> QED  BY ONLY Steps, [ServoNext]_servo_vars, <1>4, <1>5, <1>6, <1>7, Zenon

-----------------------------------------------------------------------------
(* The theorems.                                                            *)

\* No pulse is sent at the start.
LEMMA InitServoInv == ServoInit => ServoInv
<1> SUFFICES ASSUME ServoInit PROVE ServoInv  OBVIOUS
<1>1. /\ Calls \in Sketches
      /\ TCNT = 0 /\ OCR = 0 /\ OCF = FALSE /\ OCIE = FALSE /\ Channel = 0 /\ ServoCount = 0
      /\ nbr = [s \in Index |-> FirstPin] /\ isActive = [s \in Index |-> FALSE]
      /\ ticks = [s \in Index |-> 0] /\ servo_level = [p \in ServoPins |-> FALSE]
      /\ servo_pc = "sketch" /\ servo = 0 /\ pin = FirstPin
      /\ late = 0 /\ high = [p \in ServoPins |-> 0] /\ due = [p \in ServoPins |-> 0] /\ servo_frame = LongFrame
  BY ONLY ServoInit, Zenon DEF ServoInit
<1>2. FirstPin \in ServoPins /\ 0 \in Index
  <2>1. ServoPins # {}  BY ONLY ServoAssumption, Zenon
  <2>2. FirstPin \in ServoPins  BY ONLY <2>1 DEF FirstPin
  <2>3. 0 \in Index  BY ONLY ServoSizes DEF Index
  <2> QED  BY ONLY <2>2, <2>3
<1>3. ServoTypeOK
  <2>1. TimerType
    <3>1. 0 \in 0..(TimerSize - 1)  BY ONLY ServoSizes
    <3> QED  BY ONLY <1>1, <3>1, Zenon DEF TimerType
  <2>2. ServoType
    <3>1. Channel \in -1..(SERVOS_PER_TIMER - 1) /\ ServoCount \in 0..SERVOS_PER_TIMER
      BY ONLY <1>1, ServoSizes
    <3>2. nbr \in [Index -> ServoPins] /\ isActive \in [Index -> BOOLEAN] /\ servo_level \in [ServoPins -> BOOLEAN]
      BY ONLY <1>1, <1>2
    <3>3. ticks \in [Index -> 0..MAX_PULSE_WIDTH]  BY ONLY <1>1, ServoSizes
    <3> QED  BY ONLY <3>1, <3>2, <3>3, Zenon DEF ServoType
  <2>3. CallType
    <3>1. servo_pc \in {"sketch", "init", "active"}  BY ONLY <1>1
    <3> QED  BY ONLY <1>1, <1>2, <3>1, Zenon DEF CallType
  <2>4. HistoryType
    <3>1. late \in 0..ServoLatency /\ servo_frame \in 0..LongFrame
      BY ONLY <1>1, ServoSizes DEF LongFrame
    <3>2. 0 \in 0..LongHigh /\ 0 \in 0..MAX_PULSE_WIDTH  BY ONLY ServoSizes DEF LongHigh
    <3>3. high \in [ServoPins -> 0..LongHigh] /\ due \in [ServoPins -> 0..MAX_PULSE_WIDTH]
      BY ONLY <1>1, <3>2
    <3> QED  BY ONLY <3>1, <3>3, Zenon DEF HistoryType
  <2> QED  BY ONLY <2>1, <2>2, <2>3, <2>4, TypeParts
<1>4. WidthInv  BY ONLY <1>1, ServoSizes DEF WidthInv, Index
<1>5. \A p \in ServoPins : ~servo_level[p]  BY ONLY <1>1
<1>6. LevelInv /\ PulseInv  BY ONLY <1>5, Zenon DEF LevelInv, PulseInv
<1>7. ~(Channel < 0) /\ servo_frame = LongFrame  BY ONLY <1>1
<1>8. FrameInv  BY ONLY <1>7, Zenon DEF FrameInv
<1> QED  BY ONLY <1>3, <1>4, <1>6, <1>8, Zenon DEF ServoInv

\* Every step of the sketch, the timer and its handler keeps the invariant.
LEMMA StepServoInv == ServoInv /\ [ServoNext]_servo_vars => ServoInv'
  BY ONLY StepServoType, StepWidth, StepLevel, StepPulse, StepFrame, Zenon DEF ServoInv

\* The invariant of the servos holds in every reachable state.
LEMMA ServoInvariant == ServoSpec => []ServoInv
  BY InitServoInv, StepServoInv, PTL DEF ServoSpec

\* For every number of servos and pins, at most one pin of a timer is high at
\* a time, and no pulse is longer than MAX_PULSE_WIDTH and the latency of the
\* interrupt, while the sketch leaves attached servos on their pins
\* (handle_interrupts).
THEOREM AlwaysOneAtATime == ServoSpec => []OneAtATime
<1>1. ServoInv => OneAtATime
  <2> SUFFICES ASSUME ServoInv PROVE OneAtATime  OBVIOUS
  <2>1. ServoTypeOK /\ HistoryType /\ LevelInv /\ PulseInv
    BY ONLY ServoInv, TypeParts, Zenon DEF ServoInv
  <2>2. ASSUME Steady PROVE Cardinality({p \in ServoPins : servo_level[p]}) <= 1
    <3> DEFINE H == {p \in ServoPins : servo_level[p]}
    <3>1. ASSUME NEW p \in H, NEW q \in H PROVE p = q
      BY ONLY <2>1, <2>2, <3>1, Zenon DEF LevelInv
    <3>2. CASE H = {}
      <4>1. Cardinality(H) = 0  BY ONLY <3>2, FS_EmptySet, Zenon
      <4> QED  BY ONLY <4>1
    <3>3. CASE H # {}
      <4>1. PICK p : p \in H  BY ONLY <3>3, Zenon
      <4>2. H = {p}  BY ONLY <3>1, <4>1, Zenon
      <4>3. Cardinality({p}) = 1  BY ONLY FS_Singleton, Zenon
      <4>4. Cardinality(H) = 1  BY ONLY <4>2, <4>3, Zenon
      <4> QED  BY ONLY <4>4
    <3> QED  BY ONLY <3>2, <3>3
  <2>3. ASSUME Steady, NEW p \in ServoPins, servo_level[p] PROVE high[p] <= MAX_PULSE_WIDTH + ServoLatency
    <3>1. /\ due[p] \in 1..MAX_PULSE_WIDTH
          /\ ~OCF => high[p] < due[p]
          /\ OCF => high[p] = due[p] + late
      BY ONLY <2>1, <2>3, Zenon DEF PulseInv
    <3>2. late \in 0..ServoLatency /\ high[p] \in 0..LongHigh
      BY ONLY <2>1, p \in ServoPins DEF HistoryType
    <3> QED  BY ONLY <3>1, <3>2, ServoSizes DEF LongHigh
  <2> QED  BY ONLY <2>1, <2>2, <2>3, Zenon DEF OneAtATime
<1> QED  BY <1>1, ServoInvariant, PTL

\* Every pulse lasts as long as was asked when it began, up to the latency of
\* the interrupt, while the sketch leaves attached servos on their pins; and
\* frames are at least REFRESH_INTERVAL apart, whatever the sketch does.
THEOREM PulsesAlwaysTrue == ServoSpec => PulsesTrue
<1>1. ServoInv /\ [ServoNext]_servo_vars =>
        [/\ Steady => \A p \in ServoPins :
              servo_level[p] /\ ~servo_level'[p] => high[p] \in due[p]..(due[p] + ServoLatency)
         /\ servo_frame' = 0 /\ servo_frame # 0 => servo_frame >= REFRESH_INTERVAL]_servo_vars
  <2> SUFFICES ASSUME ServoInv, [ServoNext]_servo_vars
               PROVE  [/\ Steady => \A p \in ServoPins :
                            servo_level[p] /\ ~servo_level'[p] => high[p] \in due[p]..(due[p] + ServoLatency)
                       /\ servo_frame' = 0 /\ servo_frame # 0 => servo_frame >= REFRESH_INTERVAL]_servo_vars
    BY Zenon
  <2>1. ServoTypeOK /\ TimerType /\ ServoType /\ HistoryType /\ PulseInv /\ FrameInv
    BY ONLY ServoInv, TypeParts, Zenon DEF ServoInv
  <2>2. /\ Channel \in -1..(SERVOS_PER_TIMER - 1) /\ late \in 0..ServoLatency
        /\ servo_frame \in 0..LongFrame /\ LongFrame = REFRESH_INTERVAL /\ REFRESH_INTERVAL \in Nat
    BY ONLY <2>1, ServoSizes DEF ServoType, HistoryType, LongFrame
  <2>3. CASE UNCHANGED servo_vars  BY ONLY <2>3, Zenon
  <2>4. CASE UNCHANGED <<servo_level, servo_frame>>  BY ONLY <2>4, Zenon
  <2>5. CASE Servo \/ (\E s \in Index, q \in ServoPins : attach(s, q)) \/ Activate \/ initISR
             \/ (\E s \in Index : detach(s))
             \/ (\E s \in Index, v \in Pulses : writeMicroseconds(s, v))
    <3>1. UNCHANGED <<servo_level, servo_frame>>
      BY ONLY <2>5, Zenon DEF Servo, attach, Activate, initISR, detach, writeMicroseconds, history
    <3> QED  BY ONLY <2>4, <3>1
  <2>6. CASE ServoTick
    <3>1. UNCHANGED servo_level /\ servo_frame' = IF servo_frame < LongFrame THEN servo_frame + 1 ELSE servo_frame
      BY ONLY <2>6, Zenon DEF ServoTick
    <3>2. servo_frame' = 0 => servo_frame = 0  BY ONLY <2>2, <3>1
    <3> QED  BY ONLY <3>1, <3>2, Zenon
  <2>7. CASE handle_interrupts
    <3>1. OCF /\ servo_frame' = (IF Channel < 0 THEN 0 ELSE servo_frame)
      BY ONLY <2>1, <2>7, Handled, Zenon
    <3>2. ASSUME Steady, NEW p \in ServoPins, servo_level[p] PROVE high[p] \in due[p]..(due[p] + ServoLatency)
      <4>1. high[p] = due[p] + late /\ due[p] \in 1..MAX_PULSE_WIDTH
        BY ONLY <2>1, <3>1, <3>2, Zenon DEF PulseInv
      <4> QED  BY ONLY <2>2, <4>1, ServoSizes
    <3>3. ASSUME servo_frame' = 0, servo_frame # 0 PROVE servo_frame >= REFRESH_INTERVAL
      <4>1. Channel < 0  BY ONLY <3>1, <3>3, Zenon
      <4>2. servo_frame = LongFrame  BY ONLY <2>1, <3>1, <4>1, Zenon DEF FrameInv
      <4> QED  BY ONLY <2>2, <4>2
    <3> QED  BY ONLY <3>2, <3>3, Zenon
  <2> QED  BY ONLY Steps, [ServoNext]_servo_vars, <2>3, <2>5, <2>6, <2>7, Zenon
<1> QED  BY <1>1, ServoInvariant, PTL DEF PulsesTrue, ServoSpec
=============================================================================
