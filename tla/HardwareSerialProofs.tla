------------------------ MODULE HardwareSerialProofs ------------------------
(***************************************************************************)
(* Proofs about Serial1, for every ring size and every sketch.             *)
(***************************************************************************)
EXTENDS HardwareSerial, TLAPS

-----------------------------------------------------------------------------
(* The ring's slots: character number n (from 0) lives in slot n % SIZE.   *)

\* Quotient and remainder by the ring size.
LEMMA RingDivision ==
  ASSUME NEW n \in Nat
  PROVE  \E q \in Nat : /\ n = q * SERIAL_BUFFER_SIZE + (n % SERIAL_BUFFER_SIZE)
                        /\ n % SERIAL_BUFFER_SIZE \in Slot
<1> DEFINE S == SERIAL_BUFFER_SIZE
<1>1. S \in 2..255  BY SizeAssumption
<1>2. n % S \in 0..(S - 1)  BY <1>1
<1>3. n \div S \in Nat  BY <1>1, SMT
<1>4. n = (n \div S) * S + (n % S)  BY <1>1, SMT
<1>5. QED  BY <1>2, <1>3, <1>4 DEF Slot

\* Two characters less than a ring apart in the same slot are the same one.
LEMMA RingInjective ==
  ASSUME NEW m \in Nat, NEW n \in Nat, m <= n, n - m < SERIAL_BUFFER_SIZE,
         m % SERIAL_BUFFER_SIZE = n % SERIAL_BUFFER_SIZE
  PROVE  m = n
<1> DEFINE S == SERIAL_BUFFER_SIZE
<1>1. S \in 2..255  BY SizeAssumption
<1>2. PICK p \in Nat : m = p * S + (m % S) /\ m % S \in Slot  BY RingDivision
<1>3. PICK q \in Nat : n = q * S + (n % S) /\ n % S \in Slot  BY RingDivision
<1>4. n - m = (q - p) * S  BY <1>1, <1>2, <1>3 DEF Slot
<1>5. q - p < 1
  <2> SUFFICES ASSUME q - p >= 1 PROVE FALSE  OBVIOUS
  <2>1. (q - p) * S >= S  BY <1>1, SMT
  <2>2. QED  BY <2>1, <1>1, <1>4
<1>6. q - p > -1
  <2> SUFFICES ASSUME q - p <= -1 PROVE FALSE  OBVIOUS
  <2>1. (q - p) * S <= -S  BY <1>1, SMT
  <2>2. QED  BY <2>1, <1>1, <1>4
<1>7. q = p  BY <1>5, <1>6
<1>8. QED  BY <1>4, <1>7, <1>1

\* A whole ring further on is the same slot.
LEMMA RingWrap ==
  ASSUME NEW n \in Nat
  PROVE  (n + SERIAL_BUFFER_SIZE) % SERIAL_BUFFER_SIZE = n % SERIAL_BUFFER_SIZE
<1> DEFINE S == SERIAL_BUFFER_SIZE
           a == n % S
           b == (n + S) % S
<1>1. S \in 2..255 /\ n + S \in Nat  BY SizeAssumption
<1>2. PICK p \in Nat : n = p * S + a /\ a \in Slot  BY RingDivision
<1>3. PICK q \in Nat : n + S = q * S + b /\ b \in Slot  BY ZenonT(30), <1>1, RingDivision
<1>4. a \in 0..(S - 1) /\ b \in 0..(S - 1)  BY <1>2, <1>3 DEF Slot
<1> HIDE DEF a, b
<1>5. (q - (p + 1)) * S = a - b  BY <1>1, <1>2, <1>3, <1>4
<1>6. q - (p + 1) < 1
  <2> SUFFICES ASSUME q - (p + 1) >= 1 PROVE FALSE  OBVIOUS
  <2>1. (q - (p + 1)) * S >= S  BY <1>1, SMT
  <2>2. QED  BY <2>1, <1>5, <1>4, <1>1
<1>7. q - (p + 1) > -1
  <2> SUFFICES ASSUME q - (p + 1) <= -1 PROVE FALSE  OBVIOUS
  <2>1. (q - (p + 1)) * S <= -S  BY <1>1, SMT
  <2>2. QED  BY <2>1, <1>5, <1>4, <1>1
<1>8. q - (p + 1) = 0  BY <1>6, <1>7
<1>9. a = b  BY <1>5, <1>8, <1>1, <1>4
<1>10. QED  BY <1>9 DEF a, b

\* NextSlot takes the slot of a character to the slot of the next one.
LEMMA NextSlotIsNext ==
  ASSUME NEW n \in Nat
  PROVE  /\ NextSlot(n % SERIAL_BUFFER_SIZE) = (n + 1) % SERIAL_BUFFER_SIZE
         /\ NextSlot(n % SERIAL_BUFFER_SIZE) \in Slot
<1> DEFINE S == SERIAL_BUFFER_SIZE
           r == n % S
<1>1. S \in 2..255  BY SizeAssumption
<1>2. PICK q \in Nat : n = q * S + r /\ r \in Slot  BY RingDivision
<1>3. UInt8(r + 1) = r + 1
  <2>1. r + 1 \in 1..255  BY <1>1, <1>2 DEF Slot
  <2>2. \A k \in 1..255 : UInt8(k) = k  BY DEF UInt8
  <2>3. QED  BY <2>1, <2>2
<1>4. CASE r + 1 < S
  <2>1. (r + 1) % S = r + 1  BY <1>1, <1>2, <1>4 DEF Slot
  <2>2. PICK t \in Nat : n + 1 = t * S + ((n + 1) % S) /\ (n + 1) % S \in Slot
    BY RingDivision
  <2>3. (t - q) * S = r + 1 - ((n + 1) % S)  BY <1>1, <1>2, <2>2 DEF Slot
  <2>4. t - q < 1
    <3> SUFFICES ASSUME t - q >= 1 PROVE FALSE  OBVIOUS
    <3>1. (t - q) * S >= S  BY <1>1, SMT
    <3>2. QED  BY <3>1, <2>3, <2>2, <1>1, <1>2, <1>4 DEF Slot
  <2>5. t - q > -1
    <3> SUFFICES ASSUME t - q <= -1 PROVE FALSE  OBVIOUS
    <3>1. (t - q) * S <= -S  BY <1>1, SMT
    <3>2. QED  BY <3>1, <2>3, <2>2, <1>1, <1>2, <1>4 DEF Slot
  <2>6. (n + 1) % S = r + 1  BY <2>3, <2>4, <2>5, <2>2, <1>1, <1>2 DEF Slot
  <2>7. QED  BY <1>3, <2>1, <2>6, <1>1, <1>2, <1>4 DEF NextSlot, Slot
<1>5. CASE r + 1 = S
  <2>1. (r + 1) % S = 0  BY <1>1, <1>5
  <2>2. PICK t \in Nat : n + 1 = t * S + ((n + 1) % S) /\ (n + 1) % S \in Slot
    BY RingDivision
  <2>3. (t - (q + 1)) * S = 0 - ((n + 1) % S)  BY <1>1, <1>2, <1>5, <2>2 DEF Slot
  <2>4. t - (q + 1) < 1
    <3> SUFFICES ASSUME t - (q + 1) >= 1 PROVE FALSE  OBVIOUS
    <3>1. (t - (q + 1)) * S >= S  BY <1>1, SMT
    <3>2. QED  BY <3>1, <2>3, <2>2, <1>1 DEF Slot
  <2>5. t - (q + 1) > -1
    <3> SUFFICES ASSUME t - (q + 1) <= -1 PROVE FALSE  OBVIOUS
    <3>1. (t - (q + 1)) * S <= -S  BY <1>1, SMT
    <3>2. QED  BY <3>1, <2>3, <2>2, <1>1 DEF Slot
  <2>6. (n + 1) % S = 0  BY <2>3, <2>4, <2>5, <2>2, <1>1 DEF Slot
  <2>7. QED  BY <1>3, <1>5, <2>1, <2>6, <1>1 DEF NextSlot, Slot
<1>6. QED  BY <1>2, <1>4, <1>5, <1>1 DEF Slot

\* A ring whose next head is not its tail has room for one more character.
LEMMA RingRoom ==
  ASSUME NEW m \in Nat, NEW n \in Nat, m <= n, n - m < SERIAL_BUFFER_SIZE,
         (n + 1) % SERIAL_BUFFER_SIZE # m % SERIAL_BUFFER_SIZE
  PROVE  n + 1 - m < SERIAL_BUFFER_SIZE
<1> DEFINE S == SERIAL_BUFFER_SIZE
<1>1. S \in 2..255  BY SizeAssumption
<1> SUFFICES ASSUME n + 1 - m >= S PROVE FALSE  BY <1>1
<1>2. n + 1 = m + S  BY <1>1
<1>3. (m + S) % S = m % S  BY RingWrap
<1>4. QED  BY <1>2, <1>3

\* The slot at head is the slot of no character in the ring.
LEMMA RingFree ==
  ASSUME NEW m \in Nat, NEW n \in Nat, m <= n, n - m < SERIAL_BUFFER_SIZE,
         NEW k \in (m + 1)..n
  PROVE  /\ (k - 1) % SERIAL_BUFFER_SIZE # n % SERIAL_BUFFER_SIZE
         /\ (k - 1) % SERIAL_BUFFER_SIZE \in Slot
<1> DEFINE S == SERIAL_BUFFER_SIZE
<1>1. k - 1 \in Nat /\ k - 1 <= n /\ n - (k - 1) < S /\ k - 1 # n
  BY SizeAssumption
<1>2. (k - 1) % S # n % S  BY <1>1, RingInjective
<1>3. (k - 1) % S \in Slot  BY <1>1, RingDivision
<1>4. QED  BY <1>2, <1>3

\* What a history becomes with one more character.
LEMMA Appended ==
  ASSUME NEW s \in Seq(Byte), NEW c \in Byte
  PROVE  /\ Append(s, c) \in Seq(Byte) /\ Len(Append(s, c)) = Len(s) + 1
         /\ \A k \in 1..Len(s) : Append(s, c)[k] = s[k]
         /\ Append(s, c)[Len(s) + 1] = c
OBVIOUS

-----------------------------------------------------------------------------
(* A ring with the history of what went in and what came out: character k  *)
(* of the history is in slot k - 1 modulo the size while it is in the      *)
(* ring, which ties the two indices to the histories.                      *)

RingOf(in, out, head, tail, buffer) ==
  /\ in \in Seq(Byte) /\ out \in Seq(Byte)
  /\ buffer \in [Slot -> Byte \cup {NoByte}]
  /\ Len(out) <= Len(in) /\ Len(in) - Len(out) < SERIAL_BUFFER_SIZE
  /\ head = Len(in) % SERIAL_BUFFER_SIZE
  /\ tail = Len(out) % SERIAL_BUFFER_SIZE
  /\ \A k \in (Len(out) + 1)..Len(in) :
       buffer[(k - 1) % SERIAL_BUFFER_SIZE] = in[k]

\* The indices of a ring are slots, and NextSlot moves them by one character.
LEMMA RingIndices ==
  ASSUME NEW in, NEW out, NEW head, NEW tail, NEW buffer,
         RingOf(in, out, head, tail, buffer)
  PROVE  /\ Len(in) \in Nat /\ Len(out) \in Nat /\ head \in Slot /\ tail \in Slot
         /\ NextSlot(head) = (Len(in) + 1) % SERIAL_BUFFER_SIZE
         /\ NextSlot(tail) = (Len(out) + 1) % SERIAL_BUFFER_SIZE
         /\ NextSlot(head) \in Slot /\ NextSlot(tail) \in Slot
<1>1. /\ Len(in) \in Nat /\ Len(out) \in Nat
      /\ head = Len(in) % SERIAL_BUFFER_SIZE /\ tail = Len(out) % SERIAL_BUFFER_SIZE
  BY DEF RingOf
<1>2. head \in Slot /\ tail \in Slot  BY ONLY <1>1, RingDivision
<1>3. QED  BY ONLY <1>1, <1>2, NextSlotIsNext

\* head = tail exactly when everything that went in has come out; otherwise
\* the slot at tail holds the next character.
LEMMA RingHead ==
  ASSUME NEW in, NEW out, NEW head, NEW tail, NEW buffer,
         RingOf(in, out, head, tail, buffer)
  PROVE  /\ head = tail <=> Len(out) = Len(in)
         /\ head # tail => /\ Len(out) < Len(in)
                           /\ buffer[tail] = in[Len(out) + 1]
                           /\ buffer[tail] \in Byte
<1>1. /\ Len(in) \in Nat /\ Len(out) \in Nat
      /\ Len(out) <= Len(in) /\ Len(in) - Len(out) < SERIAL_BUFFER_SIZE
      /\ head = Len(in) % SERIAL_BUFFER_SIZE /\ tail = Len(out) % SERIAL_BUFFER_SIZE
  BY DEF RingOf
<1>2. head = tail => Len(out) = Len(in)  BY ONLY <1>1, RingInjective
<1>3. Len(out) = Len(in) => head = tail  BY ONLY <1>1
<1>4. ASSUME head # tail
      PROVE  Len(out) < Len(in) /\ buffer[tail] = in[Len(out) + 1] /\ buffer[tail] \in Byte
  <2>1. Len(out) < Len(in)  BY ONLY <1>1, <1>3, <1>4
  <2>2. /\ Len(out) + 1 \in (Len(out) + 1)..Len(in) /\ Len(out) + 1 \in 1..Len(in)
        /\ (Len(out) + 1) - 1 = Len(out)
    BY ONLY <1>1, <2>1
  <2>3. in[Len(out) + 1] \in Byte  BY <2>2 DEF RingOf
  <2>4. buffer[((Len(out) + 1) - 1) % SERIAL_BUFFER_SIZE] = in[Len(out) + 1]
    BY <2>2 DEF RingOf
  <2>5. QED  BY ONLY <1>1, <2>1, <2>2, <2>3, <2>4
<1>5. QED  BY ONLY <1>2, <1>3, <1>4

\* A buffer with c in one of its slots.
Stored(buffer, slot, c) == [buffer EXCEPT ![slot] = c]

\* A character stored at head, before head moves, disturbs none in the ring.
LEMMA RingStore ==
  ASSUME NEW in, NEW out, NEW head, NEW tail, NEW buffer, NEW c \in Byte,
         RingOf(in, out, head, tail, buffer)
  PROVE  /\ RingOf(in, out, head, tail, Stored(buffer, head, c))
         /\ Stored(buffer, head, c)[head] = c
<1> DEFINE S == SERIAL_BUFFER_SIZE
           b == Stored(buffer, head, c)
<1>1. /\ in \in Seq(Byte) /\ out \in Seq(Byte)
      /\ buffer \in [Slot -> Byte \cup {NoByte}]
      /\ Len(out) <= Len(in) /\ Len(in) - Len(out) < S
      /\ head = Len(in) % S /\ tail = Len(out) % S
      /\ \A k \in (Len(out) + 1)..Len(in) : buffer[(k - 1) % S] = in[k]
  BY DEF RingOf
<1>2. Len(in) \in Nat /\ Len(out) \in Nat /\ head \in Slot  BY RingIndices
<1>3. b \in [Slot -> Byte \cup {NoByte}] /\ b[head] = c
  BY ONLY <1>1, <1>2, c \in Byte DEF Stored
<1>4. ASSUME NEW k \in (Len(out) + 1)..Len(in)
      PROVE  b[(k - 1) % S] = in[k]
  <2>1. (k - 1) % S # head /\ (k - 1) % S \in Slot
    BY ONLY <1>1, <1>2, <1>4, RingFree, ZenonT(30)
  <2>2. b[(k - 1) % S] = buffer[(k - 1) % S]  BY ONLY <1>1, <2>1 DEF Stored
  <2>3. QED  BY ONLY <1>1, <1>4, <2>2
<1> HIDE DEF b
<1>5. RingOf(in, out, head, tail, b)  BY ONLY <1>1, <1>3, <1>4 DEF RingOf
<1>6. QED  BY ONLY <1>3, <1>5 DEF b

\* With a character at head and the next slot not tail, head may move on.
LEMMA RingPut ==
  ASSUME NEW in, NEW out, NEW head, NEW tail, NEW buffer, NEW c \in Byte,
         RingOf(in, out, head, tail, buffer), buffer[head] = c,
         NextSlot(head) # tail
  PROVE  /\ RingOf(Append(in, c), out, NextSlot(head), tail, buffer)
         /\ Len(in) - Len(out) < SERIAL_BUFFER_SIZE - 1
<1> DEFINE S == SERIAL_BUFFER_SIZE
           a == Append(in, c)
<1>0. S \in 2..255  BY SizeAssumption
<1>1. /\ in \in Seq(Byte) /\ out \in Seq(Byte)
      /\ buffer \in [Slot -> Byte \cup {NoByte}]
      /\ Len(out) <= Len(in) /\ Len(in) - Len(out) < S
      /\ head = Len(in) % S /\ tail = Len(out) % S
      /\ \A k \in (Len(out) + 1)..Len(in) : buffer[(k - 1) % S] = in[k]
  BY DEF RingOf
<1>2. /\ Len(in) \in Nat /\ Len(out) \in Nat
      /\ NextSlot(head) = (Len(in) + 1) % S
  BY RingIndices
<1>3. Len(in) + 1 - Len(out) < S
  <2>1. (Len(in) + 1) % S # Len(out) % S  BY <1>1, <1>2
  <2>2. QED  BY ONLY <1>1, <1>2, <2>1, RingRoom
<1>4. /\ a \in Seq(Byte) /\ Len(a) = Len(in) + 1
      /\ \A k \in 1..Len(in) : a[k] = in[k]
      /\ a[Len(in) + 1] = c
  BY ONLY <1>1, c \in Byte, Appended
<1> HIDE DEF a
<1>5. ASSUME NEW k \in (Len(out) + 1)..Len(a)
      PROVE  buffer[(k - 1) % S] = a[k]
  <2>1. CASE k = Len(in) + 1
    <3>1. k - 1 = Len(in)  BY ONLY <2>1, <1>2
    <3>2. QED  BY ONLY <2>1, <3>1, <1>1, <1>4, buffer[head] = c
  <2>2. CASE k # Len(in) + 1
    <3>1. k \in (Len(out) + 1)..Len(in) /\ k \in 1..Len(in)
      BY ONLY <2>2, <1>2, <1>4, <1>5
    <3>2. QED  BY ONLY <3>1, <1>1, <1>4
  <2>3. QED  BY ONLY <2>1, <2>2
<1>6. Len(out) <= Len(a) /\ Len(a) - Len(out) < S  BY ONLY <1>0, <1>1, <1>2, <1>3, <1>4
<1>7. RingOf(a, out, NextSlot(head), tail, buffer)
  BY ONLY <1>1, <1>2, <1>4, <1>5, <1>6 DEF RingOf
<1>8. Len(in) - Len(out) < S - 1  BY ONLY <1>0, <1>2, <1>3
<1>9. QED  BY <1>7, <1>8 DEF a

\* A character taken from tail is the next of the history.
LEMMA RingGet ==
  ASSUME NEW in, NEW out, NEW head, NEW tail, NEW buffer,
         RingOf(in, out, head, tail, buffer), head # tail
  PROVE  RingOf(in, Append(out, buffer[tail]), head, NextSlot(tail), buffer)
<1> DEFINE S == SERIAL_BUFFER_SIZE
           a == Append(out, buffer[tail])
<1>1. /\ in \in Seq(Byte) /\ out \in Seq(Byte)
      /\ buffer \in [Slot -> Byte \cup {NoByte}]
      /\ Len(out) <= Len(in) /\ Len(in) - Len(out) < S
      /\ head = Len(in) % S /\ tail = Len(out) % S
      /\ \A k \in (Len(out) + 1)..Len(in) : buffer[(k - 1) % S] = in[k]
  BY DEF RingOf
<1>2. /\ Len(in) \in Nat /\ Len(out) \in Nat
      /\ NextSlot(tail) = (Len(out) + 1) % S
  BY RingIndices
<1>3. Len(out) < Len(in) /\ buffer[tail] \in Byte  BY RingHead
<1>4. a \in Seq(Byte) /\ Len(a) = Len(out) + 1  BY ONLY <1>1, <1>3, Appended
<1> HIDE DEF a
<1>5. Len(a) <= Len(in) /\ Len(in) - Len(a) < S
  BY ONLY <1>1, <1>2, <1>3, <1>4, SizeAssumption
<1>6. \A k \in (Len(a) + 1)..Len(in) : k \in (Len(out) + 1)..Len(in)
  BY ONLY <1>2, <1>4
<1>7. \A k \in (Len(a) + 1)..Len(in) : buffer[(k - 1) % S] = in[k]
  BY ONLY <1>1, <1>6
<1>8. RingOf(in, a, head, NextSlot(tail), buffer)
  BY ONLY <1>1, <1>2, <1>4, <1>5, <1>7 DEF RingOf
<1>9. QED  BY <1>8 DEF a

\* Moving head back to tail empties a ring.
LEMMA RingClear ==
  ASSUME NEW in, NEW out, NEW head, NEW tail, NEW buffer,
         RingOf(in, out, head, tail, buffer)
  PROVE  RingOf(out, out, tail, tail, buffer)
<1>1. /\ out \in Seq(Byte) /\ buffer \in [Slot -> Byte \cup {NoByte}]
      /\ tail = Len(out) % SERIAL_BUFFER_SIZE
  BY DEF RingOf
<1>2. Len(out) \in Nat  BY <1>1
<1>3. Len(out) <= Len(out) /\ Len(out) - Len(out) < SERIAL_BUFFER_SIZE
  BY ONLY <1>2, SizeAssumption
<1>4. (Len(out) + 1)..Len(out) = {}  BY ONLY <1>2
<1>5. \A k \in (Len(out) + 1)..Len(out) :
        buffer[(k - 1) % SERIAL_BUFFER_SIZE] = out[k]
  BY ONLY <1>4
<1>6. QED  BY ONLY <1>1, <1>3, <1>5 DEF RingOf

\* The rings start empty.
LEMMA RingEmpty ==
  RingOf(<<>>, <<>>, 0, 0, [s \in Slot |-> NoByte])
<1>1. 0 % SERIAL_BUFFER_SIZE = 0 /\ 0 - 0 < SERIAL_BUFFER_SIZE  BY SizeAssumption
<1>2. <<>> \in Seq(Byte) /\ Len(<<>>) = 0  OBVIOUS
<1>3. (0 + 1)..0 = {}  OBVIOUS
<1>4. [s \in Slot |-> NoByte] \in [Slot -> Byte \cup {NoByte}]  OBVIOUS
<1>5. QED  BY <1>1, <1>2, <1>3, <1>4 DEF RingOf
-----------------------------------------------------------------------------
(* The inductive invariant: both rings hold what their histories say, every*)
(* other variable has its type, and the locals of a call in progress still *)
(* describe the ring, whatever the handlers did since they were loaded.    *)
(* Without the last part neither the type of what a call moves nor its     *)
(* order can be proved.                                                    *)

TxInv == RingOf(written, taken, txHead, txTail, txBuffer)
RxInv == RingOf(stored, got, rxHead, rxTail, rxBuffer)

PortType ==
  /\ transmitting \in BOOLEAN /\ txc \in BOOLEAN
  /\ pin \in Pins \cup {0} /\ driven \subseteq Pins
  /\ isr \in {"none", "sending", "clearing"} /\ ie \in BOOLEAN
  /\ rxen \in BOOLEAN /\ txen \in BOOLEAN /\ rxcie \in BOOLEAN /\ udrie \in BOOLEAN

UsartType ==
  /\ udr \in Seq(Byte) /\ shift \in Seq(Byte) /\ line \in Seq(Byte)
  /\ fifo \in Seq([c : Byte, upe : BOOLEAN])
  /\ arrivals \in Nat

\* What the sketch knows inside a call.
LocalInv ==
  /\ pc \in PC /\ lc \in Byte \cup {NoByte} /\ li \in Slot
  /\ pc \in {"writeFull", "writeHead"} => lc \in Byte /\ li = NextSlot(txHead)
  /\ pc = "writeHead" => li # txTail /\ txBuffer[txHead] = lc
  /\ pc = "read" => rxHead # rxTail /\ lc = rxBuffer[rxTail]

IInv == TxInv /\ RxInv /\ PortType /\ UsartType /\ LocalInv

\* IInv is at least as strong as the type invariant.
LEMMA TypeFromIInv == IInv => TypeOK
<1> SUFFICES ASSUME IInv PROVE TypeOK  OBVIOUS
<1>1. /\ written \in Seq(Byte) /\ taken \in Seq(Byte)
      /\ txBuffer \in [Slot -> Byte \cup {NoByte}]
  BY DEF IInv, TxInv, RingOf
<1>2. /\ stored \in Seq(Byte) /\ got \in Seq(Byte)
      /\ rxBuffer \in [Slot -> Byte \cup {NoByte}]
  BY DEF IInv, RxInv, RingOf
<1>3. txHead \in Slot /\ txTail \in Slot  BY RingIndices DEF IInv, TxInv
<1>4. rxHead \in Slot /\ rxTail \in Slot  BY RingIndices DEF IInv, RxInv
<1>5. PortType /\ UsartType /\ LocalInv  BY DEF IInv
<1>6. QED
  BY ONLY <1>1, <1>2, <1>3, <1>4, <1>5, ZenonT(30)
  DEF TypeOK, PortType, UsartType, LocalInv

\* The initial state.
LEMMA InitIInv == Init => IInv
<1> SUFFICES ASSUME Init PROVE IInv  OBVIOUS
<1>1. TxInv  BY RingEmpty DEF Init, TxInv
<1>2. RxInv  BY RingEmpty DEF Init, RxInv
<1>3. PortType  BY ZenonT(30) DEF Init, PortType
<1>4. UsartType  BY DEF Init, UsartType
<1>5. 0 \in Slot  BY SizeAssumption DEF Slot
<1>6. LocalInv  BY <1>5 DEF Init, LocalInv, PC
<1>7. QED  BY <1>1, <1>2, <1>3, <1>4, <1>6 DEF IInv

-----------------------------------------------------------------------------
(* Which steps touch a ring, and what they do to it.                       *)

\* Only write() and the UDRE handler touch the transmit ring.
LEMMA TxTouched ==
  ASSUME [Next]_vars
  PROVE  WriteStore \/ WriteHead \/ USART1_UDRE_send \/ UNCHANGED <<txRing, txHist>>
<1>1. CASE UNCHANGED vars  BY ONLY <1>1, ZenonT(30) DEF vars
<1>2. CASE Usart  BY ONLY <1>2, ZenonT(30) DEF Usart, ShiftOut, Arrive
<1>3. CASE USART1_RX  BY ONLY <1>3, ZenonT(30) DEF USART1_RX
<1>4. CASE UdreHandler
  BY ONLY <1>4, ZenonT(30)
  DEF UdreHandler, USART1_UDRE_empty, USART1_UDRE_sent, USART1_UDRE_done
<1>5. CASE InCall
  BY ONLY <1>5, ZenonT(30) DEF InCall, BeginEnable, WriteUdrie, WriteTxc, ReadTail,
                               FlushDone, EndDisable, SetPinLow
<1>6. CASE Call
  BY ONLY <1>6, ZenonT(30)
  DEF Call, Begin, Write, Read, Flush, End, SetPin, MaskInterrupts
<1>7. QED
  BY ONLY <1>1, <1>2, <1>3, <1>4, <1>5, <1>6, [Next]_vars, ZenonT(30) DEF Next, Step

\* Only the receive handler, read() and end() touch the receive ring.
LEMMA RxTouched ==
  ASSUME [Next]_vars
  PROVE  USART1_RX \/ ReadTail \/ EndDisable \/ UNCHANGED <<rxRing, rxHist>>
<1>1. CASE UNCHANGED vars  BY ONLY <1>1, ZenonT(30) DEF vars
<1>2. CASE Usart  BY ONLY <1>2, ZenonT(30) DEF Usart, ShiftOut, Arrive
<1>3. CASE UdreHandler
  BY ONLY <1>3, ZenonT(30)
  DEF UdreHandler, USART1_UDRE_empty, USART1_UDRE_send, USART1_UDRE_sent,
      USART1_UDRE_done
<1>4. CASE InCall
  BY ONLY <1>4, ZenonT(30) DEF InCall, BeginEnable, WriteStore, WriteHead,
                               WriteUdrie, WriteTxc, FlushDone, SetPinLow
<1>5. CASE Call
  BY ONLY <1>5, ZenonT(30)
  DEF Call, Begin, Write, Read, Flush, End, SetPin, MaskInterrupts
<1>6. QED
  BY ONLY <1>1, <1>2, <1>3, <1>4, <1>5, [Next]_vars, ZenonT(30) DEF Next, Step

\* write() stores at the free slot.
LEMMA StoreStep ==
  ASSUME IInv, WriteStore
  PROVE  /\ TxInv' /\ txBuffer'[txHead] = lc
         /\ lc \in Byte /\ li = NextSlot(txHead) /\ li # txTail
<1>1. /\ pc = "writeFull" /\ li # txTail
      /\ txBuffer' = [txBuffer EXCEPT ![txHead] = lc]
      /\ txHead' = txHead /\ txTail' = txTail /\ written' = written /\ taken' = taken
  BY DEF WriteStore, At, txHist
<1>2. lc \in Byte /\ li = NextSlot(txHead)  BY <1>1 DEF IInv, LocalInv
<1>3. RingOf(written, taken, txHead, txTail, txBuffer)  BY DEF IInv, TxInv
<1>4. RingOf(written, taken, txHead, txTail, txBuffer') /\ txBuffer'[txHead] = lc
  <2>1. txBuffer' = Stored(txBuffer, txHead, lc)  BY ONLY <1>1 DEF Stored
  <2>2. /\ RingOf(written, taken, txHead, txTail, Stored(txBuffer, txHead, lc))
        /\ Stored(txBuffer, txHead, lc)[txHead] = lc
    BY ONLY <1>2, <1>3, RingStore
  <2>3. QED  BY ONLY <2>1, <2>2
<1>5. QED  BY ONLY <1>1, <1>2, <1>4, ZenonT(30) DEF TxInv

\* write() moves head over the character it stored.
LEMMA HeadStep ==
  ASSUME IInv, WriteHead
  PROVE  /\ TxInv' /\ lc \in Byte /\ written' = Append(written, lc)
         /\ UNCHANGED taken
         /\ Len(written) - Len(taken) < SERIAL_BUFFER_SIZE - 1
<1>1. /\ pc = "writeHead" /\ txHead' = li /\ written' = Append(written, lc)
      /\ txBuffer' = txBuffer /\ txTail' = txTail /\ taken' = taken
  BY DEF WriteHead, At
<1>2. /\ lc \in Byte /\ li = NextSlot(txHead) /\ li # txTail
      /\ txBuffer[txHead] = lc
  BY <1>1 DEF IInv, LocalInv
<1>3. RingOf(written, taken, txHead, txTail, txBuffer)  BY DEF IInv, TxInv
<1>4. /\ RingOf(Append(written, lc), taken, NextSlot(txHead), txTail, txBuffer)
      /\ Len(written) - Len(taken) < SERIAL_BUFFER_SIZE - 1
  BY ONLY <1>2, <1>3, RingPut
<1>5. QED  BY ONLY <1>1, <1>2, <1>4, ZenonT(30) DEF TxInv

\* The handler takes the oldest character.
LEMMA SendStep ==
  ASSUME IInv, USART1_UDRE_send
  PROVE  /\ TxInv' /\ Len(taken) < Len(written)
         /\ taken' = Append(taken, written[Len(taken) + 1]) /\ UNCHANGED written
         /\ txBuffer[txTail] \in Byte
<1>1. /\ txHead # txTail /\ txTail' = NextSlot(txTail)
      /\ taken' = Append(taken, txBuffer[txTail])
      /\ txBuffer' = txBuffer /\ txHead' = txHead /\ written' = written
  BY DEF USART1_UDRE_send
<1>2. RingOf(written, taken, txHead, txTail, txBuffer)  BY DEF IInv, TxInv
<1>3. /\ Len(taken) < Len(written) /\ txBuffer[txTail] = written[Len(taken) + 1]
      /\ txBuffer[txTail] \in Byte
  BY ONLY <1>1, <1>2, RingHead
<1>4. RingOf(written, Append(taken, txBuffer[txTail]), txHead, NextSlot(txTail), txBuffer)
  BY ONLY <1>1, <1>2, RingGet
<1>5. QED  BY ONLY <1>1, <1>3, <1>4, ZenonT(30) DEF TxInv

\* The receive handler stores the character, unless it is bad or the ring is
\* full, in which case the ring keeps what it has.
LEMMA ReceiveStep ==
  ASSUME IInv, USART1_RX
  PROVE  /\ RxInv' /\ UNCHANGED got
         /\ Tail(fifo) \in Seq([c : Byte, upe : BOOLEAN])
         /\ \/ UNCHANGED <<rxBuffer, rxHead, stored>>
            \/ /\ Len(stored) - Len(got) < SERIAL_BUFFER_SIZE - 1
               /\ rxHead' # rxTail
               /\ rxHead # rxTail => rxBuffer'[rxTail] = rxBuffer[rxTail]
               /\ \E c \in Byte : stored' = Append(stored, c)
<1>1. fifo # <<>> /\ rxTail' = rxTail /\ got' = got  BY DEF USART1_RX
<1>2. RingOf(stored, got, rxHead, rxTail, rxBuffer)  BY DEF IInv, RxInv
<1>3. Tail(fifo) \in Seq([c : Byte, upe : BOOLEAN]) /\ Head(fifo).c \in Byte
  <2> DEFINE T == [c : Byte, upe : BOOLEAN]
  <2>1. fifo \in Seq(T)  BY DEF IInv, UsartType
  <2>2. \A x \in T : x.c \in Byte  OBVIOUS
  <2> HIDE DEF T
  <2>3. Tail(fifo) \in Seq(T) /\ Head(fifo) \in T  BY ONLY <2>1, <1>1
  <2>4. Tail(fifo) \in Seq(T) /\ Head(fifo).c \in Byte  BY ONLY <2>2, <2>3
  <2>5. QED  BY <2>4 DEF T
<1>4. CASE UNCHANGED <<rxBuffer, rxHead, stored>>
  <2>1. RxInv'  BY ONLY <1>1, <1>2, <1>4, ZenonT(30) DEF RxInv
  <2>2. QED  BY ONLY <1>1, <1>3, <1>4, <2>1, ZenonT(30)
<1>5. ASSUME NEW c \in Byte, NextSlot(rxHead) # rxTail,
             rxBuffer' = [rxBuffer EXCEPT ![rxHead] = c],
             rxHead' = NextSlot(rxHead), stored' = Append(stored, c)
      PROVE  /\ RxInv' /\ Len(stored) - Len(got) < SERIAL_BUFFER_SIZE - 1
             /\ rxHead' # rxTail
             /\ rxHead # rxTail => rxBuffer'[rxTail] = rxBuffer[rxTail]
  <2>1. RingOf(stored, got, rxHead, rxTail, rxBuffer') /\ rxBuffer'[rxHead] = c
    <3>1. rxBuffer' = Stored(rxBuffer, rxHead, c)  BY ONLY <1>5 DEF Stored
    <3>2. /\ RingOf(stored, got, rxHead, rxTail, Stored(rxBuffer, rxHead, c))
          /\ Stored(rxBuffer, rxHead, c)[rxHead] = c
      BY ONLY <1>2, c \in Byte, RingStore
    <3>3. QED  BY ONLY <3>1, <3>2
  <2>2. /\ RingOf(Append(stored, c), got, NextSlot(rxHead), rxTail, rxBuffer')
        /\ Len(stored) - Len(got) < SERIAL_BUFFER_SIZE - 1
    BY ONLY <1>5, <2>1, RingPut, ZenonT(30)
  <2>3. RxInv'  BY ONLY <1>1, <1>5, <2>2, ZenonT(30) DEF RxInv
  <2>4. rxBuffer \in [Slot -> Byte \cup {NoByte}] /\ rxTail \in Slot
    BY ONLY <1>2, RingIndices DEF RingOf
  <2>5. rxHead # rxTail => rxBuffer'[rxTail] = rxBuffer[rxTail]
    BY ONLY <1>5, <2>4
  <2>6. rxHead' # rxTail  BY ONLY <1>5
  <2>7. QED  BY ONLY <2>2, <2>3, <2>5, <2>6
<1>6. CASE ~Head(fifo).upe /\ NextSlot(rxHead) # rxTail
  <2> DEFINE c == Head(fifo).c
  <2>1. /\ rxBuffer' = [rxBuffer EXCEPT ![rxHead] = c]
        /\ rxHead' = NextSlot(rxHead) /\ stored' = Append(stored, c)
    BY <1>6 DEF USART1_RX, store_char
  <2>2. c \in Byte  BY <1>3
  <2> HIDE DEF c
  <2>3. /\ RxInv' /\ Len(stored) - Len(got) < SERIAL_BUFFER_SIZE - 1
        /\ rxHead' # rxTail
        /\ rxHead # rxTail => rxBuffer'[rxTail] = rxBuffer[rxTail]
    BY ONLY <1>5, <1>6, <2>1, <2>2, ZenonT(30)
  <2>4. QED  BY ONLY <1>1, <1>3, <2>1, <2>2, <2>3, ZenonT(30)
<1>7. CASE Head(fifo).upe \/ NextSlot(rxHead) = rxTail
  <2>1. UNCHANGED <<rxBuffer, rxHead, stored>>
    BY <1>7 DEF USART1_RX, store_char
  <2>2. QED  BY ONLY <2>1, <1>4, ZenonT(30)
<1>8. QED  BY ONLY <1>6, <1>7, ZenonT(30)

\* read() takes the oldest character.
LEMMA ReadStep ==
  ASSUME IInv, ReadTail
  PROVE  /\ RxInv' /\ Len(got) < Len(stored)
         /\ got' = Append(got, stored[Len(got) + 1]) /\ UNCHANGED stored
<1>1. /\ pc = "read" /\ rxTail' = NextSlot(rxTail) /\ got' = Append(got, lc)
      /\ rxBuffer' = rxBuffer /\ rxHead' = rxHead /\ stored' = stored
  BY DEF ReadTail, At
<1>2. rxHead # rxTail /\ lc = rxBuffer[rxTail]  BY <1>1 DEF IInv, LocalInv
<1>3. RingOf(stored, got, rxHead, rxTail, rxBuffer)  BY DEF IInv, RxInv
<1>4. Len(got) < Len(stored) /\ rxBuffer[rxTail] = stored[Len(got) + 1]
  BY ONLY <1>2, <1>3, RingHead
<1>5. RingOf(stored, Append(got, rxBuffer[rxTail]), rxHead, NextSlot(rxTail), rxBuffer)
  BY ONLY <1>2, <1>3, RingGet
<1>6. QED  BY ONLY <1>1, <1>2, <1>4, <1>5, ZenonT(30) DEF RxInv

\* end() empties the receive ring.
LEMMA EndStep ==
  ASSUME IInv, EndDisable
  PROVE  RxInv'
<1>1. /\ rxHead' = rxTail /\ stored' = got /\ rxTail' = rxTail /\ got' = got
      /\ rxBuffer' = rxBuffer
  BY DEF EndDisable
<1>2. RingOf(got, got, rxTail, rxTail, rxBuffer)  BY RingClear DEF IInv, RxInv
<1>3. QED  BY ONLY <1>1, <1>2, ZenonT(30) DEF RxInv

\* Every step keeps both rings what their histories say.
LEMMA StepRings ==
  ASSUME IInv, [Next]_vars
  PROVE  TxInv' /\ RxInv'
<1>1. TxInv'
  <2>1. CASE WriteStore  BY ONLY <2>1, IInv, StoreStep
  <2>2. CASE WriteHead  BY ONLY <2>2, IInv, HeadStep
  <2>3. CASE USART1_UDRE_send  BY ONLY <2>3, IInv, SendStep
  <2>4. CASE UNCHANGED <<txRing, txHist>>
    BY ONLY <2>4, IInv, ZenonT(30) DEF IInv, TxInv, txRing, txHist
  <2>5. QED  BY ONLY <2>1, <2>2, <2>3, <2>4, [Next]_vars, TxTouched, ZenonT(30)
<1>2. RxInv'
  <2>1. CASE USART1_RX  BY ONLY <2>1, IInv, ReceiveStep
  <2>2. CASE ReadTail  BY ONLY <2>2, IInv, ReadStep
  <2>3. CASE EndDisable  BY ONLY <2>3, IInv, EndStep
  <2>4. CASE UNCHANGED <<rxRing, rxHist>>
    BY ONLY <2>4, IInv, ZenonT(30) DEF IInv, RxInv, rxRing, rxHist
  <2>5. QED  BY ONLY <2>1, <2>2, <2>3, <2>4, [Next]_vars, RxTouched, ZenonT(30)
<1>3. QED  BY ONLY <1>1, <1>2

\* Every step keeps the types of the flags and the pins.
LEMMA StepPort ==
  ASSUME IInv, [Next]_vars
  PROVE  PortType'
<1>0. PortType  BY DEF IInv
<1> USE ONLY <1>0 DEF PortType, enables
<1>1. CASE UNCHANGED vars  BY <1>1, ZenonT(30) DEF vars, usartTx
<1>2. CASE ShiftOut \/ Arrive
  <2>1. txc' \in BOOLEAN  BY <1>2, ZenonT(30) DEF ShiftOut, Arrive, usartTx
  <2>2. QED  BY <1>2, <2>1, ZenonT(30) DEF ShiftOut, Arrive
<1>3. CASE USART1_RX \/ USART1_UDRE_empty \/ USART1_UDRE_sent
  BY <1>3, ZenonT(30) DEF USART1_RX, USART1_UDRE_empty, USART1_UDRE_sent, usartTx
<1>4. CASE USART1_UDRE_send
  <2>1. driven' = IF pin > 0 THEN driven \cup {pin} ELSE driven
    BY ONLY <1>4 DEF USART1_UDRE_send
  <2>2. driven' \subseteq Pins
    <3>1. pin \in Pins \/ ~(pin > 0)  BY SMT DEF PortType
    <3>2. QED  BY <2>1, <3>1, ZenonT(30)
  <2>3. QED  BY <1>4, <2>2, ZenonT(30) DEF USART1_UDRE_send
<1>5. CASE USART1_UDRE_done
  <2>1. driven' \subseteq Pins  BY <1>5 DEF USART1_UDRE_done
  <2>2. QED  BY <1>5, <2>1, ZenonT(30) DEF USART1_UDRE_done, usartTx
<1>6. CASE InCall
  <2>0. CASE BeginEnable  BY <2>0, ZenonT(30) DEF BeginEnable
  <2>1. CASE WriteStore \/ WriteHead \/ WriteUdrie \/ WriteTxc
    BY <2>1, ZenonT(30) DEF WriteStore, WriteHead, WriteUdrie, WriteTxc, usartTx
  <2>2. CASE ReadTail \/ FlushDone \/ EndDisable
    BY <2>2, ZenonT(30) DEF ReadTail, FlushDone, EndDisable, usartTx
  <2>3. CASE SetPinLow
    <3>1. driven' \subseteq Pins  BY <2>3 DEF SetPinLow
    <3>2. QED  BY <2>3, <3>1, ZenonT(30) DEF SetPinLow, usartTx
  <2>4. QED  BY ONLY <1>6, <2>0, <2>1, <2>2, <2>3, ZenonT(30) DEF InCall
<1>7. CASE Call
  <2>1. CASE Begin \/ SetPin
    BY <2>1, ZenonT(30) DEF Begin, SetPin, usartTx
  <2>2. CASE Write \/ Read  BY <2>2, ZenonT(30) DEF Write, Read, usartTx
  <2>3. CASE Flush \/ End \/ MaskInterrupts
    BY <2>3, ZenonT(30) DEF Flush, End, MaskInterrupts, usartTx
  <2>4. QED  BY ONLY <1>7, <2>1, <2>2, <2>3, ZenonT(30) DEF Call
<1>8. QED
  BY ONLY <1>1, <1>2, <1>3, <1>4, <1>5, <1>6, <1>7, [Next]_vars, ZenonT(30)
  DEF Next, Step, Usart, UdreHandler

\* Every step keeps the types of the USART's registers.
LEMMA StepUsart ==
  ASSUME IInv, [Next]_vars
  PROVE  UsartType'
<1>0. UsartType  BY DEF IInv
<1>1. <<>> \in Seq(Byte) /\ <<>> \in Seq([c : Byte, upe : BOOLEAN])  OBVIOUS
<1>2. CASE UNCHANGED <<usartTx, usartRx>>
  BY ONLY <1>0, <1>2, ZenonT(30) DEF UsartType, usartTx, usartRx
<1>3. CASE ShiftOut
  <2>1. line \o shift \in Seq(Byte)  BY <1>0 DEF UsartType
  <2>2. QED  BY ONLY <1>0, <1>1, <1>3, <2>1, ZenonT(30)
             DEF UsartType, ShiftOut, usartRx
<1>4. CASE Arrive
  <2>1. PICK c \in Byte, upe \in BOOLEAN :
          fifo' = IF Len(fifo) < RxDepth
                  THEN Append(fifo, [c |-> c, upe |-> upe]) ELSE fifo
    BY <1>4 DEF Arrive
  <2>2. fifo' \in Seq([c : Byte, upe : BOOLEAN])
    <3> DEFINE T == [c : Byte, upe : BOOLEAN]
               x == [c |-> c, upe |-> upe]
    <3>1. x \in T  OBVIOUS
    <3>2. fifo \in Seq(T)  BY <1>0 DEF UsartType
    <3>3. fifo' = IF Len(fifo) < RxDepth THEN Append(fifo, x) ELSE fifo
      BY <2>1
    <3> HIDE DEF T, x
    <3>4. fifo' \in Seq(T)  BY ONLY <3>1, <3>2, <3>3
    <3>5. QED  BY <3>4 DEF T
  <2>3. arrivals' \in Nat  BY <1>0, <1>4 DEF Arrive, UsartType
  <2>4. QED  BY ONLY <1>0, <1>4, <2>2, <2>3, ZenonT(30) DEF UsartType, Arrive, usartTx
<1>5. CASE USART1_RX
  <2>1. fifo' \in Seq([c : Byte, upe : BOOLEAN])
    BY ONLY <1>5, IInv, ReceiveStep, ZenonT(30) DEF USART1_RX
  <2>2. QED  BY ONLY <1>0, <1>5, <2>1, ZenonT(30) DEF UsartType, USART1_RX, usartTx
<1>6. CASE USART1_UDRE_send
  <2>1. <<txBuffer[txTail]>> \in Seq(Byte)  BY <1>6, SendStep
  <2>2. QED  BY ONLY <1>0, <1>6, <2>1, ZenonT(30)
             DEF UsartType, USART1_UDRE_send, UDR1write, usartRx
<1>7. CASE BeginEnable
  BY ONLY <1>0, <1>1, <1>7, ZenonT(30) DEF UsartType, BeginEnable, usartRx
<1>8. CASE WriteTxc
  BY ONLY <1>0, <1>8, ZenonT(30) DEF UsartType, WriteTxc, usartRx
<1>9. CASE EndDisable
  BY ONLY <1>0, <1>1, <1>9, ZenonT(30) DEF UsartType, EndDisable, usartTx
<1>10. CASE USART1_UDRE_empty \/ USART1_UDRE_sent \/ USART1_UDRE_done
  BY ONLY <1>2, <1>10, ZenonT(30)
  DEF USART1_UDRE_empty, USART1_UDRE_sent, USART1_UDRE_done
<1>11. CASE WriteStore \/ WriteHead \/ WriteUdrie \/ ReadTail \/ FlushDone \/ SetPinLow
  BY ONLY <1>2, <1>11, ZenonT(30)
  DEF WriteStore, WriteHead, WriteUdrie, ReadTail, FlushDone, SetPinLow
<1>12. CASE Call
  BY ONLY <1>2, <1>12, ZenonT(30)
  DEF Call, Begin, Write, Read, Flush, End, SetPin, MaskInterrupts
<1>13. CASE UNCHANGED vars  BY ONLY <1>2, <1>13, ZenonT(30) DEF vars
<1>14. QED
  BY ONLY <1>3, <1>4, <1>5, <1>6, <1>7, <1>8, <1>9, <1>10, <1>11, <1>12, <1>13,
          [Next]_vars, ZenonT(30)
  DEF Next, Step, Usart, UdreHandler, InCall

\* Every step keeps what the locals of a call say of the rings: the handlers
\* never take the slot write() is filling nor change the character read() has
\* loaded.
LEMMA StepLocal ==
  ASSUME IInv, [Next]_vars
  PROVE  LocalInv'
<1>0. LocalInv /\ 0 \in Slot /\ NextSlot(txHead) \in Slot
  BY SizeAssumption, RingIndices DEF IInv, TxInv, Slot
<1>1. CASE UNCHANGED <<sketch, txRing, rxRing>>
  BY ONLY <1>0, <1>1, ZenonT(30) DEF LocalInv, sketch, txRing, rxRing
<1>2. CASE \/ pc' = "idle" /\ lc' = NoByte /\ li' = 0
           \/ /\ pc' \in {"begin", "beginConfig", "writeUdrie", "writeTxc", "flush",
                          "end", "setPin"}
              /\ UNCHANGED <<lc, li>>
  BY ONLY <1>0, <1>2 DEF LocalInv, PC
<1>3. CASE Write
  <2>1. PICK c \in Byte : lc' = c  BY <1>3 DEF Write
  <2>2. pc' = "writeFull" /\ li' = NextSlot(txHead) /\ txHead' = txHead
    BY <1>3 DEF Write, txRing
  <2>3. QED  BY ONLY <1>0, <2>1, <2>2 DEF LocalInv, PC
<1>4. CASE WriteStore
  <2>1. pc' = "writeHead" /\ UNCHANGED <<lc, li, txHead, txTail>>
    BY <1>4 DEF WriteStore, GoTo
  <2>2. /\ txBuffer'[txHead] = lc /\ lc \in Byte
        /\ li = NextSlot(txHead) /\ li # txTail
    BY <1>4, StoreStep
  <2>3. QED  BY ONLY <1>0, <2>1, <2>2 DEF LocalInv, PC
<1>5. CASE Read
  <2>1. pc' = "read" /\ lc' = rxBuffer[rxTail] /\ rxHead # rxTail
    BY <1>5 DEF Read
  <2>2. UNCHANGED <<li, rxRing>>  BY <1>5 DEF Read
  <2>3. rxBuffer[rxTail] \in Byte  BY ONLY <2>1, IInv, RingHead DEF IInv, RxInv
  <2>4. QED  BY ONLY <1>0, <2>1, <2>2, <2>3 DEF LocalInv, PC, rxRing
<1>6. CASE USART1_UDRE_send
  <2>1. UNCHANGED <<sketch, txBuffer, txHead, rxRing>> /\ txTail' = NextSlot(txTail)
    BY <1>6 DEF USART1_UDRE_send
  <2>2. ASSUME pc = "writeHead" PROVE li # NextSlot(txTail)
    <3>1. li = NextSlot(txHead)  BY <2>2, <1>0 DEF LocalInv
    <3>2. /\ Len(written) \in Nat /\ Len(taken) \in Nat
          /\ NextSlot(txHead) = (Len(written) + 1) % SERIAL_BUFFER_SIZE
          /\ NextSlot(txTail) = (Len(taken) + 1) % SERIAL_BUFFER_SIZE
      BY RingIndices DEF IInv, TxInv
    <3>3. Len(taken) < Len(written)  BY <1>6, SendStep
    <3>4. Len(written) - Len(taken) < SERIAL_BUFFER_SIZE  BY DEF IInv, TxInv, RingOf
    <3>5. /\ Len(taken) + 1 \in Nat /\ Len(written) + 1 \in Nat
          /\ Len(taken) + 1 <= Len(written) + 1 /\ Len(taken) + 1 # Len(written) + 1
          /\ (Len(written) + 1) - (Len(taken) + 1) < SERIAL_BUFFER_SIZE
      BY ONLY <3>2, <3>3, <3>4, SizeAssumption
    <3>6. (Len(taken) + 1) % SERIAL_BUFFER_SIZE # (Len(written) + 1) % SERIAL_BUFFER_SIZE
      BY ONLY <3>5, RingInjective, ZenonT(30)
    <3>7. QED  BY ONLY <3>1, <3>2, <3>6
  <2>3. QED
    BY ONLY <1>0, <2>1, <2>2, ZenonT(30) DEF LocalInv, sketch, rxRing
<1>7. CASE USART1_RX
  <2>1. UNCHANGED <<sketch, txRing, rxTail>>  BY <1>7 DEF USART1_RX
  <2>2. pc = "read" => rxHead # rxTail /\ lc = rxBuffer[rxTail]
    BY <1>0 DEF LocalInv
  <2>3. pc = "read" => rxHead' # rxTail /\ lc = rxBuffer'[rxTail]
    BY ONLY <1>7, <2>2, IInv, ReceiveStep, ZenonT(30)
  <2>4. QED
    BY ONLY <1>0, <2>1, <2>3, ZenonT(30) DEF LocalInv, sketch, txRing
<1>8. CASE ShiftOut \/ Arrive \/ USART1_UDRE_empty \/ USART1_UDRE_sent
           \/ USART1_UDRE_done \/ MaskInterrupts
  BY ONLY <1>1, <1>8, ZenonT(30)
  DEF ShiftOut, Arrive, USART1_UDRE_empty, USART1_UDRE_sent, USART1_UDRE_done,
      MaskInterrupts
<1>9. CASE BeginEnable \/ WriteTxc \/ ReadTail \/ FlushDone \/ EndDisable \/ SetPinLow
  BY ONLY <1>2, <1>9, ZenonT(30)
  DEF BeginEnable, WriteTxc, ReadTail, FlushDone, EndDisable, SetPinLow, Return
<1>10. CASE WriteHead \/ WriteUdrie \/ Begin \/ Flush \/ End \/ SetPin
  BY ONLY <1>2, <1>10, ZenonT(30)
  DEF WriteHead, WriteUdrie, Begin, Flush, End, SetPin, GoTo
<1>11. CASE UNCHANGED vars  BY ONLY <1>1, <1>11, ZenonT(30) DEF vars
<1>12. QED
  BY ONLY <1>3, <1>4, <1>5, <1>6, <1>7, <1>8, <1>9, <1>10, <1>11, [Next]_vars,
          ZenonT(30)
  DEF Next, Step, Usart, UdreHandler, InCall, Call

-----------------------------------------------------------------------------
(* The invariant is inductive.                                             *)

\* IInv holds in every reachable state, for every ring size and every sketch.
LEMMA Invariance == Spec => []IInv
<1>1. Init => IInv  BY InitIInv
<1>2. IInv /\ [Next]_vars => IInv'
  BY ONLY StepRings, StepPort, StepUsart, StepLocal DEF IInv
<1>3. QED  BY <1>1, <1>2, PTL DEF Spec

\* Type correctness of the port: the indices stay in the ring and only
\* characters that were written or received are ever moved.
THEOREM TypeCorrect == Spec => []TypeOK
<1>1. IInv => TypeOK  BY TypeFromIInv
<1>2. QED  BY <1>1, Invariance, PTL

-----------------------------------------------------------------------------
(* The rings are FIFOs.                                                    *)

\* The transmit ring implements the abstract FIFO: a write() that moves head is
\* a Put, the handler taking a byte is a Get, and nothing else changes it.
THEOREM TransmitIsFifo == Spec => TxIsFifo
<1>1. Init => Tx!FifoInit  BY DEF Init, Tx!FifoInit
<1>2. IInv /\ [Next]_vars => [Tx!FifoNext]_(Tx!fifoVars)
  <2> SUFFICES ASSUME IInv, [Next]_vars PROVE [Tx!FifoNext]_(Tx!fifoVars)
    OBVIOUS
  <2>0. Len(written) \in Nat /\ Len(taken) \in Nat  BY RingIndices DEF IInv, TxInv
  <2>1. CASE WriteHead
    <3>1. /\ lc \in Byte /\ written' = Append(written, lc) /\ UNCHANGED taken
          /\ Len(written) - Len(taken) < SERIAL_BUFFER_SIZE - 1
      BY ONLY <2>1, IInv, HeadStep
    <3>2. Tx!Put  BY ONLY <2>0, <3>1, SizeAssumption DEF Tx!Put, Tx!Pending
    <3>3. QED  BY <3>2 DEF Tx!FifoNext
  <2>2. CASE USART1_UDRE_send
    <3>1. /\ Len(taken) < Len(written) /\ UNCHANGED written
          /\ taken' = Append(taken, written[Len(taken) + 1])
      BY ONLY <2>2, IInv, SendStep
    <3>2. Tx!Get  BY ONLY <2>0, <3>1 DEF Tx!Get, Tx!Pending
    <3>3. QED  BY <3>2 DEF Tx!FifoNext
  <2>3. CASE UNCHANGED <<txRing, txHist>>  BY ONLY <2>3 DEF txHist, Tx!fifoVars
  <2>4. WriteStore => UNCHANGED txHist  BY DEF WriteStore
  <2>5. UNCHANGED txHist => UNCHANGED Tx!fifoVars  BY DEF txHist, Tx!fifoVars
  <2>6. QED
    BY ONLY <2>1, <2>2, <2>3, <2>4, <2>5, [Next]_vars, TxTouched, ZenonT(30)
<1>3. QED  BY <1>1, <1>2, Invariance, PTL DEF Spec, TxIsFifo, Tx!FifoSpec

\* The receive ring implements the abstract FIFO, store_char() being Put,
\* read() Get and end() Discard.
THEOREM ReceiveIsFifo == Spec => RxIsFifo
<1>1. Init => Rx!FifoInit  BY DEF Init, Rx!FifoInit
<1>2. IInv /\ [Next]_vars => [Rx!FifoNext]_(Rx!fifoVars)
  <2> SUFFICES ASSUME IInv, [Next]_vars PROVE [Rx!FifoNext]_(Rx!fifoVars)
    OBVIOUS
  <2>0. Len(stored) \in Nat /\ Len(got) \in Nat  BY RingIndices DEF IInv, RxInv
  <2>1. CASE USART1_RX
    <3>1. /\ UNCHANGED got
          /\ \/ UNCHANGED <<rxBuffer, rxHead, stored>>
             \/ /\ Len(stored) - Len(got) < SERIAL_BUFFER_SIZE - 1
                /\ \E c \in Byte : stored' = Append(stored, c)
      BY ONLY <2>1, IInv, ReceiveStep, ZenonT(30)
    <3>2. CASE UNCHANGED <<rxBuffer, rxHead, stored>>
      BY ONLY <3>1, <3>2 DEF Rx!fifoVars
    <3>3. CASE /\ Len(stored) - Len(got) < SERIAL_BUFFER_SIZE - 1
               /\ \E c \in Byte : stored' = Append(stored, c)
      BY ONLY <3>1, <3>3 DEF Rx!FifoNext, Rx!Put, Rx!Pending
    <3>4. QED  BY ONLY <3>1, <3>2, <3>3
  <2>2. CASE ReadTail
    <3>1. /\ Len(got) < Len(stored) /\ UNCHANGED stored
          /\ got' = Append(got, stored[Len(got) + 1])
      BY ONLY <2>2, IInv, ReadStep
    <3>2. Rx!Get  BY ONLY <2>0, <3>1 DEF Rx!Get, Rx!Pending
    <3>3. QED  BY <3>2 DEF Rx!FifoNext
  <2>3. CASE EndDisable
    BY ONLY <2>3, ZenonT(30) DEF EndDisable, Rx!FifoNext, Rx!Discard
  <2>4. CASE UNCHANGED <<rxRing, rxHist>>  BY ONLY <2>4 DEF rxHist, Rx!fifoVars
  <2>5. QED  BY ONLY <2>1, <2>2, <2>3, <2>4, [Next]_vars, RxTouched, ZenonT(30)
<1>3. QED  BY <1>1, <1>2, Invariance, PTL DEF Spec, RxIsFifo, Rx!FifoSpec
-----------------------------------------------------------------------------
(* available() and peek().                                                 *)

\* The difference of two slots is the number of characters between them.
LEMMA AvailableCounts ==
  ASSUME NEW m \in Nat, NEW n \in Nat, m <= n, n - m < SERIAL_BUFFER_SIZE,
         SERIAL_BUFFER_SIZE <= 128
  PROVE  Available(n % SERIAL_BUFFER_SIZE, m % SERIAL_BUFFER_SIZE) = n - m
<1> DEFINE S == SERIAL_BUFFER_SIZE
           h == n % S
           t == m % S
<1>1. S \in 2..128  BY SizeAssumption
<1>2. PICK p \in Nat : m = p * S + t /\ t \in Slot  BY RingDivision
<1>3. PICK q \in Nat : n = q * S + h /\ h \in Slot  BY RingDivision
<1>4. h \in 0..(S - 1) /\ t \in 0..(S - 1)  BY <1>2, <1>3 DEF Slot
<1> SUFFICES Available(h, t) = n - m  OBVIOUS
<1> HIDE DEF h, t
<1>5. n - m = (q - p) * S + (h - t)  BY <1>1, <1>2, <1>3, <1>4
<1>6. q - p < 2
  <2> SUFFICES ASSUME q - p >= 2 PROVE FALSE  OBVIOUS
  <2>1. (q - p) * S >= 2 * S  BY <1>1, SMT
  <2>2. QED  BY <2>1, <1>5, <1>4, <1>1
<1>7. q - p > -1
  <2> SUFFICES ASSUME q - p <= -1 PROVE FALSE  OBVIOUS
  <2>1. (q - p) * S <= -S  BY <1>1, SMT
  <2>2. QED  BY <2>1, <1>5, <1>4, <1>1
<1>8. S + h - t \in 1..255  BY <1>1, <1>4
<1>9. UInt8(S + h - t) = S + h - t
  <2>1. \A k \in 1..255 : UInt8(k) = k  BY DEF UInt8
  <2>2. QED  BY <2>1, <1>8
<1>10. \A k \in Nat : k < S => k % S = k  BY <1>1
<1>11. CASE q - p = 0
  <2>1. n - m = h - t /\ h - t \in Nat /\ h - t < S  BY <1>5, <1>11, <1>4, <1>1
  <2>2. ((h - t) + S) % S = (h - t) % S  BY <2>1, RingWrap
  <2>3. S + h - t = (h - t) + S  BY <1>1, <1>4
  <2>4. QED  BY <1>9, <1>10, <2>1, <2>2, <2>3 DEF Available
<1>12. CASE q - p = 1
  <2>1. n - m = S + h - t /\ S + h - t \in Nat /\ S + h - t < S
    BY <1>5, <1>12, <1>4, <1>1
  <2>2. QED  BY <1>9, <1>10, <2>1 DEF Available
<1>13. QED  BY <1>6, <1>7, <1>11, <1>12

\* available() and peek() describe the receive ring in every reachable state.
THEOREM ReceiveViewCorrect == Spec => []ReceiveView
<1>1. IInv => ReceiveView
  <2> SUFFICES ASSUME IInv PROVE ReceiveView  OBVIOUS
  <2>1. RingOf(stored, got, rxHead, rxTail, rxBuffer)  BY DEF IInv, RxInv
  <2>2. /\ Len(got) <= Len(stored) /\ Len(stored) - Len(got) < SERIAL_BUFFER_SIZE
        /\ rxHead = Len(stored) % SERIAL_BUFFER_SIZE
        /\ rxTail = Len(got) % SERIAL_BUFFER_SIZE
        /\ Len(stored) \in Nat /\ Len(got) \in Nat
    BY ONLY <2>1 DEF RingOf
  <2>3. SERIAL_BUFFER_SIZE <= 128 =>
          Available(rxHead, rxTail) = Len(stored) - Len(got)
    BY ONLY <2>2, AvailableCounts
  <2>4. /\ rxHead = rxTail <=> Len(got) = Len(stored)
        /\ rxHead # rxTail => rxBuffer[rxTail] = stored[Len(got) + 1]
    BY ONLY <2>1, RingHead
  <2>5. QED  BY ONLY <2>3, <2>4, ZenonT(30) DEF ReceiveView, Peek
<1>2. QED  BY <1>1, Invariance, PTL
-----------------------------------------------------------------------------
(* The RS-485 driver.                                                      *)

\* Only the current pin can be HIGH, and only while the handler runs.
DriverInv == driven \subseteq (IF isr = "none" THEN {} ELSE {pin} \ {0})

\* The sketch never runs with the RS-485 driver on: the handler that turns it
\* on turns the same pin off before it returns, whatever setPin() and begin()
\* do to _pin between two interrupts.
THEOREM DriverAlwaysReleased == Spec => []DriverReleased
<1>1. Init => DriverInv  BY DEF Init, DriverInv
<1>2. IInv /\ DriverInv /\ [Next]_vars => DriverInv'
  <2> SUFFICES ASSUME IInv, DriverInv, [Next]_vars PROVE DriverInv'  OBVIOUS
  <2>0. pin \in Nat  BY SerialAssumption DEF IInv, PortType
  <2> USE DEF DriverInv
  <2>1. CASE UNCHANGED vars  BY <2>1 DEF vars
  <2>2. CASE Usart  BY <2>2 DEF Usart, ShiftOut, Arrive
  <2>3. CASE USART1_RX  BY <2>3 DEF USART1_RX
  <2>4. CASE UdreHandler
    <3>1. CASE USART1_UDRE_send
      BY <3>1, <2>0 DEF USART1_UDRE_send, UdreInterrupt
    <3>2. CASE USART1_UDRE_done  BY <3>2, <2>0 DEF USART1_UDRE_done
    <3>3. CASE USART1_UDRE_empty \/ USART1_UDRE_sent
      BY SMTT(30), <3>3 DEF USART1_UDRE_empty, USART1_UDRE_sent
    <3>4. QED  BY <2>4, <3>1, <3>2, <3>3 DEF UdreHandler
  <2>5. CASE InCall
    BY ZenonT(30), <2>5 DEF InCall, BeginEnable, WriteStore, WriteHead, WriteUdrie, WriteTxc,
                ReadTail, FlushDone, EndDisable, SetPinLow, At
  <2>6. CASE Call
    BY <2>6 DEF Call, Begin, Write, Read, Flush, End, SetPin, MaskInterrupts, At
  <2>7. QED  BY <2>1, <2>2, <2>3, <2>4, <2>5, <2>6 DEF Next, Step
<1>3. DriverInv => DriverReleased  BY DEF DriverInv, DriverReleased
<1>4. QED  BY <1>1, <1>2, <1>3, Invariance, PTL DEF Spec

-----------------------------------------------------------------------------
(* No lost wake-up.                                                        *)

\* A closed port of a disciplined sketch has nothing queued, so begin(), which
\* disables the interrupt, leaves nothing behind.
WakeupInv ==
  Disciplined =>
    /\ txHead # txTail => udrie \/ pc = "writeUdrie"
    /\ ~txen => txHead = txTail
    /\ pc \in {"begin", "beginConfig"} => ~txen
    /\ pc \in {"writeFull", "writeHead", "writeUdrie", "writeTxc"} => txen

\* Queued bytes always find the UDRE interrupt enabled or about to be, for
\* every sketch that opens a closed port only and writes to an open one only.
THEOREM WakeupNeverLost == Spec => []NoLostWakeup
<1>1. Init => WakeupInv  BY SMTT(30) DEF Init, WakeupInv
<1>2. WakeupInv /\ [Next]_vars => WakeupInv'
  <2> SUFFICES ASSUME WakeupInv, [Next]_vars, Disciplined PROVE WakeupInv'
    BY DEF WakeupInv, Disciplined, Next, vars
  <2> USE DEF WakeupInv
  <2>1. CASE UNCHANGED vars  BY SMTT(30), <2>1 DEF vars, txRing, sketch, enables
  <2>2. CASE Usart  BY <2>2 DEF Usart, ShiftOut, Arrive, txRing, sketch, enables
  <2>3. CASE USART1_RX  BY ZenonT(30), <2>3 DEF USART1_RX, txRing, sketch, enables
  <2>4. CASE UdreHandler
    BY SMTT(30), <2>4 DEF UdreHandler, USART1_UDRE_empty, USART1_UDRE_send, UdreInterrupt,
                USART1_UDRE_sent, USART1_UDRE_done, txRing, sketch, enables
  <2>5. CASE InCall
    BY ZenonT(30), <2>5 DEF InCall, BeginEnable, WriteStore, WriteHead, WriteUdrie, WriteTxc,
                ReadTail, FlushDone, EndDisable, SetPinLow, At, GoTo, Return,
                txRing, enables
  <2>6. CASE Call
    BY ZenonT(30), <2>6 DEF Call, Begin, Write, Read, Flush, End, SetPin, MaskInterrupts,
                At, GoTo, Disciplined, txRing, sketch, enables
  <2>7. QED  BY <2>1, <2>2, <2>3, <2>4, <2>5, <2>6 DEF Next, Step
<1>3. WakeupInv => NoLostWakeup  BY DEF WakeupInv, NoLostWakeup
<1>4. QED  BY <1>1, <1>2, <1>3, PTL DEF Spec

-----------------------------------------------------------------------------
(* The driver covers every frame.                                          *)

\* Interrupts are served at once and only an open port is written to.
Prompt == liberties \cap {"late", "mask", "writeClosed"} = {}

\* write() then holds at most one character at a time, the handler runs only
\* between its last two statements, and TXC1 is clear whenever the handler
\* starts a frame, so the wait for it cannot end on the previous frame's.
CoverInv ==
  Prompt =>
    /\ ie /\ udr = <<>>
    /\ udrie \/ txc => pc = "writeTxc"
    /\ pc \in {"writeFull", "writeHead", "writeUdrie", "writeTxc"} => txen
    /\ txHead # txTail => /\ txHead = NextSlot(txTail)
                          /\ \/ pc = "writeUdrie"
                             \/ pc = "writeTxc" /\ udrie /\ ~txc /\ isr = "none"
    /\ isr = "sending" => (txc <=> shift = <<>>)
    /\ isr \in {"none", "clearing"} => shift = <<>>
    /\ isr # "none" => pc = "writeTxc" /\ (pin > 0 => pin \in driven)

\* The handlers and the USART keep it.
LEMMA CoverHandlers ==
  ASSUME IInv, CoverInv, Prompt, UNCHANGED liberties,
         Usart \/ USART1_RX \/ UdreHandler
  PROVE  CoverInv'
<1>0. isr \in {"none", "sending", "clearing"}  BY DEF IInv, PortType
<1> USE ONLY CoverInv, Prompt, <1>0 DEF CoverInv, sketch, enables, txRing
<1>1. CASE ShiftOut
  <2>1. isr = "sending" /\ pc = "writeTxc" /\ shift' = <<>> /\ txc'
    BY <1>1, ZenonT(30) DEF ShiftOut
  <2>2. UNCHANGED <<txRing, pin, sketch, isr, ie, enables, driven>> /\ udr' = <<>>
    BY <1>1, ZenonT(30) DEF ShiftOut
  <2>3. QED  BY <2>1, <2>2, ZenonT(30)
<1>2. CASE Arrive  BY <1>2, ZenonT(30) DEF Arrive, usartTx
<1>3. CASE USART1_RX  BY <1>3, ZenonT(30) DEF USART1_RX, usartTx
<1>4. CASE USART1_UDRE_empty
  BY <1>4, ZenonT(30) DEF USART1_UDRE_empty, UdreInterrupt, usartTx
<1>5. CASE USART1_UDRE_send
  <2>1. /\ txHead # txTail /\ isr = "none" /\ udrie
        /\ pc = "writeTxc" /\ txen /\ ~txc /\ shift = <<>> /\ txHead = NextSlot(txTail)
    BY <1>5, ZenonT(30) DEF USART1_UDRE_send, UdreInterrupt
  <2>2. /\ txTail' = txHead' /\ shift' = <<txBuffer[txTail]>> /\ isr' = "sending"
        /\ UNCHANGED <<pin, pc, ie, enables, txc, udr>>
    BY <1>5, <2>1, ZenonT(30) DEF USART1_UDRE_send, UDR1write
  <2>3. pin > 0 => pin \in driven'  BY <1>5, ZenonT(30) DEF USART1_UDRE_send
  <2>4. shift' # <<>>  BY ONLY <2>2
  <2>5. QED  BY <2>1, <2>2, <2>3, <2>4, ZenonT(30)
<1>6. CASE USART1_UDRE_sent
  BY <1>6, ZenonT(30) DEF USART1_UDRE_sent, usartTx
<1>7. CASE USART1_UDRE_done
  BY <1>7, ZenonT(30) DEF USART1_UDRE_done, usartTx
<1>8. QED
  BY ONLY <1>1, <1>2, <1>3, <1>4, <1>5, <1>6, <1>7, ZenonT(30),
          Usart \/ USART1_RX \/ UdreHandler
  DEF Usart, UdreHandler

\* The sketch keeps it: it moves only when no interrupt is pending.
LEMMA CoverSketch ==
  ASSUME IInv, CoverInv, Prompt, UNCHANGED liberties, InCall \/ Call
  PROVE  CoverInv'
<1>0. ASSUME NEW p, At(p)
      PROVE  isr = "none" /\ pc = p /\ ~udrie /\ shift = <<>> /\ udr = <<>> /\ ie
  <2>1. "late" \notin liberties  BY DEF Prompt
  <2>2. QED  BY ONLY <1>0, <2>1, CoverInv, Prompt, ZenonT(30)
             DEF CoverInv, At, UdreInterrupt
<1>1. "mask" \notin liberties /\ "writeClosed" \notin liberties  BY DEF Prompt
<1>2. pc = "writeHead" => lc \in Byte /\ li = NextSlot(txHead)
  BY DEF IInv, LocalInv
<1> USE ONLY CoverInv, Prompt, <1>0 DEF CoverInv, enables, txRing
<1>a. ASSUME pc \notin {"writeUdrie", "writeTxc"}
      PROVE  txHead = txTail /\ ~txc /\ ~udrie
  BY <1>a, ZenonT(30)
<1>b. ASSUME isr = "none", shift = <<>>, udr = <<>>, ie,
             pc \notin {"writeUdrie", "writeTxc"}, pc' \notin {"writeUdrie", "writeTxc"},
             pc' \in {"writeFull", "writeHead"} => txen', ~udrie',
             UNCHANGED <<txHead, txTail, isr, ie, usartTx>>
      PROVE  CoverInv'
  BY <1>a, <1>b, ZenonT(30) DEF usartTx
<1>3. CASE BeginEnable
  <2>1. isr = "none" /\ pc \in {"begin", "beginConfig"} /\ shift = <<>> /\ udr = <<>> /\ ie
    BY <1>3, ZenonT(30) DEF BeginEnable
  <2>2. txHead = txTail /\ ~txc  BY <2>1, ZenonT(30)
  <2>3. QED  BY <1>3, <2>1, <2>2, ZenonT(30) DEF BeginEnable, Return
<1>4. CASE WriteStore
  <2>1. At("writeFull") /\ pc' = "writeHead"  BY <1>4, ZenonT(30) DEF WriteStore, GoTo
  <2>2. UNCHANGED <<txHead, txTail, isr, ie, enables, usartTx>>
    BY <1>4, ZenonT(30) DEF WriteStore
  <2>3. txen  BY <2>1, ZenonT(30)
  <2>4. /\ isr = "none" /\ pc = "writeFull" /\ ~udrie /\ shift = <<>> /\ udr = <<>> /\ ie
    BY <2>1, ZenonT(30)
  <2>5. pc \notin {"writeUdrie", "writeTxc"} /\ pc' \notin {"writeUdrie", "writeTxc"}
    BY ONLY <2>1, <2>4
  <2>6. pc' \in {"writeFull", "writeHead"} => txen'  BY ONLY <2>1, <2>2, <2>3 DEF enables
  <2>7. QED  BY <1>b, <2>2, <2>4, <2>5, <2>6, ZenonT(30)
<1>5. CASE WriteHead
  <2>1. isr = "none" /\ pc = "writeHead" /\ ~udrie /\ shift = <<>> /\ udr = <<>> /\ ie
    BY <1>5, ZenonT(30) DEF WriteHead
  <2>2. txHead = txTail /\ ~txc /\ txen  BY <2>1, ZenonT(30)
  <2>3. txHead' = NextSlot(txTail')  BY <1>2, <1>5, <2>1, <2>2, ZenonT(30) DEF WriteHead
  <2>4. pc' = "writeUdrie" /\ UNCHANGED <<isr, ie, enables, usartTx>>
    BY <1>5, ZenonT(30) DEF WriteHead, GoTo
  <2>5. QED  BY <2>1, <2>2, <2>3, <2>4, ZenonT(30) DEF usartTx
<1>6. CASE WriteUdrie
  <2>1. isr = "none" /\ pc = "writeUdrie" /\ shift = <<>> /\ udr = <<>> /\ ie
    BY <1>6, ZenonT(30) DEF WriteUdrie
  <2>2. ~txc /\ txen  BY <2>1, ZenonT(30)
  <2>3. QED  BY <1>6, <2>1, <2>2, ZenonT(30) DEF WriteUdrie, GoTo, usartTx
<1>7. CASE WriteTxc
  <2>1. isr = "none" /\ pc = "writeTxc" /\ ~udrie /\ shift = <<>> /\ udr = <<>> /\ ie
    BY <1>7, ZenonT(30) DEF WriteTxc
  <2>2. txHead = txTail  BY <2>1, ZenonT(30)
  <2>3. QED  BY <1>7, <2>1, <2>2, ZenonT(30) DEF WriteTxc, Return
<1>8. CASE ReadTail \/ FlushDone \/ SetPinLow \/ EndDisable
  <2>1. \E p \in {"read", "flush", "setPin", "end"} : At(p)
    BY <1>8, ZenonT(30) DEF ReadTail, FlushDone, SetPinLow, EndDisable
  <2>2. pc' = "idle" /\ UNCHANGED <<txHead, txTail, isr, ie, usartTx>>
    BY <1>8, ZenonT(30) DEF ReadTail, FlushDone, SetPinLow, EndDisable, Return
  <2>3. udrie' \in {FALSE, udrie}
    BY <1>8, ZenonT(30) DEF ReadTail, FlushDone, SetPinLow, EndDisable
  <2>4. QED  BY <1>b, <2>1, <2>2, <2>3, ZenonT(30)
<1>9. CASE Begin \/ Read \/ Flush \/ End \/ SetPin
  <2>1. At("idle") /\ pc' \in {"begin", "beginConfig", "read", "flush", "end", "setPin"}
    BY <1>9, ZenonT(30) DEF Begin, Read, Flush, End, SetPin, GoTo
  <2>2. UNCHANGED <<txHead, txTail, isr, ie, enables, usartTx>>
    BY <1>9, ZenonT(30) DEF Begin, Read, Flush, End, SetPin
  <2>3. /\ isr = "none" /\ pc = "idle" /\ ~udrie /\ shift = <<>> /\ udr = <<>> /\ ie
    BY <2>1, ZenonT(30)
  <2>4. pc \notin {"writeUdrie", "writeTxc"} /\ pc' \notin {"writeUdrie", "writeTxc"}
    BY ONLY <2>1, <2>3
  <2>5. pc' \in {"writeFull", "writeHead"} => txen'  BY ONLY <2>1, <2>2 DEF enables
  <2>6. QED  BY <1>b, <2>2, <2>3, <2>4, <2>5, ZenonT(30)
<1>10. CASE Write
  <2>1. At("idle") /\ txen /\ pc' = "writeFull"  BY <1>1, <1>10, ZenonT(30) DEF Write
  <2>2. UNCHANGED <<txHead, txTail, isr, ie, enables, usartTx>>
    BY <1>10, ZenonT(30) DEF Write
  <2>3. /\ isr = "none" /\ pc = "idle" /\ ~udrie /\ shift = <<>> /\ udr = <<>> /\ ie
    BY <2>1, ZenonT(30)
  <2>4. pc \notin {"writeUdrie", "writeTxc"} /\ pc' \notin {"writeUdrie", "writeTxc"}
    BY ONLY <2>1, <2>3
  <2>5. pc' \in {"writeFull", "writeHead"} => txen'  BY ONLY <2>1, <2>2 DEF enables
  <2>6. QED  BY <1>b, <2>2, <2>3, <2>4, <2>5, ZenonT(30)
<1>11. CASE MaskInterrupts  BY <1>1, <1>11, ZenonT(30) DEF MaskInterrupts
<1>12. QED
  BY ONLY <1>3, <1>4, <1>5, <1>6, <1>7, <1>8, <1>9, <1>10, <1>11, ZenonT(30),
          InCall \/ Call
  DEF InCall, Call

\* With interrupts served at once, the RS-485 driver is on for as long as a
\* frame is being shifted out, for every ring size and every pin, with begin()
\* called on an open port as well.
THEOREM DriverOnWhileSending == Spec => []DriverCoversFrame
<1>1. Init => CoverInv  BY ZenonT(30) DEF Init, CoverInv
<1>2. IInv /\ CoverInv /\ [Next]_vars => CoverInv'
  <2> SUFFICES ASSUME IInv, CoverInv, [Next]_vars PROVE CoverInv'  OBVIOUS
  <2>1. UNCHANGED liberties  BY ONLY [Next]_vars, ZenonT(30) DEF Next, vars
  <2>2. CASE ~Prompt  BY ONLY <2>1, <2>2 DEF CoverInv, Prompt
  <2>3. CASE UNCHANGED vars /\ Prompt
    BY ONLY <2>3, CoverInv, ZenonT(30)
    DEF CoverInv, vars, txRing, sketch, enables, usartTx
  <2>4. CASE Step /\ Prompt
    BY ONLY <2>1, <2>4, IInv, CoverInv, CoverHandlers, CoverSketch, ZenonT(30) DEF Step
  <2>5. QED  BY ONLY <2>2, <2>3, <2>4, [Next]_vars, ZenonT(30) DEF Next
<1>3. IInv /\ CoverInv => DriverCoversFrame
  <2> SUFFICES ASSUME IInv, CoverInv, Prompt, shift # <<>>
               PROVE  isr # "none" /\ (pin > 0 => pin \in driven)
    BY DEF DriverCoversFrame, Prompt
  <2>1. QED  BY ZenonT(30) DEF CoverInv
<1>4. QED  BY <1>1, <1>2, <1>3, Invariance, PTL DEF Spec
=============================================================================
