---------------------------- MODULE TimerProofs -----------------------------
(***************************************************************************)
(* Proofs about the clock and the tone generator, which both count the     *)
(* interrupts of a timer.                                                  *)
(*                                                                         *)
(* The clock, for every rate of the timer, every width of the counters and *)
(* every delay: millis() and micros() tell the time, through any number of *)
(* overflows, and delay() is never early.                                  *)
(*                                                                         *)
(* tone() and noTone(), for every set of pins, every width of the toggle   *)
(* count and every count asked for, as long as no interrupt has ended or   *)
(* counted down a tone that was being replaced.                            *)
(***************************************************************************)
EXTENDS Wiring, Tone, TLAPS

-----------------------------------------------------------------------------
(***************************************************************************)
(* The clock (Wiring).                                                     *)
(***************************************************************************)

-----------------------------------------------------------------------------
(* Arithmetic.                                                              *)

\* Quotient and remainder exist.
LEMMA Divides ==
  ASSUME NEW a \in Int, NEW n \in Nat \ {0}
  PROVE  a \div n \in Int /\ a % n \in 0..(n - 1) /\ a = (a \div n) * n + (a % n)
<1>1. a % n \in 0..(n - 1)  BY SMT
<1>2. a \div n \in Int  BY SMT
<1>3. a = (a \div n) * n + (a % n)  BY SMT
<1> QED  BY ONLY <1>1, <1>2, <1>3

\* They are the only ones.
LEMMA Quotient ==
  ASSUME NEW a \in Int, NEW n \in Nat \ {0}, NEW q \in Int, NEW r \in 0..(n - 1),
         a = q * n + r
  PROVE  a % n = r /\ a \div n = q
<1> DEFINE p == a \div n
           s == a % n
<1>1. p \in Int /\ s \in 0..(n - 1) /\ a = p * n + s  BY Divides, Zenon
<1> HIDE DEF p, s
<1>2. (p - q) * n = r - s  BY <1>1
<1>3. p - q < 1
  <2> SUFFICES ASSUME p - q >= 1 PROVE FALSE  BY <1>1
  <2>1. (p - q) * n >= n  BY <1>1, SMT
  <2> QED  BY <1>1, <1>2, <2>1
<1>4. p - q > -1
  <2> SUFFICES ASSUME p - q <= -1 PROVE FALSE  BY <1>1
  <2>1. (p - q) * n <= -n  BY <1>1, SMT
  <2> QED  BY <1>1, <1>2, <2>1
<1>5. p = q  BY <1>1, <1>3, <1>4
<1>6. r = s  BY <1>1, <1>2, <1>5
<1> QED  BY <1>5, <1>6 DEF p, s

\* a and b are a multiple of n apart.
Congruent(a, b, n) == \E k \in Int : a = b + k * n

\* Congruent numbers have the same remainder.
LEMMA SameRemainder ==
  ASSUME NEW a \in Int, NEW b \in Int, NEW n \in Nat \ {0}, Congruent(a, b, n)
  PROVE  a % n = b % n
<1> DEFINE q == b \div n
           r == b % n
<1>1. q \in Int /\ r \in 0..(n - 1) /\ b = q * n + r  BY Divides, Zenon
<1> HIDE DEF q, r
<1>2. PICK k \in Int : a = b + k * n  BY DEF Congruent
<1>3. a = (q + k) * n + r  BY <1>1, <1>2
<1>4. q + k \in Int  BY <1>1
<1>5. a % n = r  BY ONLY <1>1, <1>3, <1>4, Quotient, a \in Int, n \in Nat \ {0}
<1> QED  BY <1>5 DEF r

Us == MICROSECONDS_PER_TIMER0_OVERFLOW

\* Ticks in which timer0_overflow_count wraps.
Turn == LongSize * TOP

\* What the assumption says of the constants.
LEMMA Constants ==
  /\ TOP \in Nat \ {0} /\ TickUs \in Nat \ {0} /\ MS \in Nat \ {0} /\ FractUnit \in Nat \ {0}
  /\ LongSize \in Nat \ {0} /\ IntSize \in Nat \ {0}
  /\ TOP > 2 /\ Latency \in 1..(TOP - 2)
  BY ClockAssumption

\* Products of the sizes are sizes.
LEMMA Products ==
  /\ Us \in Nat /\ Us = TOP * TickUs /\ Turn \in Nat \ {0} /\ LongSize * MS \in Nat \ {0}
  /\ Period \in Nat \ {0} /\ Period = MS * Turn
<1>1. TOP * TickUs \in Nat  BY Constants
<1>2. LongSize * TOP \in Nat \ {0}  BY Constants, SMT
<1>3. LongSize * MS \in Nat \ {0}  BY Constants, SMT
<1>4. LongSize * MS * TOP = MS * (LongSize * TOP)  BY Constants
<1>5. MS * (LongSize * TOP) \in Nat \ {0}  BY Constants, <1>2, SMT
<1> QED  BY ONLY <1>1, <1>2, <1>3, <1>4, <1>5
         DEF Us, MICROSECONDS_PER_TIMER0_OVERFLOW, Turn, Period

\* An overflow is MILLIS_INC milliseconds and FRACT_INC units, exactly.
LEMMA OverflowParts ==
  /\ MILLIS_INC \in Int /\ FRACT_INC \in Int /\ FRACT_MAX \in Int
  /\ Us = MILLIS_INC * MS + FRACT_INC * FractUnit
  /\ FRACT_MAX * FractUnit = MS /\ FRACT_MAX > 0 /\ 0 <= FRACT_INC /\ FRACT_INC < FRACT_MAX
<1> DEFINE F == FractUnit
           a == Us \div F
           b == MS \div F
           q == Us \div MS
           r == Us % MS
<1>1. F \in Nat \ {0} /\ MS \in Nat \ {0} /\ Us \in Int  BY Constants, Products
<1>2. Us % F = 0 /\ MS % F = 0  BY ClockAssumption DEF Us
<1>3. a \in Int /\ Us = a * F + (Us % F)  BY ONLY <1>1, Divides
<1>4. b \in Int /\ MS = b * F + (MS % F)  BY ONLY <1>1, Divides
<1>5. q \in Int /\ r \in 0..(MS - 1) /\ Us = q * MS + r  BY ONLY <1>1, Divides
<1>6. MILLIS_INC = q /\ FRACT_INC = r \div F /\ FRACT_MAX = b
  BY DEF MILLIS_INC, FRACT_INC, FRACT_MAX, Us
<1> HIDE DEF a, b, q, r
<1>7. Us = a * F /\ MS = b * F  BY ONLY <1>1, <1>2, <1>3, <1>4
<1>8. r = (a - q * b) * F
  <2>1. q * (b * F) = (q * b) * F  BY ONLY <1>1, <1>4, <1>5
  <2>2. (a - q * b) * F = a * F - (q * b) * F  BY ONLY <1>1, <1>3, <1>4, <1>5
  <2>3. r = Us - q * MS  BY ONLY <1>1, <1>5
  <2> QED  BY ONLY <1>7, <2>1, <2>2, <2>3
<1>9. a - q * b \in Int /\ r \in Int  BY ONLY <1>1, <1>3, <1>4, <1>5
<1>10. r \div F = a - q * b
  <2>1. r = (a - q * b) * F + 0 /\ 0 \in 0..(F - 1)  BY ONLY <1>1, <1>8, <1>9
  <2> QED  BY ONLY <1>1, <1>9, <2>1, Quotient
<1>11. r = FRACT_INC * F /\ FRACT_INC \in Int  BY ONLY <1>6, <1>8, <1>9, <1>10
<1>12. b > 0
  <2> SUFFICES ASSUME b <= 0 PROVE FALSE  BY <1>4
  <2>1. b * F <= 0  BY ONLY <1>1, <1>4, b <= 0, SMT
  <2> QED  BY ONLY <1>1, <1>7, <2>1
<1>13. 0 <= FRACT_INC
  <2> SUFFICES ASSUME FRACT_INC <= -1 PROVE FALSE  BY <1>11
  <2>1. FRACT_INC * F <= -F  BY ONLY <1>1, <1>11, FRACT_INC <= -1, SMT
  <2> QED  BY ONLY <1>1, <1>5, <1>11, <2>1
<1>14. FRACT_INC < b
  <2> SUFFICES ASSUME FRACT_INC >= b PROVE FALSE  BY <1>4, <1>11
  <2>1. FRACT_INC * F >= b * F  BY ONLY <1>1, <1>4, <1>11, FRACT_INC >= b, SMT
  <2> QED  BY ONLY <1>1, <1>4, <1>5, <1>7, <1>11, <2>1
<1> QED  BY ONLY <1>4, <1>5, <1>6, <1>7, <1>11, <1>12, <1>13, <1>14

-----------------------------------------------------------------------------
(* The inductive invariant.                                                 *)

\* What the flow of control makes sure of for the types.
FlowInv ==
  /\ pc = "poll" => caller = "none"
  /\ caller = "poll" => ms > 0
  /\ caller = "delay" => ms = total

\* The timer, and the overflow that is pending.
Over == IF TOV0 THEN 1 ELSE 0

TicksAre(k) == now = (timer0_overflow_count + Over) * TOP + TCNT0 + k * Turn

MicrosecondsAre(k, j) ==
  (timer0_overflow_count + k * LongSize) * Us
    = timer0_millis * MS + timer0_fract * FractUnit + j * (LongSize * MS)

\* The counters of the handler are the time, up to whole turns of them.
TimeInv ==
  /\ TOV0 => TCNT0 <= Latency
  /\ \E k, j \in Int : TicksAre(k) /\ MicrosecondsAre(k, j)

\* The time micros() has read, with the overflow it will take into account.
Pending == IF TOV0 /\ t < TOP - 1 THEN 1 ELSE 0

ReadIs(k) == asOf = (m + Pending) * TOP + t + k * Turn

\* The time passed since.
LagIs(l) == now = asOf + l \/ now + Period = asOf + l

ReadInv ==
  /\ pc \in {"tcnt", "test"} => m = timer0_overflow_count
  /\ pc = "test" /\ since = 0 => t = TCNT0 /\ asOf = now
  /\ pc = "test" => \E k \in Int : ReadIs(k)

LagInv ==
  pc = "test" =>
    \E l \in {0, 1} : LagIs(l) /\ (caller = "poll" => Uncounted - l * TickUs >= 0)

\* start is the time of the last millisecond counted, in the 16 bits kept.
StartIs(k) == start + k * IntSize = (now - waited) * TickUs + (total - ms) * MS

DelayInv ==
  Waiting => /\ Uncounted >= 0 /\ Uncounted < IntSize
             /\ \E k \in Int : StartIs(k)

ClockInv == TypeOK /\ FlowInv /\ TimeInv /\ ReadInv /\ LagInv /\ DelayInv

-----------------------------------------------------------------------------
(* Types.                                                                   *)

\* The remainders the code stores.
LEMMA Remainders ==
  ASSUME TypeOK
  PROVE  /\ (now + 1) % Period \in 0..(Period - 1) /\ (TCNT0 + 1) % TOP \in 0..(TOP - 1)
         /\ (timer0_overflow_count + 1) % LongSize \in 0..(LongSize - 1)
         /\ \A n \in Int : n % LongSize \in 0..(LongSize - 1) /\ n % IntSize \in 0..(IntSize - 1)
<1>1. /\ now + 1 \in Int /\ TCNT0 + 1 \in Int /\ timer0_overflow_count + 1 \in Int
  BY DEF TypeOK
<1> QED  BY ONLY <1>1, Divides, Constants, Products, Zenon

\* micros() returns an unsigned long.
LEMMA MicrosType ==
  ASSUME TypeOK
  PROVE  /\ Overflows \in 0..(LongSize - 1) /\ (Overflows * TOP + t) * TickUs \in Int
         /\ Micros \in 0..(LongSize - 1) /\ Micros % IntSize \in 0..(IntSize - 1)
<1>1. m \in 0..(LongSize - 1) /\ t \in 0..(TOP - 1)  BY DEF TypeOK
<1>2. LongSize \in Nat \ {0} /\ TOP \in Nat /\ TickUs \in Nat  BY Constants
<1>3. m + 1 \in Int  BY ONLY <1>1
<1>4. Overflows \in 0..(LongSize - 1)
  BY ONLY <1>1, <1>3, Remainders, TypeOK DEF Overflows
<1>5. (Overflows * TOP + t) * TickUs \in Int
  <2>1. Overflows \in Int /\ t \in Int  BY ONLY <1>1, <1>2, <1>4
  <2>2. Overflows * TOP \in Int  BY ONLY <1>2, <2>1
  <2>3. Overflows * TOP + t \in Int  BY ONLY <2>1, <2>2
  <2> QED  BY ONLY <1>2, <2>3
<1>6. Micros \in 0..(LongSize - 1)  BY ONLY <1>5, Remainders, TypeOK DEF Micros
<1>7. Micros \in Int  BY ONLY <1>2, <1>6
<1> QED  BY ONLY <1>4, <1>5, <1>6, <1>7, Remainders, TypeOK

\* Every step keeps the types and the flow.
LEMMA StepClockType ==
  ASSUME TypeOK, FlowInv, [Next]_vars
  PROVE  TypeOK' /\ FlowInv'
<1> DEFINE Codes == {"sketch", "count", "tcnt", "test", "poll"}
           Callers == {"none", "sketch", "delay", "poll"}
<1>1. /\ now \in 0..(Period - 1) /\ asOf \in 0..(Period - 1)
      /\ TCNT0 \in 0..(TOP - 1) /\ t \in 0..(TOP - 1) /\ TOV0 \in BOOLEAN
      /\ timer0_overflow_count \in 0..(LongSize - 1) /\ m \in 0..(LongSize - 1)
      /\ timer0_millis \in 0..(LongSize - 1) /\ timer0_fract \in 0..(FRACT_MAX - 1)
      /\ pc \in Codes /\ caller \in Callers
      /\ start \in 0..(IntSize - 1) /\ ms \in 0..total /\ total \in Delays \cup {0}
      /\ waited \in Nat /\ since \in 0..1
  BY DEF TypeOK
<1>2. /\ 0 \in 0..(Period - 1) /\ 0 \in 0..(TOP - 1) /\ 0 \in 0..(LongSize - 1)
      /\ 0 \in 0..(IntSize - 1) /\ 0 \in 0..1 /\ 1 \in 0..1 /\ Delays \subseteq Nat
  BY Constants, Products, ClockAssumption
<1>3. total \in Nat  BY ONLY <1>1, <1>2
<1>4. CASE UNCHANGED vars
  BY ONLY <1>4, TypeOK, FlowInv, Zenon DEF vars, timer, clock, locals, waiting, TypeOK, FlowInv
<1>5. CASE Tick
  <2>1. /\ now' = (now + 1) % Period /\ TCNT0' = (TCNT0 + 1) % TOP
        /\ TOV0' = (TOV0 \/ TCNT0 = TOP - 1)
        /\ since' = IF pc \in {"tcnt", "test"} THEN 1 ELSE 0
        /\ waited' = IF Waiting THEN waited + 1 ELSE 0
        /\ UNCHANGED <<clock, pc, caller, locals, waiting>>
    BY ONLY <1>5 DEF Tick
  <2>2. now' \in 0..(Period - 1) /\ TCNT0' \in 0..(TOP - 1)
    BY ONLY <2>1, Remainders, TypeOK
  <2>3. TOV0' \in BOOLEAN  BY ONLY <2>1, Zenon
  <2>4. since' \in 0..1 /\ waited' \in Nat  BY ONLY <1>1, <2>1
  <2> QED  BY ONLY <1>1, <2>1, <2>2, <2>3, <2>4, FlowInv, Zenon
           DEF TypeOK, FlowInv, clock, locals, waiting
<1>6. CASE TIMER0_OVF_vect
  <2> DEFINE f == timer0_fract + FRACT_INC
             n == timer0_millis + MILLIS_INC + (IF f >= FRACT_MAX THEN 1 ELSE 0)
  <2>1. /\ TOV0' = FALSE /\ timer0_fract' = IF f >= FRACT_MAX THEN f - FRACT_MAX ELSE f
        /\ timer0_millis' = n % LongSize
        /\ timer0_overflow_count' = (timer0_overflow_count + 1) % LongSize
        /\ UNCHANGED <<now, TCNT0, pc, caller, locals, waiting, waited, since>>
    BY ONLY <1>6 DEF TIMER0_OVF_vect
  <2>2. timer0_fract' \in 0..(FRACT_MAX - 1)  BY ONLY <1>1, <2>1, OverflowParts
  <2>3. n \in Int  BY ONLY <1>1, OverflowParts
  <2>4. timer0_millis' \in 0..(LongSize - 1)  BY ONLY <2>1, <2>3, Remainders, TypeOK
  <2>5. timer0_overflow_count' \in 0..(LongSize - 1)  BY ONLY <2>1, Remainders, TypeOK
  <2>6. TOV0' \in BOOLEAN /\ UNCHANGED <<now, TCNT0, pc, caller, locals, waiting, waited, since>>
    BY ONLY <2>1, Zenon
  <2> HIDE DEF n, f
  <2> QED  BY ONLY <1>1, <2>2, <2>4, <2>5, <2>6, FlowInv, Zenon DEF TypeOK, FlowInv, locals, waiting
<1>7. CASE micros
  BY ONLY <1>1, <1>2, <1>7, FlowInv DEF micros, TypeOK, FlowInv, timer, clock, locals, waiting
<1>8. ASSUME NEW n \in Delays, delay(n) PROVE TypeOK' /\ FlowInv'
  <2>1. n \in 0..n  BY ONLY <1>2, n \in Delays
  <2> QED  BY ONLY <1>1, <1>2, <1>8, <2>1, FlowInv DEF delay, TypeOK, FlowInv, timer, clock, locals
<1>9. CASE ReadCount
  BY ONLY <1>1, <1>2, <1>9, FlowInv DEF ReadCount, TypeOK, FlowInv, timer, clock, waiting
<1>10. CASE ReadTCNT0
  BY ONLY <1>1, <1>10, FlowInv DEF ReadTCNT0, TypeOK, FlowInv, timer, clock, waiting
<1>11. CASE MicrosReturns
  BY ONLY <1>1, <1>2, <1>11, FlowInv DEF MicrosReturns, TypeOK, FlowInv, timer, clock, waiting
<1>12. CASE DelayStarts
  <2>1. start' \in 0..(IntSize - 1)  BY ONLY <1>12, MicrosType, TypeOK DEF DelayStarts
  <2>2. waited' \in Nat  BY ONLY <1>1, <1>12, Products DEF DelayStarts
  <2> QED  BY ONLY <1>1, <1>2, <1>12, <2>1, <2>2 DEF DelayStarts, TypeOK, FlowInv, timer, clock
<1>13. CASE DelayLooks
  BY ONLY <1>1, <1>13 DEF DelayLooks, TypeOK, FlowInv, timer, clock, locals, waiting
<1>14. CASE DelayCounts
  <2>1. ms > 0  BY ONLY <1>14, FlowInv DEF DelayCounts, FlowInv
  <2>2. ms' \in 0..total  BY ONLY <1>1, <1>3, <1>14, <2>1 DEF DelayCounts
  <2>3. start + MS \in Int  BY ONLY <1>1, Constants
  <2>4. (start + MS) % IntSize \in 0..(IntSize - 1)  BY ONLY <2>3, Remainders, TypeOK
  <2>5. start' \in 0..(IntSize - 1)  BY ONLY <1>1, <1>14, <2>4 DEF DelayCounts
  <2>6. /\ pc' = "poll" /\ caller' = "none" /\ since' = 0 /\ m' = 0 /\ t' = 0 /\ asOf' = 0
        /\ UNCHANGED <<now, timer, clock, total, waited>>
    BY ONLY <1>14 DEF DelayCounts
  <2> QED  BY ONLY <1>1, <1>2, <2>2, <2>5, <2>6 DEF TypeOK, FlowInv, timer, clock
<1>15. CASE DelayReturns
  <2>1. 0 \in 0..0  OBVIOUS
  <2> QED  BY ONLY <1>1, <1>2, <1>15, <2>1, FlowInv DEF DelayReturns, TypeOK, FlowInv, timer, clock, locals
<1> QED
  BY ONLY [Next]_vars, <1>4, <1>5, <1>6, <1>7, <1>8, <1>9, <1>10, <1>11, <1>12, <1>13,
          <1>14, <1>15, Zenon
  DEF Next, Sketch, InCall

-----------------------------------------------------------------------------
(* The time.                                                                *)

\* now and the timer after a tick.
LEMMA TickCounts ==
  ASSUME TypeOK, TOV0 => TCNT0 <= Latency, Tick
  PROVE  /\ now' = now + 1 \/ now' = now + 1 - Period
         /\ TOV0' => TCNT0' <= Latency
         /\ (timer0_overflow_count + Over') * TOP + TCNT0'
              = (timer0_overflow_count + Over) * TOP + TCNT0 + 1
<1>1. /\ now \in 0..(Period - 1) /\ TCNT0 \in 0..(TOP - 1) /\ TOV0 \in BOOLEAN
      /\ timer0_overflow_count \in Int
  BY Constants DEF TypeOK
<1>2. /\ TOP \in Nat \ {0} /\ TOP > 2 /\ Latency \in 1..(TOP - 2) /\ Period \in Nat \ {0}
  BY Constants, Products
<1>3. /\ TOV0 => TCNT0 < Latency
      /\ now' = (now + 1) % Period /\ TCNT0' = (TCNT0 + 1) % TOP
      /\ TOV0' = (TOV0 \/ TCNT0 = TOP - 1)
  BY ONLY Tick DEF Tick
<1>4. now' = now + 1 \/ now' = now + 1 - Period
  <2>1. CASE now + 1 < Period
    <3>1. now + 1 \in Int /\ now + 1 \in 0..(Period - 1) /\ now + 1 = 0 * Period + (now + 1)
      BY ONLY <1>1, <1>2, <2>1
    <3>2. (now + 1) % Period = now + 1  BY ONLY <1>2, <3>1, Quotient, 0 \in Int
    <3> QED  BY ONLY <1>3, <3>2
  <2>2. CASE now + 1 = Period
    <3>1. now + 1 \in Int /\ 0 \in 0..(Period - 1) /\ now + 1 = 1 * Period + 0
      BY ONLY <1>1, <1>2, <2>2
    <3>2. (now + 1) % Period = 0  BY ONLY <1>2, <3>1, Quotient, 1 \in Int
    <3>3. now' = 0  BY ONLY <1>3, <3>2, Zenon
    <3>4. now + 1 - Period = 0  BY ONLY <1>1, <1>2, <2>2
    <3> QED  BY ONLY <3>3, <3>4
  <2>3. now + 1 < Period \/ now + 1 = Period  BY ONLY <1>1, <1>2
  <2> QED  BY ONLY <2>1, <2>2, <2>3, Zenon
<1>5. CASE TCNT0 = TOP - 1
  <2>1. TCNT0 + 1 \in Int /\ 0 \in 0..(TOP - 1) /\ TCNT0 + 1 = 1 * TOP + 0
    BY ONLY <1>1, <1>2, <1>5
  <2>2. TCNT0' = 0  BY ONLY <1>2, <1>3, <2>1, Quotient, 1 \in Int
  <2>3. ~TOV0 /\ TOV0'
    <3>1. ~(TCNT0 < Latency)  BY ONLY <1>1, <1>2, <1>5
    <3> QED  BY ONLY <1>3, <1>5, <3>1, Zenon
  <2>4. Over = 0 /\ Over' = 1  BY ONLY <2>3 DEF Over
  <2>5. (timer0_overflow_count + 1) * TOP = (timer0_overflow_count + 0) * TOP + TOP
    BY ONLY <1>1, <1>2
  <2>6. (timer0_overflow_count + 0) * TOP \in Int  BY ONLY <1>1, <1>2
  <2>7. (timer0_overflow_count + Over') * TOP + TCNT0'
          = (timer0_overflow_count + Over) * TOP + TCNT0 + 1
    BY ONLY <1>2, <1>5, <2>2, <2>4, <2>5, <2>6
  <2> QED  BY ONLY <1>2, <1>4, <2>2, <2>7
<1>6. CASE TCNT0 # TOP - 1
  <2>1. TCNT0 + 1 \in Int /\ TCNT0 + 1 \in 0..(TOP - 1) /\ TCNT0 + 1 = 0 * TOP + (TCNT0 + 1)
    BY ONLY <1>1, <1>2, <1>6
  <2>2. TCNT0' = TCNT0 + 1
    <3>1. (TCNT0 + 1) % TOP = TCNT0 + 1  BY ONLY <1>2, <2>1, Quotient, 0 \in Int
    <3> QED  BY ONLY <1>3, <3>1, Zenon
  <2>3. TOV0' = TOV0  BY ONLY <1>1, <1>3, <1>6, Zenon
  <2>4. Over' = Over /\ Over \in Int  BY ONLY <2>3 DEF Over
  <2>5. TOV0' => TCNT0' <= Latency  BY ONLY <1>1, <1>2, <1>3, <2>2, <2>3
  <2>6. (timer0_overflow_count + Over) * TOP \in Int  BY ONLY <1>1, <1>2, <2>4
  <2>7. (timer0_overflow_count + Over') * TOP + TCNT0'
          = (timer0_overflow_count + Over) * TOP + TCNT0 + 1
    BY ONLY <1>1, <2>2, <2>4, <2>6
  <2> QED  BY ONLY <1>4, <2>5, <2>7
<1> QED  BY ONLY <1>5, <1>6

\* A whole Period is MS turns of the overflow count and Us turns of millis.
LEMMA TimeWraps ==
  ASSUME NEW k \in Int, NEW j \in Int, NEW n \in Int
  PROVE  /\ k - MS \in Int /\ j - Us \in Int
         /\ (k - MS) * Turn = k * Turn - Period
         /\ (n + (k - MS) * LongSize) * Us = (n + k * LongSize) * Us - Us * (LongSize * MS)
         /\ (j - Us) * (LongSize * MS) = j * (LongSize * MS) - Us * (LongSize * MS)
<1>1. MS \in Int /\ LongSize \in Int /\ Us \in Int /\ Turn \in Int /\ LongSize * MS \in Int
  BY Constants, Products
<1>2. (k - MS) * Turn = k * Turn - MS * Turn  BY ONLY <1>1, k \in Int
<1>3. Period = MS * Turn  BY Products
<1>4. (j - Us) * (LongSize * MS) = j * (LongSize * MS) - Us * (LongSize * MS)
  BY ONLY <1>1, j \in Int
<1>5. (k - MS) * LongSize = k * LongSize - LongSize * MS  BY ONLY <1>1, k \in Int
<1>6. k * LongSize \in Int  BY ONLY <1>1, k \in Int
<1>7. n + (k - MS) * LongSize = (n + k * LongSize) - LongSize * MS
  BY ONLY <1>1, <1>5, <1>6, n \in Int
<1>8. n + k * LongSize \in Int  BY ONLY <1>6, n \in Int
<1>9. ((n + k * LongSize) - LongSize * MS) * Us
        = (n + k * LongSize) * Us - Us * (LongSize * MS)
  BY ONLY <1>1, <1>8
<1>10. k - MS \in Int /\ j - Us \in Int  BY ONLY <1>1, k \in Int, j \in Int
<1> QED  BY ONLY <1>2, <1>3, <1>4, <1>7, <1>9, <1>10

\* A tick keeps the time.
LEMMA TickTime ==
  ASSUME TypeOK, TimeInv, Tick
  PROVE  TimeInv'
<1> DEFINE c == timer0_overflow_count
<1>1. /\ now \in Int /\ TCNT0 \in Int /\ c \in Int /\ Over \in Int
      /\ timer0_millis \in Int /\ timer0_fract \in Int
  BY Constants, Products, OverflowParts DEF TypeOK, Over
<1>2. TOV0 => TCNT0 <= Latency  BY DEF TimeInv
<1>3. PICK k \in Int, j \in Int : TicksAre(k) /\ MicrosecondsAre(k, j)  BY DEF TimeInv
<1>4. /\ now' = now + 1 \/ now' = now + 1 - Period
      /\ TOV0' => TCNT0' <= Latency
      /\ (c + Over') * TOP + TCNT0' = (c + Over) * TOP + TCNT0 + 1
  BY ONLY <1>2, TickCounts, TypeOK, Tick
<1>5. UNCHANGED <<timer0_overflow_count, timer0_millis, timer0_fract>>
  BY ONLY Tick DEF Tick, clock
<1>6. /\ (c + Over) * TOP + TCNT0 \in Int /\ k * Turn \in Int /\ Period \in Int
  <2>1. TOP \in Int /\ Turn \in Int /\ Period \in Int  BY Constants, Products
  <2> QED  BY ONLY <1>1, <2>1, k \in Int
<1>7. now = (c + Over) * TOP + TCNT0 + k * Turn  BY ONLY <1>3 DEF TicksAre
<1>8. CASE now' = now + 1
  <2>1. now' = (c + Over') * TOP + TCNT0' + k * Turn
    BY ONLY <1>4, <1>6, <1>7, <1>8
  <2>2. TicksAre(k)'  BY ONLY <1>5, <2>1 DEF TicksAre
  <2>3. MicrosecondsAre(k, j)'  BY ONLY <1>3, <1>5 DEF MicrosecondsAre
  <2> QED  BY ONLY <1>4, <2>2, <2>3, Zenon, k \in Int, j \in Int DEF TimeInv
<1>9. CASE now' = now + 1 - Period
  <2>1. /\ k - MS \in Int /\ j - Us \in Int
        /\ (k - MS) * Turn = k * Turn - Period
        /\ (c + (k - MS) * LongSize) * Us = (c + k * LongSize) * Us - Us * (LongSize * MS)
        /\ (j - Us) * (LongSize * MS) = j * (LongSize * MS) - Us * (LongSize * MS)
    BY ONLY <1>1, TimeWraps
  <2>2. now' = (c + Over') * TOP + TCNT0' + (k - MS) * Turn
    BY ONLY <1>4, <1>6, <1>7, <1>9, <2>1
  <2>3. TicksAre(k - MS)'  BY ONLY <1>5, <2>2 DEF TicksAre
  <2>4. (c + k * LongSize) * Us
          = timer0_millis * MS + timer0_fract * FractUnit + j * (LongSize * MS)
    BY ONLY <1>3 DEF MicrosecondsAre
  <2>5. /\ timer0_millis * MS + timer0_fract * FractUnit \in Int
        /\ j * (LongSize * MS) \in Int /\ Us * (LongSize * MS) \in Int
    <3>1. MS \in Int /\ FractUnit \in Int /\ LongSize * MS \in Int /\ Us \in Int
      BY Constants, Products
    <3> QED  BY ONLY <1>1, <3>1, j \in Int
  <2>6. (c + (k - MS) * LongSize) * Us
          = timer0_millis * MS + timer0_fract * FractUnit + (j - Us) * (LongSize * MS)
    BY ONLY <2>1, <2>4, <2>5
  <2>7. MicrosecondsAre(k - MS, j - Us)'  BY ONLY <1>5, <2>6 DEF MicrosecondsAre
  <2> QED  BY ONLY <1>4, <2>1, <2>3, <2>7, Zenon DEF TimeInv
<1> QED  BY ONLY <1>4, <1>8, <1>9

\* The overflow count takes up the pending overflow.
LEMMA OverflowTicks ==
  ASSUME NEW c \in Int, NEW e \in Int, NEW d \in Int, NEW k \in Int, c + 1 = e * LongSize + d
  PROVE  /\ k + e \in Int
         /\ d * TOP + (k + e) * Turn = (c + 1) * TOP + k * Turn
         /\ (d + (k + e) * LongSize) * Us = (c + k * LongSize) * Us + Us
<1>1. TOP \in Int /\ LongSize \in Int /\ Us \in Int /\ Turn = LongSize * TOP
  BY Constants, Products DEF Turn
<1>2. (e * LongSize + d) * TOP = e * (LongSize * TOP) + d * TOP  BY ONLY <1>1, e \in Int, d \in Int
<1>3. (k + e) * (LongSize * TOP) = k * (LongSize * TOP) + e * (LongSize * TOP)
  <2>1. LongSize * TOP \in Int  BY ONLY <1>1
  <2> QED  BY ONLY <2>1, e \in Int, k \in Int
<1>4. d * TOP \in Int /\ e * (LongSize * TOP) \in Int /\ k * (LongSize * TOP) \in Int
  <2>1. LongSize * TOP \in Int  BY ONLY <1>1
  <2> QED  BY ONLY <1>1, <2>1, d \in Int, e \in Int, k \in Int
<1>5. d * TOP + (k + e) * Turn = (c + 1) * TOP + k * Turn
  BY ONLY <1>1, <1>2, <1>3, <1>4, c + 1 = e * LongSize + d
<1>6. (k + e) * LongSize = k * LongSize + e * LongSize  BY ONLY <1>1, e \in Int, k \in Int
<1>7. k * LongSize \in Int /\ e * LongSize \in Int  BY ONLY <1>1, e \in Int, k \in Int
<1>8. d + (k + e) * LongSize = (c + k * LongSize) + 1
  BY ONLY <1>6, <1>7, c + 1 = e * LongSize + d, c \in Int, d \in Int
<1>9. c + k * LongSize \in Int  BY ONLY <1>7, c \in Int
<1>10. ((c + k * LongSize) + 1) * Us = (c + k * LongSize) * Us + Us  BY ONLY <1>1, <1>9
<1> QED  BY ONLY <1>5, <1>8, <1>10, k \in Int, e \in Int

\* The handler's sums of milliseconds and of units of the fraction add up to
\* the length of an overflow.
LEMMA OverflowMicroseconds ==
  ASSUME NEW a \in Int, NEW f \in Int, NEW j \in Int, NEW carry \in {0, 1},
         NEW d \in Int, NEW b \in Int, a + MILLIS_INC + carry = d * LongSize + b
  PROVE  /\ j + d \in Int
         /\ (a * MS + f * FractUnit + j * (LongSize * MS)) + Us
              = b * MS + (f + FRACT_INC - carry * FRACT_MAX) * FractUnit
                + (j + d) * (LongSize * MS)
<1> DEFINE F == FractUnit
           LM == LongSize * MS
<1>1. /\ MS \in Int /\ F \in Int /\ LongSize \in Int /\ LM \in Int
      /\ MILLIS_INC \in Int /\ FRACT_INC \in Int /\ FRACT_MAX \in Int
  BY Constants, Products, OverflowParts
<1>2. Us = MILLIS_INC * MS + FRACT_INC * F /\ FRACT_MAX * F = MS  BY OverflowParts
<1>3. (a + MILLIS_INC + carry) * MS = a * MS + MILLIS_INC * MS + carry * MS
  BY ONLY <1>1, a \in Int, carry \in {0, 1}
<1>4. (d * LongSize + b) * MS = d * LM + b * MS
  BY ONLY <1>1, d \in Int, b \in Int
<1>5. (f + FRACT_INC - carry * FRACT_MAX) * F = f * F + FRACT_INC * F - carry * MS
  <2>1. CASE carry = 0
    <3>1. (f + FRACT_INC - 0) * F = f * F + FRACT_INC * F  BY ONLY <1>1, f \in Int
    <3>2. 0 * FRACT_MAX = 0 /\ 0 * MS = 0  BY ONLY <1>1
    <3>3. f * F \in Int /\ FRACT_INC * F \in Int  BY ONLY <1>1, f \in Int
    <3> QED  BY ONLY <2>1, <3>1, <3>2, <3>3
  <2>2. CASE carry = 1
    <3>1. (f + FRACT_INC - FRACT_MAX) * F = f * F + FRACT_INC * F - FRACT_MAX * F
      BY ONLY <1>1, f \in Int
    <3>2. 1 * FRACT_MAX = FRACT_MAX /\ 1 * MS = MS  BY ONLY <1>1
    <3> QED  BY ONLY <1>2, <2>2, <3>1, <3>2
  <2> QED  BY ONLY <2>1, <2>2, carry \in {0, 1}
<1>6. (j + d) * LM = j * LM + d * LM
  <2> HIDE DEF LM
  <2> QED  BY ONLY <1>1, j \in Int, d \in Int
<1>7. /\ a * MS \in Int /\ MILLIS_INC * MS \in Int /\ carry * MS \in Int /\ b * MS \in Int
      /\ f * F \in Int /\ FRACT_INC * F \in Int /\ j * LM \in Int /\ d * LM \in Int
  <2> HIDE DEF LM
  <2> QED  BY ONLY <1>1, a \in Int, b \in Int, f \in Int, j \in Int, d \in Int, carry \in {0, 1}
<1>8. a * MS + MILLIS_INC * MS + carry * MS = d * LM + b * MS
  BY ONLY <1>3, <1>4, a + MILLIS_INC + carry = d * LongSize + b
<1> HIDE DEF LM
<1>9. (a * MS + f * F + j * LM) + Us
        = b * MS + (f + FRACT_INC - carry * FRACT_MAX) * F + (j + d) * LM
  BY ONLY <1>2, <1>5, <1>6, <1>7, <1>8
<1> QED  BY <1>9 DEF LM

\* The handler keeps the time.
LEMMA OverflowTime ==
  ASSUME TypeOK, TimeInv, TIMER0_OVF_vect
  PROVE  TimeInv'
<1> DEFINE f == timer0_fract + FRACT_INC
<1>1. /\ now \in Int /\ TCNT0 \in Int /\ timer0_overflow_count \in Int
      /\ timer0_millis \in Int /\ timer0_fract \in Int
      /\ LongSize \in Nat \ {0} /\ FRACT_INC \in Int /\ MILLIS_INC \in Int /\ FRACT_MAX \in Int
  BY Constants, Products, OverflowParts DEF TypeOK
<1>2. PICK k \in Int, j \in Int : TicksAre(k) /\ MicrosecondsAre(k, j)  BY DEF TimeInv
<1>3. PICK c \in Int, a \in Int, g \in Int :
        c = timer0_overflow_count /\ a = timer0_millis /\ g = timer0_fract
  BY ONLY <1>1, Zenon
<1>4. PICK carry \in {0, 1} : carry = IF f >= FRACT_MAX THEN 1 ELSE 0  OBVIOUS
<1>5. /\ TOV0 /\ TOV0' = FALSE /\ timer0_fract' = IF f >= FRACT_MAX THEN f - FRACT_MAX ELSE f
      /\ timer0_millis' = (a + MILLIS_INC + carry) % LongSize
      /\ timer0_overflow_count' = (c + 1) % LongSize
      /\ UNCHANGED <<now, TCNT0>>
  BY ONLY <1>3, <1>4, TIMER0_OVF_vect DEF TIMER0_OVF_vect
<1>6. timer0_fract' = g + FRACT_INC - carry * FRACT_MAX
  BY ONLY <1>1, <1>3, <1>4, <1>5
<1>7. PICK e \in Int, d \in Int : timer0_overflow_count' = d /\ c + 1 = e * LongSize + d
  <2>1. c + 1 \in Int  BY ONLY c \in Int
  <2>2. /\ (c + 1) \div LongSize \in Int /\ (c + 1) % LongSize \in 0..(LongSize - 1)
        /\ c + 1 = ((c + 1) \div LongSize) * LongSize + ((c + 1) % LongSize)
    BY ONLY <1>1, <2>1, Divides, Zenon
  <2>3. (c + 1) % LongSize \in Int  BY ONLY <1>1, <2>2
  <2> QED  BY ONLY <1>5, <2>2, <2>3, Zenon
<1>8. PICK h \in Int, b \in Int :
        timer0_millis' = b /\ a + MILLIS_INC + carry = h * LongSize + b
  <2> DEFINE s == a + MILLIS_INC + carry
  <2>1. s \in Int  BY ONLY <1>1, a \in Int, carry \in {0, 1}
  <2> HIDE DEF s
  <2>2. /\ s \div LongSize \in Int /\ s % LongSize \in 0..(LongSize - 1)
        /\ s = (s \div LongSize) * LongSize + (s % LongSize)
    BY ONLY <1>1, <2>1, Divides, Zenon
  <2>3. s % LongSize \in Int  BY ONLY <1>1, <2>2
  <2>4. timer0_millis' = s % LongSize  BY ONLY <1>5 DEF s
  <2>5. \E h \in Int, b \in Int : timer0_millis' = b /\ s = h * LongSize + b
    BY ONLY <2>2, <2>3, <2>4, Zenon
  <2> QED  BY ONLY <2>5 DEF s
<1>9. /\ k + e \in Int
      /\ d * TOP + (k + e) * Turn = (c + 1) * TOP + k * Turn
      /\ (d + (k + e) * LongSize) * Us = (c + k * LongSize) * Us + Us
  BY ONLY <1>7, OverflowTicks, c \in Int, k \in Int, e \in Int, d \in Int
<1>10. /\ j + h \in Int
       /\ (a * MS + g * FractUnit + j * (LongSize * MS)) + Us
            = b * MS + (g + FRACT_INC - carry * FRACT_MAX) * FractUnit + (j + h) * (LongSize * MS)
  BY ONLY <1>8, OverflowMicroseconds,
          a \in Int, g \in Int, j \in Int, carry \in {0, 1}, h \in Int, b \in Int
<1>11. TicksAre(k + e)'
  <2>1. Over = 1 /\ Over' = 0  BY ONLY <1>5 DEF Over
  <2>2. now = (c + 1) * TOP + TCNT0 + k * Turn  BY ONLY <1>2, <1>3, <2>1 DEF TicksAre
  <2>3. /\ d * TOP \in Int /\ (k + e) * Turn \in Int
        /\ (c + 1) * TOP \in Int /\ k * Turn \in Int
    <3>1. TOP \in Int /\ Turn \in Int /\ c + 1 \in Int  BY Constants, Products
    <3> QED  BY ONLY <1>9, <3>1, k \in Int, d \in Int
  <2>4. now = d * TOP + TCNT0 + (k + e) * Turn
    BY ONLY <1>1, <1>9, <2>2, <2>3
  <2>5. d + 0 = d  OBVIOUS
  <2>6. now' = (timer0_overflow_count' + Over') * TOP + TCNT0' + (k + e) * Turn
    BY ONLY <1>5, <1>7, <2>1, <2>4, <2>5
  <2> QED  BY ONLY <2>6 DEF TicksAre
<1>12. MicrosecondsAre(k + e, j + h)'
  <2>1. (c + k * LongSize) * Us = a * MS + g * FractUnit + j * (LongSize * MS)
    BY ONLY <1>2, <1>3 DEF MicrosecondsAre
  <2>2. (d + (k + e) * LongSize) * Us
          = b * MS + (g + FRACT_INC - carry * FRACT_MAX) * FractUnit + (j + h) * (LongSize * MS)
    BY ONLY <1>9, <1>10, <2>1, Zenon
  <2> QED  BY ONLY <1>6, <1>7, <1>8, <2>2, Zenon DEF MicrosecondsAre
<1> QED  BY ONLY <1>5, <1>9, <1>10, <1>11, <1>12, Zenon DEF TimeInv

\* Every step keeps the time.
LEMMA StepTime ==
  ASSUME TypeOK, TimeInv, [Next]_vars
  PROVE  TimeInv'
<1>1. CASE Tick  BY <1>1, TickTime
<1>2. CASE TIMER0_OVF_vect  BY <1>2, OverflowTime
<1>3. CASE Sketch \/ InCall \/ UNCHANGED vars
  <2>1. UNCHANGED <<now, timer, clock>>
    BY ONLY <1>3, Zenon DEF Sketch, InCall, micros, delay, ReadCount, ReadTCNT0, MicrosReturns,
       DelayStarts, DelayLooks, DelayCounts, DelayReturns, vars
  <2> QED  BY ONLY <2>1, TimeInv, Zenon
           DEF TimeInv, TicksAre, MicrosecondsAre, Over, timer, clock
<1> QED  BY ONLY <1>1, <1>2, <1>3, [Next]_vars, Zenon DEF Next

-----------------------------------------------------------------------------
(* micros().                                                                *)

\* The overflow taken into account is the one that was pending when TCNT0
\* was read: no tick after it changes that.
LEMMA StepRead ==
  ASSUME TypeOK, TimeInv, ReadInv, [Next]_vars
  PROVE  ReadInv'
<1>1. ASSUME pc' \notin {"tcnt", "test"} PROVE ReadInv'
  BY ONLY <1>1 DEF ReadInv
<1>2. CASE UNCHANGED vars
  BY ONLY <1>2, ReadInv, Zenon DEF vars, timer, clock, locals, ReadInv, ReadIs, Pending
<1>3. CASE Sketch \/ MicrosReturns \/ DelayStarts \/ DelayLooks \/ DelayCounts \/ DelayReturns
  <2>1. pc' \in {"count", "sketch", "poll"}
    BY ONLY <1>3 DEF Sketch, micros, delay, MicrosReturns, DelayStarts, DelayLooks, DelayCounts,
       DelayReturns
  <2> QED  BY ONLY <1>1, <2>1
<1>4. CASE TIMER0_OVF_vect
  <2>1. pc' \in {"sketch", "count", "poll"}  BY ONLY <1>4 DEF TIMER0_OVF_vect
  <2> QED  BY ONLY <1>1, <2>1
<1>5. CASE ReadCount
  <2>1. pc' = "tcnt" /\ m' = timer0_overflow_count'  BY ONLY <1>5 DEF ReadCount, clock
  <2> QED  BY ONLY <2>1 DEF ReadInv
<1>6. CASE ReadTCNT0
  <2>1. /\ pc = "tcnt" /\ pc' = "test" /\ t' = TCNT0 /\ asOf' = now
        /\ UNCHANGED <<now, TCNT0, TOV0, timer0_overflow_count, m>>
    BY ONLY <1>6 DEF ReadTCNT0, timer, clock
  <2>2. m = timer0_overflow_count  BY ONLY <2>1, ReadInv DEF ReadInv
  <2>3. PICK k \in Int : TicksAre(k)  BY ONLY TimeInv DEF TimeInv
  <2>4. Pending' = Over
    <3>1. TOV0 => TCNT0 < TOP - 1
      <4>1. TOV0 => TCNT0 <= Latency  BY ONLY TimeInv DEF TimeInv
      <4>2. TCNT0 \in 0..(TOP - 1)  BY ONLY TypeOK DEF TypeOK
      <4> QED  BY ONLY <4>1, <4>2, Constants
    <3> QED  BY ONLY <2>1, <3>1, Zenon DEF Pending, Over
  <2>5. ReadIs(k)'  BY ONLY <2>1, <2>2, <2>3, <2>4, Zenon DEF ReadIs, TicksAre
  <2> QED  BY ONLY <2>1, <2>2, <2>5, Zenon, k \in Int DEF ReadInv
<1>7. CASE Tick
  <2>1. /\ pc \in {"tcnt", "test"} => since = 0
        /\ TOV0' = (TOV0 \/ TCNT0 = TOP - 1)
        /\ since' = IF pc \in {"tcnt", "test"} THEN 1 ELSE 0
        /\ UNCHANGED <<timer0_overflow_count, pc, m, t, asOf>>
    BY ONLY <1>7 DEF Tick, clock, locals
  <2>2. CASE pc \notin {"tcnt", "test"}  BY ONLY <1>1, <2>1, <2>2
  <2>3. CASE pc = "tcnt"  BY ONLY <2>1, <2>3, ReadInv DEF ReadInv
  <2>4. CASE pc = "test"
    <3>1. since = 0 /\ since' = 1  BY ONLY <2>1, <2>4
    <3>2. t = TCNT0 /\ m = timer0_overflow_count  BY ONLY <2>4, <3>1, ReadInv DEF ReadInv
    <3>3. PICK k \in Int : ReadIs(k)  BY ONLY <2>4, ReadInv DEF ReadInv
    <3>4. Pending' = Pending
      <4>1. t < TOP - 1 => TCNT0 # TOP - 1  BY ONLY <3>2, TypeOK, Constants DEF TypeOK
      <4> QED  BY ONLY <2>1, <4>1, Zenon DEF Pending
    <3>5. ReadIs(k)'  BY ONLY <2>1, <3>3, <3>4, Zenon DEF ReadIs
    <3>6. since' # 0  BY ONLY <3>1
    <3> QED  BY ONLY <2>1, <2>4, <3>2, <3>5, <3>6, Zenon, k \in Int DEF ReadInv
  <2> QED  BY ONLY <2>2, <2>3, <2>4
<1> QED  BY ONLY <1>2, <1>3, <1>4, <1>5, <1>6, <1>7, [Next]_vars, Zenon DEF Next, InCall

\* So micros() returns the time of that read.
LEMMA MicrosIsTime ==
  ASSUME TypeOK, ReadInv, pc = "test"
  PROVE  Micros = (asOf * TickUs) % LongSize
<1>1. PICK k \in Int : ReadIs(k)  BY DEF ReadInv
<1>2. /\ m \in Int /\ t \in Int /\ asOf \in Int /\ m \in 0..(LongSize - 1)
      /\ TOP \in Int /\ TickUs \in Int /\ LongSize \in Nat \ {0}
  BY Constants, Products DEF TypeOK
<1>3. Overflows \in Int /\ (Overflows * TOP + t) * TickUs \in Int
  <2>1. Overflows \in 0..(LongSize - 1) /\ (Overflows * TOP + t) * TickUs \in Int
    BY ONLY MicrosType, TypeOK
  <2> QED  BY ONLY <1>2, <2>1
<1>4. PICK e \in Int : m + Pending = Overflows + e * LongSize
  <2>1. CASE TOV0 /\ t < TOP - 1
    <3>1. Pending = 1 /\ Overflows = (m + 1) % LongSize  BY ONLY <2>1 DEF Pending, Overflows
    <3>2. m + 1 \in Int  BY ONLY <1>2
    <3>3. /\ (m + 1) \div LongSize \in Int
          /\ m + 1 = ((m + 1) \div LongSize) * LongSize + ((m + 1) % LongSize)
      BY ONLY <1>2, <3>2, Divides, Zenon
    <3> DEFINE e == (m + 1) \div LongSize
    <3>4. e * LongSize \in Int  BY ONLY <1>2, <3>3
    <3>5. m + 1 = e * LongSize + Overflows  BY ONLY <3>1, <3>3, Zenon
    <3> HIDE DEF e
    <3>6. m + Pending = Overflows + e * LongSize  BY ONLY <1>2, <1>3, <3>1, <3>4, <3>5
    <3> QED  BY ONLY <3>3, <3>6, Zenon DEF e
  <2>2. CASE ~(TOV0 /\ t < TOP - 1)
    <3>1. Pending = 0 /\ Overflows = m  BY ONLY <2>2 DEF Pending, Overflows
    <3>2. 0 \in Int /\ m + 0 = m + 0 * LongSize  BY ONLY <1>2
    <3> QED  BY ONLY <3>1, <3>2, Zenon
  <2> QED  BY ONLY <2>1, <2>2
<1>5. PICK o \in Int : o = Overflows  BY ONLY <1>3, Zenon
<1>6. asOf = (o + e * LongSize) * TOP + t + k * (LongSize * TOP)
  BY ONLY <1>1, <1>4, <1>5, Zenon DEF ReadIs, Turn
<1>7. /\ (o + e * LongSize) * TOP = o * TOP + e * (LongSize * TOP)
      /\ o * TOP \in Int /\ LongSize * TOP \in Int
  BY ONLY <1>2, o \in Int, e \in Int
<1>8. (e + k) * (LongSize * TOP) = e * (LongSize * TOP) + k * (LongSize * TOP)
  BY ONLY <1>7, e \in Int, k \in Int
<1>9. e * (LongSize * TOP) \in Int /\ k * (LongSize * TOP) \in Int /\ e + k \in Int
  BY ONLY <1>7, e \in Int, k \in Int
<1>10. asOf = (o * TOP + t) + (e + k) * (LongSize * TOP)
  BY ONLY <1>2, <1>6, <1>7, <1>8, <1>9
<1>11. o * TOP + t \in Int /\ (e + k) * (LongSize * TOP) \in Int
  BY ONLY <1>2, <1>7, <1>9
<1>12. asOf * TickUs = (o * TOP + t) * TickUs + ((e + k) * (LongSize * TOP)) * TickUs
  BY ONLY <1>2, <1>10, <1>11
<1>13. ((e + k) * (LongSize * TOP)) * TickUs = ((e + k) * (TOP * TickUs)) * LongSize
  BY ONLY <1>2, <1>9
<1>14. (e + k) * (TOP * TickUs) \in Int /\ asOf * TickUs \in Int /\ (o * TOP + t) * TickUs \in Int
  <2>1. TOP * TickUs \in Int  BY ONLY <1>2
  <2> QED  BY ONLY <1>2, <1>9, <1>11, <2>1
<1>15. asOf * TickUs = (o * TOP + t) * TickUs + ((e + k) * (TOP * TickUs)) * LongSize
  BY ONLY <1>12, <1>13, Zenon
<1>16. (asOf * TickUs) % LongSize = ((o * TOP + t) * TickUs) % LongSize
  <2>1. PICK x \in Int, y \in Int, z \in Int :
          x = asOf * TickUs /\ y = (o * TOP + t) * TickUs /\ z = (e + k) * (TOP * TickUs)
    BY ONLY <1>14, Zenon
  <2>2. Congruent(x, y, LongSize)  BY ONLY <1>15, <2>1, Zenon, z \in Int DEF Congruent
  <2>3. LongSize \in Nat \ {0}  BY ONLY <1>2, Zenon
  <2>4. x % LongSize = y % LongSize
    BY ONLY <2>2, <2>3, SameRemainder, Zenon, x \in Int, y \in Int
  <2> QED  BY ONLY <2>1, <2>4, Zenon
<1> QED  BY ONLY <1>5, <1>16, Zenon DEF Micros

-----------------------------------------------------------------------------
(* delay().                                                                 *)

\* What delay() has not counted is a number.
LEMMA UncountedType ==
  ASSUME TypeOK
  PROVE  /\ Uncounted \in Int /\ waited \in Nat /\ waited * TickUs \in Int
         /\ (total - ms) * MS \in Int /\ total - ms \in Int
<1>1. waited \in Nat /\ total \in Nat /\ ms \in 0..total
  BY ClockAssumption DEF TypeOK
<1>2. TickUs \in Nat /\ MS \in Nat  BY Constants
<1>3. waited * TickUs \in Int /\ total - ms \in Int  BY ONLY <1>1, <1>2
<1>4. (total - ms) * MS \in Int  BY ONLY <1>2, <1>3
<1> QED  BY ONLY <1>1, <1>3, <1>4 DEF Uncounted

\* A tick while delay() waits.
LEMMA TickUncounted ==
  ASSUME TypeOK, Tick, Waiting
  PROVE  /\ waited' = waited + 1 /\ UNCHANGED <<total, ms, start, pc, caller>>
         /\ Uncounted' = Uncounted + TickUs /\ Uncounted + TickUs < IntSize
<1>1. /\ waited' = waited + 1 /\ UNCHANGED <<total, ms, start, pc, caller>>
      /\ Uncounted + TickUs < IntSize
  BY ONLY Tick, Waiting DEF Tick, waiting
<1>2. TickUs \in Int  BY Constants
<1>3. waited \in Int /\ waited * TickUs \in Int /\ (total - ms) * MS \in Int
  BY ONLY UncountedType, TypeOK
<1>4. (waited + 1) * TickUs = waited * TickUs + TickUs  BY ONLY <1>2, <1>3
<1>5. Uncounted' = (waited + 1) * TickUs - (total - ms) * MS  BY ONLY <1>1 DEF Uncounted
<1>6. Uncounted' = Uncounted + TickUs  BY ONLY <1>2, <1>3, <1>4, <1>5 DEF Uncounted
<1> QED  BY ONLY <1>1, <1>6

\* The time micros() has read is at most one tick old, and delay() had not
\* counted past it.
LEMMA StepLag ==
  ASSUME TypeOK, TimeInv, ReadInv, LagInv, DelayInv, [Next]_vars
  PROVE  LagInv'
<1>1. ASSUME pc' # "test" PROVE LagInv'  BY ONLY <1>1 DEF LagInv
<1>2. CASE UNCHANGED vars
  BY ONLY <1>2, LagInv, Zenon DEF vars, timer, clock, locals, waiting, LagInv, LagIs, Uncounted
<1>3. CASE Sketch \/ MicrosReturns \/ DelayStarts \/ DelayLooks \/ DelayCounts \/ DelayReturns
  <2>1. pc' \in {"count", "sketch", "poll"}
    BY ONLY <1>3 DEF Sketch, micros, delay, MicrosReturns, DelayStarts, DelayLooks, DelayCounts,
       DelayReturns
  <2> QED  BY ONLY <1>1, <2>1
<1>4. CASE TIMER0_OVF_vect \/ ReadCount
  <2>1. pc' \in {"sketch", "count", "poll", "tcnt"}
    BY ONLY <1>4 DEF TIMER0_OVF_vect, ReadCount
  <2> QED  BY ONLY <1>1, <2>1
<1>5. CASE ReadTCNT0
  <2>1. asOf' = now /\ UNCHANGED <<now, caller, total, ms, waited>>
    BY ONLY <1>5 DEF ReadTCNT0, waiting
  <2>2. Uncounted' = Uncounted  BY ONLY <2>1 DEF Uncounted
  <2>3. caller = "poll" => Uncounted >= 0  BY ONLY DelayInv DEF DelayInv, Waiting
  <2>4. Uncounted \in Int /\ TickUs \in Int /\ now \in Int
    BY UncountedType, Constants, Products DEF TypeOK
  <2>5. now = now + 0 /\ Uncounted - 0 * TickUs = Uncounted  BY ONLY <2>4
  <2>6. LagIs(0)'  BY ONLY <2>1, <2>5 DEF LagIs
  <2>7. caller' = "poll" => Uncounted' - 0 * TickUs >= 0
    BY ONLY <2>1, <2>2, <2>3, <2>5
  <2> QED  BY ONLY <2>6, <2>7 DEF LagInv
<1>6. CASE Tick
  <2>1. /\ pc \in {"tcnt", "test"} => since = 0
        /\ UNCHANGED <<pc, caller, asOf>>
    BY ONLY <1>6 DEF Tick, locals
  <2>2. CASE pc # "test"  BY ONLY <1>1, <2>1, <2>2
  <2>3. CASE pc = "test"
    <3>1. asOf = now  BY ONLY <2>1, <2>3, ReadInv DEF ReadInv
    <3>2. now' = now + 1 \/ now' = now + 1 - Period
      <4>1. TOV0 => TCNT0 <= Latency  BY ONLY TimeInv DEF TimeInv
      <4> QED  BY ONLY <1>6, <4>1, TypeOK, TickCounts
    <3>3. now \in Int /\ Period \in Int /\ TickUs \in Int  BY Constants, Products DEF TypeOK
    <3>4. now' = asOf' + 1 \/ now' + Period = asOf' + 1
      BY ONLY <2>1, <3>1, <3>2, <3>3
    <3>5. LagIs(1)'  BY ONLY <3>4 DEF LagIs
    <3>6. caller' = "poll" => Uncounted' - 1 * TickUs >= 0
      <4> SUFFICES ASSUME caller' = "poll" PROVE Uncounted' - 1 * TickUs >= 0  OBVIOUS
      <4>1. Waiting  BY ONLY <2>1, caller' = "poll" DEF Waiting
      <4>2. Uncounted' = Uncounted + TickUs  BY ONLY <1>6, <4>1, TypeOK, TickUncounted
      <4>3. Uncounted >= 0  BY ONLY <4>1, DelayInv DEF DelayInv
      <4>4. Uncounted \in Int  BY ONLY UncountedType, TypeOK
      <4> QED  BY ONLY <3>3, <4>2, <4>3, <4>4
    <3> QED  BY ONLY <3>5, <3>6 DEF LagInv
  <2> QED  BY ONLY <2>2, <2>3
<1> QED  BY ONLY <1>2, <1>3, <1>4, <1>5, <1>6, [Next]_vars, Zenon DEF Next, InCall

\* A Period of microseconds is a number of turns of a uint16_t.
LEMMA PeriodInInts ==
  \E c, w \in Int : LongSize = c * IntSize /\ Period * TickUs = w * IntSize
<1>1. /\ LongSize \in Int /\ IntSize \in Nat \ {0} /\ MS \in Int /\ TOP \in Int /\ TickUs \in Int
  BY Constants
<1>2. PICK c \in Int : LongSize = c * IntSize
  <2>1. LongSize \div IntSize \in Int /\ LongSize = (LongSize \div IntSize) * IntSize + (LongSize % IntSize)
    BY ONLY <1>1, Divides, Zenon
  <2>2. LongSize % IntSize = 0  BY ClockAssumption
  <2>3. PICK c \in Int : LongSize = c * IntSize + 0  BY ONLY <2>1, <2>2, Zenon
  <2>4. c * IntSize \in Int  BY ONLY <1>1, c \in Int
  <2>5. LongSize = c * IntSize  BY ONLY <2>3, <2>4
  <2> QED  BY ONLY <2>5, c \in Int
<1>3. Period * TickUs = (MS * (LongSize * TOP)) * TickUs  BY ONLY Products, Zenon DEF Turn
<1>4. (MS * ((c * IntSize) * TOP)) * TickUs = ((MS * (c * TOP)) * TickUs) * IntSize
  BY ONLY <1>1, c \in Int
<1>5. (MS * (c * TOP)) * TickUs \in Int
  <2>1. c * TOP \in Int  BY ONLY <1>1, c \in Int
  <2>2. MS * (c * TOP) \in Int  BY ONLY <1>1, <2>1
  <2> QED  BY ONLY <1>1, <2>2
<1>6. Period * TickUs = ((MS * (c * TOP)) * TickUs) * IntSize
  BY ONLY <1>2, <1>3, <1>4, Zenon
<1> QED  BY ONLY <1>2, <1>5, <1>6, Zenon

\* The 16 bits of micros() that delay() keeps.
LEMMA MicrosInInts ==
  ASSUME TypeOK, ReadInv, pc = "test"
  PROVE  \E q \in Int : Micros % IntSize = asOf * TickUs + q * IntSize
<1>1. PICK c \in Int, w \in Int : LongSize = c * IntSize  BY ONLY PeriodInInts, Zenon
<1>2. /\ LongSize \in Nat \ {0} /\ IntSize \in Nat \ {0} /\ asOf * TickUs \in Int /\ Micros \in Int
      /\ IntSize \in Int
  <2>1. asOf \in Int /\ TickUs \in Int  BY Constants, Products DEF TypeOK
  <2>2. Micros \in 0..(LongSize - 1)  BY ONLY MicrosType, TypeOK
  <2> QED  BY ONLY <2>1, <2>2, Constants
<1>3. PICK x \in Int : x = asOf * TickUs  BY ONLY <1>2, Zenon
<1>4. PICK y \in Int : y = Micros  BY ONLY <1>2, Zenon
<1>5. y = x % LongSize  BY ONLY <1>3, <1>4, MicrosIsTime, TypeOK, ReadInv, pc = "test", Zenon
<1>6. PICK a \in Int : x = a * LongSize + y
  BY ONLY <1>2, <1>5, Divides, Zenon, x \in Int
<1>7. PICK b \in Int, r \in Int : r = y % IntSize /\ y = b * IntSize + r
  <2>1. /\ y \div IntSize \in Int /\ y % IntSize \in 0..(IntSize - 1)
        /\ y = (y \div IntSize) * IntSize + (y % IntSize)
    BY ONLY <1>2, Divides, Zenon, y \in Int
  <2>2. y % IntSize \in Int  BY ONLY <1>2, <2>1
  <2> QED  BY ONLY <2>1, <2>2, Zenon
<1>8. a * (c * IntSize) = (a * c) * IntSize  BY ONLY <1>2, a \in Int, c \in Int
<1>9. a * c \in Int /\ (a * c) * IntSize \in Int /\ b * IntSize \in Int
  BY ONLY <1>2, a \in Int, b \in Int, c \in Int
<1>10. x = (a * c) * IntSize + y  BY ONLY <1>1, <1>6, <1>8, Zenon
<1>11. r = x - (a * c) * IntSize - b * IntSize
  BY ONLY <1>7, <1>9, <1>10, x \in Int, y \in Int, r \in Int
<1>12. PICK g \in Int : g = a * c  BY ONLY <1>9, Zenon
<1>13. (-(g + b)) * IntSize = -(g * IntSize) - b * IntSize /\ -(g + b) \in Int
  BY ONLY <1>2, g \in Int, b \in Int
<1>14. g * IntSize \in Int  BY ONLY <1>2, g \in Int
<1>15. r = x + (-(g + b)) * IntSize
  BY ONLY <1>9, <1>11, <1>12, <1>13, <1>14, x \in Int
<1>16. r = Micros % IntSize  BY ONLY <1>4, <1>7, Zenon
<1> QED  BY ONLY <1>3, <1>13, <1>15, <1>16, Zenon

\* A tick moves now and waited together.
LEMMA TickDelay ==
  ASSUME TypeOK, TimeInv, DelayInv, Waiting, Tick
  PROVE  DelayInv'
<1>1. /\ waited' = waited + 1 /\ UNCHANGED <<total, ms, start, pc, caller>>
      /\ Uncounted' = Uncounted + TickUs /\ Uncounted + TickUs < IntSize
  BY TickUncounted
<1>2. PICK k \in Int : StartIs(k)  BY DEF DelayInv
<1>3. Uncounted >= 0 /\ Uncounted \in Int /\ TickUs \in Nat  BY UncountedType, Constants DEF DelayInv
<1>4. Uncounted' >= 0 /\ Uncounted' < IntSize  BY ONLY <1>1, <1>3
<1>5. now' = now + 1 \/ now' = now + 1 - Period
  <2>1. TOV0 => TCNT0 <= Latency  BY DEF TimeInv
  <2> QED  BY ONLY <2>1, Tick, TypeOK, TickCounts
<1>6. /\ now \in Int /\ waited \in Int /\ Period \in Int /\ TickUs \in Int /\ IntSize \in Int
      /\ (total - ms) * MS \in Int /\ start \in Int
  BY UncountedType, Constants, Products DEF TypeOK
<1>7. PICK w \in Int : Period * TickUs = w * IntSize  BY PeriodInInts
<1>8. PICK u \in Int : u = now - waited  BY ONLY <1>6
<1>9. start + k * IntSize = u * TickUs + (total - ms) * MS  BY ONLY <1>2, <1>8, Zenon DEF StartIs
<1>10. CASE now' = now + 1
  <2>1. now' - waited' = u  BY ONLY <1>1, <1>6, <1>8, <1>10
  <2>2. StartIs(k)'  BY ONLY <1>1, <1>9, <2>1 DEF StartIs
  <2> QED  BY ONLY <1>4, <2>2, k \in Int DEF DelayInv
<1>11. CASE now' = now + 1 - Period
  <2>1. now' - waited' = u - Period  BY ONLY <1>1, <1>6, <1>8, <1>11
  <2>2. (u - Period) * TickUs = u * TickUs - Period * TickUs  BY ONLY <1>6, u \in Int
  <2>3. (k - w) * IntSize = k * IntSize - w * IntSize  BY ONLY <1>6, k \in Int, w \in Int
  <2>4. u * TickUs \in Int /\ k * IntSize \in Int /\ w * IntSize \in Int /\ k - w \in Int
    BY ONLY <1>6, u \in Int, k \in Int, w \in Int
  <2>5. start + (k - w) * IntSize = (u - Period) * TickUs + (total - ms) * MS
    BY ONLY <1>6, <1>7, <1>9, <2>2, <2>3, <2>4
  <2>6. StartIs(k - w)'  BY ONLY <1>1, <2>1, <2>5 DEF StartIs
  <2> QED  BY ONLY <1>4, <2>4, <2>6 DEF DelayInv
<1> QED  BY ONLY <1>5, <1>10, <1>11

\* The time read, as delay() sees it: of the last l ticks it knows nothing.
LEMMA LagMicroseconds ==
  ASSUME TypeOK, NEW l \in {0, 1}, LagIs(l)
  PROVE  \E v \in Int : asOf * TickUs = (now - l) * TickUs + v * IntSize
<1>1. now \in Int /\ asOf \in Int /\ Period \in Int /\ TickUs \in Int /\ IntSize \in Int
  BY Constants, Products DEF TypeOK
<1>2. PICK w \in Int : Period * TickUs = w * IntSize  BY PeriodInInts
<1>3. CASE now = asOf + l
  <2>1. asOf = now - l  BY ONLY <1>1, <1>3, l \in {0, 1}
  <2>2. asOf * TickUs \in Int  BY ONLY <1>1
  <2>3. asOf * TickUs = asOf * TickUs + 0 * IntSize  BY ONLY <1>1, <2>2
  <2> QED  BY ONLY <2>1, <2>3
<1>4. CASE now + Period = asOf + l
  <2>1. PICK u \in Int : u = now - l  BY ONLY <1>1, l \in {0, 1}
  <2>2. asOf = u + Period  BY ONLY <1>1, <1>4, <2>1, l \in {0, 1}
  <2>3. (u + Period) * TickUs = u * TickUs + Period * TickUs  BY ONLY <1>1, u \in Int
  <2>4. asOf * TickUs = u * TickUs + w * IntSize  BY ONLY <1>2, <2>2, <2>3, Zenon
  <2> QED  BY ONLY <2>1, <2>4, Zenon, w \in Int
<1> QED  BY ONLY <1>3, <1>4, LagIs(l) DEF LagIs

\* The first reading.
LEMMA StartDelay ==
  ASSUME TypeOK, FlowInv, ReadInv, LagInv, DelayStarts
  PROVE  DelayInv'
<1>1. /\ pc = "test" /\ caller = "delay" /\ start' = Micros % IntSize
      /\ waited' = now - asOf + (IF now < asOf THEN Period ELSE 0)
      /\ UNCHANGED <<now, total, ms>>
  BY DEF DelayStarts
<1>2. PICK l \in {0, 1} : LagIs(l)  BY <1>1 DEF LagInv
<1>3. /\ now \in 0..(Period - 1) /\ asOf \in 0..(Period - 1) /\ Period \in Nat
      /\ TickUs \in Nat /\ IntSize \in Int /\ MS \in Int /\ total \in Int
  BY Constants, Products, ClockAssumption DEF TypeOK
<1>4. Period > 1
  <2>1. TOP > 2 /\ TOP \in Nat /\ LongSize * MS \in Nat \ {0}  BY Constants, Products
  <2>2. PICK g \in Nat \ {0} : g = LongSize * MS  BY ONLY <2>1, Zenon
  <2>3. g * TOP >= TOP  BY ONLY <2>1, g \in Nat \ {0}, SMT
  <2>4. Period = g * TOP  BY ONLY <2>2, Zenon DEF Period
  <2> QED  BY ONLY <1>3, <2>1, <2>3, <2>4
<1>5. waited' = l
  BY ONLY <1>1, <1>2, <1>3, <1>4 DEF LagIs
<1>6. PICK v \in Int : asOf * TickUs = (now - l) * TickUs + v * IntSize
  BY ONLY <1>2, LagMicroseconds, TypeOK
<1>7. PICK q \in Int : Micros % IntSize = asOf * TickUs + q * IntSize
  BY ONLY <1>1, MicrosInInts, TypeOK, ReadInv
<1>8. ms = total  BY ONLY <1>1, FlowInv DEF FlowInv
<1>9. PICK u \in Int : u = now - l  BY ONLY <1>3, l \in {0, 1}
<1>10. /\ v * IntSize \in Int /\ q * IntSize \in Int /\ u * TickUs \in Int
       /\ -(v + q) \in Int /\ (-(v + q)) * IntSize = -(v * IntSize) - q * IntSize
  BY ONLY <1>3, v \in Int, q \in Int, u \in Int
<1>11. asOf * TickUs = u * TickUs + v * IntSize  BY ONLY <1>6, <1>9, Zenon
<1>12. start' = (u * TickUs + v * IntSize) + q * IntSize  BY ONLY <1>1, <1>7, <1>11, Zenon
<1>13. total - ms = 0 /\ 0 * MS = 0  BY ONLY <1>3, <1>8
<1>14. start' + (-(v + q)) * IntSize = u * TickUs + (total - ms) * MS
  BY ONLY <1>10, <1>12, <1>13
<1>15. now' - waited' = u /\ total' - ms' = total - ms  BY ONLY <1>1, <1>5, <1>9
<1>16. StartIs(-(v + q))'  BY ONLY <1>14, <1>15 DEF StartIs
<1>17. Uncounted' >= 0 /\ Uncounted' < IntSize
  <2>1. Uncounted' = l * TickUs - 0  BY ONLY <1>5, <1>13, <1>15 DEF Uncounted
  <2>2. TickUs < IntSize  BY Constants, ClockAssumption
  <2> QED  BY ONLY <1>3, <2>1, <2>2, l \in {0, 1}
<1> QED  BY ONLY <1>10, <1>16, <1>17 DEF DelayInv

\* What delay() subtracts in 16 bits is the time it has not counted, up to
\* the reading.
LEMMA DifferenceIsUncounted ==
  ASSUME TypeOK, ReadInv, DelayInv, pc = "test", caller = "poll",
         NEW l \in {0, 1}, LagIs(l), Uncounted - l * TickUs >= 0
  PROVE  ((Micros % IntSize) - start + IntSize) % IntSize = Uncounted - l * TickUs
<1> DEFINE D == Uncounted - l * TickUs
           x == (Micros % IntSize) - start + IntSize
<1>1. PICK v \in Int : asOf * TickUs = (now - l) * TickUs + v * IntSize
  BY ONLY LagMicroseconds, TypeOK, LagIs(l), l \in {0, 1}
<1>2. PICK q \in Int : Micros % IntSize = asOf * TickUs + q * IntSize
  BY ONLY MicrosInInts, TypeOK, ReadInv, pc = "test"
<1>3. /\ Waiting /\ Uncounted >= 0 /\ Uncounted < IntSize /\ \E k \in Int : StartIs(k)
  BY ONLY DelayInv, caller = "poll" DEF DelayInv, Waiting
<1>4. PICK k \in Int : StartIs(k)  BY ONLY <1>3
<1>5. /\ now \in Int /\ waited \in Int /\ TickUs \in Nat /\ IntSize \in Nat \ {0}
      /\ Uncounted \in Int /\ start \in Int
  BY UncountedType, Constants, Products DEF TypeOK
<1>6. PICK n \in Int, w \in Int, lt \in Int, c \in Int :
        n = now * TickUs /\ w = waited * TickUs /\ lt = l * TickUs /\ c = (total - ms) * MS
  <2>1. waited * TickUs \in Int /\ (total - ms) * MS \in Int  BY ONLY UncountedType, TypeOK, Zenon
  <2>2. now * TickUs \in Int /\ l * TickUs \in Int  BY ONLY <1>5, l \in {0, 1}
  <2> QED  BY ONLY <2>1, <2>2, Zenon
<1>7. (now - l) * TickUs = n - lt /\ (now - waited) * TickUs = n - w
  BY ONLY <1>5, <1>6, l \in {0, 1}
<1>8. start + k * IntSize = n - w + c  BY ONLY <1>4, <1>6, <1>7 DEF StartIs
<1>9. Micros % IntSize = n - lt + v * IntSize + q * IntSize  BY ONLY <1>1, <1>2, <1>7
<1>10. D = w - c - lt /\ D \in Int  BY ONLY <1>6 DEF Uncounted
<1>11. /\ v * IntSize \in Int /\ q * IntSize \in Int /\ k * IntSize \in Int
       /\ (v + q + k + 1) * IntSize = v * IntSize + q * IntSize + k * IntSize + IntSize
       /\ v + q + k + 1 \in Int
  BY ONLY <1>5, v \in Int, q \in Int, k \in Int
<1>12. x = (v + q + k + 1) * IntSize + D /\ x \in Int
  <2>1. PICK vi \in Int, qi \in Int, ki \in Int, s \in Int, y \in Int, is \in Int :
          /\ vi = v * IntSize /\ qi = q * IntSize /\ ki = k * IntSize
          /\ s = start /\ y = n - lt + vi + qi /\ is = IntSize
    BY ONLY <1>5, <1>11, n \in Int, lt \in Int
  <2>2. Micros % IntSize = y  BY ONLY <1>9, <2>1
  <2>3. x = y - s + is  BY ONLY <2>1, <2>2
  <2>4. (v + q + k + 1) * IntSize = vi + qi + ki + is  BY ONLY <1>11, <2>1
  <2>5. s + ki = n - w + c  BY ONLY <1>8, <2>1
  <2>6. y - s + is = vi + qi + ki + is + (w - c - lt) /\ y - s + is \in Int
    BY ONLY <2>1, <2>5, n \in Int, w \in Int, lt \in Int, c \in Int
  <2> QED  BY ONLY <1>10, <2>3, <2>4, <2>6
<1>13. D \in 0..(IntSize - 1)
  BY ONLY <1>3, <1>5, <1>6, <1>10, Uncounted - l * TickUs >= 0, l \in {0, 1}
<1> HIDE DEF D, x
<1>14. PICK g \in Int : g = v + q + k + 1  BY ONLY <1>11
<1>15. x = g * IntSize + D  BY ONLY <1>12, <1>14, Zenon
<1>16. x % IntSize = D  BY ONLY <1>5, <1>12, <1>13, <1>15, Quotient, Zenon, g \in Int
<1> QED  BY ONLY <1>16 DEF x, D

\* A look at the time.
LEMMA CountDelay ==
  ASSUME TypeOK, ReadInv, LagInv, DelayInv, DelayCounts
  PROVE  DelayInv'
<1>1. pc = "test" /\ caller = "poll" /\ UNCHANGED <<now, total, waited>>
  BY DEF DelayCounts
<1>2. PICK l \in {0, 1} : LagIs(l) /\ Uncounted - l * TickUs >= 0
  BY ONLY <1>1, LagInv DEF LagInv
<1>3. ((Micros % IntSize) - start + IntSize) % IntSize = Uncounted - l * TickUs
  BY ONLY <1>1, <1>2, DifferenceIsUncounted, TypeOK, ReadInv, DelayInv
<1>4. Uncounted >= 0 /\ Uncounted < IntSize /\ \E k \in Int : StartIs(k)
  BY ONLY DelayInv, <1>1 DEF DelayInv, Waiting
<1>5. PICK k \in Int : StartIs(k)  BY ONLY <1>4
<1>6. /\ now - waited \in Int /\ TickUs \in Nat /\ IntSize \in Nat \ {0} /\ MS \in Nat
      /\ Uncounted \in Int /\ start \in Int /\ total \in Int /\ ms \in Int
      /\ (now - waited) * TickUs \in Int /\ waited * TickUs \in Int
  BY UncountedType, Constants, Products, ClockAssumption DEF TypeOK
<1>7. CASE Uncounted - l * TickUs >= MS
  <2>1. ms' = ms - 1 /\ start' = (start + MS) % IntSize
    BY ONLY <1>3, <1>7, DelayCounts DEF DelayCounts
  <2>2. (total' - ms') * MS = (total - ms) * MS + MS  BY ONLY <1>1, <1>6, <2>1
  <2>3. PICK c \in Int : c = (total - ms) * MS  BY ONLY <1>6
  <2>4. Uncounted = waited * TickUs - c /\ Uncounted' = waited * TickUs - (c + MS)
    BY ONLY <1>1, <2>2, <2>3 DEF Uncounted
  <2>5. Uncounted' >= 0 /\ Uncounted' < IntSize
    BY ONLY <1>4, <1>6, <1>7, <2>4, c \in Int, l \in {0, 1}
  <2>6. PICK i \in Int : start + MS = i * IntSize + start'
    <3>1. start + MS \in Int  BY ONLY <1>6
    <3> QED  BY ONLY <1>6, <2>1, <3>1, Divides, Zenon
  <2>7. start' \in Int
    <3>1. start + MS \in Int  BY ONLY <1>6
    <3>2. start' \in 0..(IntSize - 1)  BY ONLY <1>6, <2>1, <3>1, Divides
    <3> QED  BY ONLY <1>6, <3>2
  <2>8. /\ (k + i) * IntSize = k * IntSize + i * IntSize /\ k + i \in Int
        /\ k * IntSize \in Int /\ i * IntSize \in Int
    BY ONLY <1>6, k \in Int, i \in Int
  <2>9. start + k * IntSize = (now - waited) * TickUs + c  BY ONLY <1>5, <2>3, Zenon DEF StartIs
  <2>10. start' + (k + i) * IntSize = (now - waited) * TickUs + (c + MS)
    <3>1. PICK a \in Int, b \in Int, d \in Int, e \in Int :
            /\ a = k * IntSize /\ b = i * IntSize /\ d = (now - waited) * TickUs /\ e = start'
      BY ONLY <1>6, <2>7, <2>8, Zenon
    <3>2. start + MS = b + e  BY ONLY <2>6, <3>1, Zenon
    <3>3. start + a = d + c  BY ONLY <2>9, <3>1, Zenon
    <3>4. e + (a + b) = d + (c + MS)
      BY ONLY <1>6, <3>2, <3>3, a \in Int, b \in Int, c \in Int, d \in Int, e \in Int
    <3> QED  BY ONLY <2>8, <3>1, <3>4, Zenon
  <2>11. StartIs(k + i)'  BY ONLY <1>1, <2>2, <2>3, <2>10 DEF StartIs
  <2> QED  BY ONLY <2>5, <2>8, <2>11 DEF DelayInv
<1>8. CASE ~(Uncounted - l * TickUs >= MS)
  <2>1. UNCHANGED <<ms, start>>
    BY ONLY <1>3, <1>8, DelayCounts DEF DelayCounts
  <2>2. Uncounted' = Uncounted /\ StartIs(k)'
    BY ONLY <1>1, <1>5, <2>1, Zenon DEF Uncounted, StartIs
  <2> QED  BY ONLY <1>4, <2>2, k \in Int DEF DelayInv
<1> QED  BY ONLY <1>7, <1>8

\* Every step keeps delay() from counting a millisecond that has not passed.
LEMMA StepDelay ==
  ASSUME TypeOK, FlowInv, TimeInv, ReadInv, LagInv, DelayInv, [Next]_vars
  PROVE  DelayInv'
<1>1. ASSUME ~Waiting' PROVE DelayInv'  BY ONLY <1>1, Zenon DEF DelayInv
<1>2. ASSUME UNCHANGED <<now, total, ms, start, waited>>, Waiting' => Waiting
      PROVE  DelayInv'
  <2>1. CASE ~Waiting'  BY ONLY <1>1, <2>1
  <2>2. CASE Waiting
    BY ONLY <1>2, <2>2, DelayInv, Zenon DEF DelayInv, Uncounted, StartIs
  <2> QED  BY ONLY <1>2, <2>1, <2>2, Zenon
<1>3. CASE UNCHANGED vars
  BY ONLY <1>2, <1>3, Zenon DEF vars, waiting, Waiting
<1>4. CASE TIMER0_OVF_vect \/ ReadCount \/ ReadTCNT0 \/ DelayLooks
  <2>1. UNCHANGED <<now, total, ms, start, waited>>
    BY ONLY <1>4 DEF TIMER0_OVF_vect, ReadCount, ReadTCNT0, DelayLooks, waiting
  <2>2. Waiting' => Waiting
    BY ONLY <1>4 DEF TIMER0_OVF_vect, ReadCount, ReadTCNT0, DelayLooks, Waiting
  <2> QED  BY ONLY <1>2, <2>1, <2>2
<1>5. CASE Sketch \/ MicrosReturns \/ DelayReturns
  <2>1. pc' # "poll" /\ caller' # "poll"
    BY ONLY <1>5, FlowInv DEF Sketch, micros, delay, MicrosReturns, DelayReturns, FlowInv
  <2> QED  BY ONLY <1>1, <2>1 DEF Waiting
<1>6. CASE Tick
  <2>1. CASE Waiting  BY ONLY <1>6, <2>1, TickDelay, TypeOK, TimeInv, DelayInv
  <2>2. CASE ~Waiting
    <3>1. UNCHANGED <<pc, caller>>  BY ONLY <1>6 DEF Tick
    <3> QED  BY ONLY <1>1, <2>2, <3>1, Zenon DEF Waiting
  <2> QED  BY ONLY <2>1, <2>2
<1>7. CASE DelayStarts  BY ONLY <1>7, StartDelay, TypeOK, FlowInv, ReadInv, LagInv
<1>8. CASE DelayCounts  BY ONLY <1>8, CountDelay, TypeOK, ReadInv, LagInv, DelayInv
<1> QED  BY ONLY <1>3, <1>4, <1>5, <1>6, <1>7, <1>8, [Next]_vars, Zenon DEF Next, InCall

-----------------------------------------------------------------------------
(* The theorems.                                                            *)

\* The clock starts at 0.
LEMMA InitClockInv ==
  ASSUME Init
  PROVE  ClockInv
<1>1. /\ now = 0 /\ TCNT0 = 0 /\ TOV0 = FALSE
      /\ timer0_overflow_count = 0 /\ timer0_millis = 0 /\ timer0_fract = 0
      /\ pc = "sketch" /\ caller = "none" /\ m = 0 /\ t = 0 /\ asOf = 0
      /\ total = 0 /\ ms = 0 /\ start = 0 /\ waited = 0 /\ since = 0
  BY DEF Init
<1>2. /\ Period \in Nat \ {0} /\ TOP \in Nat \ {0} /\ LongSize \in Nat \ {0} /\ IntSize \in Nat \ {0}
      /\ FRACT_MAX \in Int /\ FRACT_MAX > 0
  BY Constants, Products, OverflowParts
<1>3. TypeOK
  <2>1. /\ 0 \in 0..(Period - 1) /\ 0 \in 0..(TOP - 1) /\ 0 \in 0..(LongSize - 1)
        /\ 0 \in 0..(FRACT_MAX - 1) /\ 0 \in 0..(IntSize - 1) /\ 0 \in 0..0 /\ 0 \in 0..1 /\ 0 \in Nat
    BY ONLY <1>2
  <2>2. /\ pc \in {"sketch", "count", "tcnt", "test", "poll"}
        /\ caller \in {"none", "sketch", "delay", "poll"}
    BY ONLY <1>1
  <2>3. TOV0 \in BOOLEAN /\ total \in Delays \cup {0}  BY ONLY <1>1, Zenon
  <2> QED  BY ONLY <1>1, <2>1, <2>2, <2>3, Zenon DEF TypeOK
<1>4. FlowInv /\ ReadInv /\ LagInv /\ DelayInv
  BY ONLY <1>1 DEF FlowInv, ReadInv, LagInv, DelayInv, Waiting
<1>5. TimeInv
  <2>1. /\ TOP \in Int /\ Turn \in Int /\ LongSize \in Int /\ Us \in Int /\ MS \in Int
        /\ FractUnit \in Int /\ LongSize * MS \in Int
    BY Constants, Products
  <2>2. Over = 0  BY ONLY <1>1 DEF Over
  <2>3. TicksAre(0)  BY ONLY <1>1, <2>1, <2>2 DEF TicksAre
  <2>4. PICK g \in Int : g = LongSize * MS  BY ONLY <2>1, Zenon
  <2>5. (0 + 0 * LongSize) * Us = 0 * MS + 0 * FractUnit + 0 * g  BY ONLY <2>1, g \in Int
  <2>6. MicrosecondsAre(0, 0)  BY ONLY <1>1, <2>4, <2>5, Zenon DEF MicrosecondsAre
  <2>7. 0 \in Int  OBVIOUS
  <2> QED  BY ONLY <1>1, <2>3, <2>6, <2>7, Zenon DEF TimeInv
<1> QED  BY ONLY <1>3, <1>4, <1>5 DEF ClockInv

\* Every step of the sketch, the timer and its handler keeps the invariant.
LEMMA StepClockInv ==
  ASSUME ClockInv, [Next]_vars
  PROVE  ClockInv'
<1>1. TypeOK /\ FlowInv /\ TimeInv /\ ReadInv /\ LagInv /\ DelayInv  BY DEF ClockInv
<1>2. TypeOK' /\ FlowInv'  BY ONLY <1>1, StepClockType, [Next]_vars
<1>3. TimeInv'  BY ONLY <1>1, StepTime, [Next]_vars
<1>4. ReadInv'  BY ONLY <1>1, StepRead, [Next]_vars
<1>5. LagInv'  BY ONLY <1>1, StepLag, [Next]_vars
<1>6. DelayInv'  BY ONLY <1>1, StepDelay, [Next]_vars
<1> QED  BY ONLY <1>2, <1>3, <1>4, <1>5, <1>6 DEF ClockInv

\* The invariant of the clock holds in every reachable state.
LEMMA ClockInvariant == Spec => []ClockInv
<1>1. Init => ClockInv  BY InitClockInv
<1>2. ClockInv /\ [Next]_vars => ClockInv'  BY StepClockInv
<1> QED  BY <1>1, <1>2, PTL DEF Spec

\* The overflows served are the turns of timer0_overflow_count and its value.
LEMMA ServedIs ==
  ASSUME TypeOK, NEW k \in Int, TicksAre(k)
  PROVE  Served = (timer0_overflow_count + k * LongSize) % (LongSize * MS)
<1>1. /\ timer0_overflow_count \in Int /\ TCNT0 \in Int /\ now \in Int /\ Over \in {0, 1}
      /\ TOP \in Nat \ {0} /\ LongSize \in Int
  BY Constants, Products DEF TypeOK, Over
<1>2. PICK a \in Int : a = timer0_overflow_count + k * LongSize  BY ONLY <1>1, k \in Int
<1>3. a + Over \in Int /\ now - TCNT0 \in Int /\ 0 \in 0..(TOP - 1)  BY ONLY <1>1, a \in Int
<1>4. now - TCNT0 = (a + Over) * TOP + 0
  <2>1. PICK c \in Int, o \in Int, h \in Int :
          c = timer0_overflow_count * TOP /\ o = Over * TOP /\ h = k * Turn
    <3>1. Turn \in Int  BY Products
    <3> QED  BY ONLY <1>1, <3>1, k \in Int
  <2>2. k * Turn = (k * LongSize) * TOP  BY ONLY <1>1, k \in Int DEF Turn
  <2>3. (timer0_overflow_count + Over) * TOP = c + o  BY ONLY <1>1, <2>1
  <2>4. k * LongSize \in Int  BY ONLY <1>1, k \in Int
  <2>5. (a + Over) * TOP = c + o + h
    <3>1. PICK b \in Int : b = k * LongSize  BY ONLY <2>4, Zenon
    <3>2. ((timer0_overflow_count + b) + Over) * TOP
            = timer0_overflow_count * TOP + Over * TOP + b * TOP
      BY ONLY <1>1, b \in Int
    <3> QED  BY ONLY <1>2, <2>1, <2>2, <3>1, <3>2, Zenon
  <2>6. now = c + o + TCNT0 + h  BY ONLY <2>1, <2>3, TicksAre(k) DEF TicksAre
  <2> QED  BY ONLY <1>1, <2>5, <2>6, c \in Int, o \in Int, h \in Int
<1>5. (now - TCNT0) \div TOP = a + Over
  BY ONLY <1>1, <1>3, <1>4, Quotient, Zenon
<1>7. Served = ((now - TCNT0) \div TOP - Over) % (LongSize * MS)  BY ONLY Zenon DEF Served, Over
<1>8. PICK y \in Int : y = (now - TCNT0) \div TOP  BY ONLY <1>3, <1>5
<1>9. y - Over = a  BY ONLY <1>1, <1>5, <1>8, a \in Int
<1>10. Served = (y - Over) % (LongSize * MS)  BY ONLY <1>7, <1>8, Zenon
<1>11. Served = a % (LongSize * MS)  BY ONLY <1>9, <1>10, Zenon
<1> QED  BY ONLY <1>2, <1>11, Zenon

\* The sums of the handler, split.
LEMMA MillisIsTime ==
  ASSUME TypeOK, TimeInv
  PROVE  MillisTrue
<1>1. PICK k \in Int, j \in Int : TicksAre(k) /\ MicrosecondsAre(k, j)  BY ONLY TimeInv, Zenon DEF TimeInv
<1>2. /\ timer0_overflow_count \in Int /\ LongSize \in Nat \ {0} /\ MS \in Nat \ {0} /\ Us \in Int
      /\ LongSize * MS \in Nat \ {0} /\ timer0_millis \in 0..(LongSize - 1)
  BY Constants, Products DEF TypeOK
<1>3. PICK G \in Nat \ {0} : G = LongSize * MS  BY ONLY <1>2, Zenon
<1>4. PICK a \in Int : a = timer0_overflow_count + k * LongSize  BY ONLY <1>2, k \in Int
<1>5. Served = a % G  BY ONLY <1>1, <1>3, <1>4, ServedIs, TypeOK, Zenon
<1>6. PICK p \in Int, s \in Int : s = Served /\ a = p * G + s
  <2>1. a \div G \in Int /\ a % G \in 0..(G - 1) /\ a = (a \div G) * G + (a % G)
    BY ONLY Divides, Zenon, a \in Int, G \in Nat \ {0}
  <2>2. a % G \in Int  BY ONLY <2>1, G \in Nat \ {0}
  <2> QED  BY ONLY <1>5, <2>1, <2>2, Zenon
<1>7. PICK f \in 0..(MS - 1) : f = timer0_fract * FractUnit
  <2>1. timer0_fract \in 0..(FRACT_MAX - 1)  BY ONLY TypeOK DEF TypeOK
  <2>2. FRACT_MAX * FractUnit = MS /\ FRACT_MAX \in Int /\ FractUnit \in Nat \ {0}
    BY OverflowParts, Constants
  <2>3. timer0_fract * FractUnit <= (FRACT_MAX - 1) * FractUnit /\ timer0_fract * FractUnit >= 0
    BY ONLY <2>1, <2>2, SMT
  <2>4. (FRACT_MAX - 1) * FractUnit = FRACT_MAX * FractUnit - FractUnit  BY ONLY <2>2
  <2>5. timer0_fract * FractUnit \in Int  BY ONLY <2>1, <2>2
  <2>6. timer0_fract * FractUnit \in 0..(MS - 1)  BY ONLY <1>2, <2>2, <2>3, <2>4, <2>5
  <2> QED  BY ONLY <2>6
<1>8. a * Us = timer0_millis * MS + f + j * G
  BY ONLY <1>1, <1>3, <1>4, <1>7, Zenon DEF MicrosecondsAre
<1>9. PICK z \in Int : z = j - p * Us  BY ONLY <1>2, j \in Int, p \in Int
<1>10. s * Us = timer0_millis * MS + f + z * G
  <2>1. a * Us = (p * G) * Us + s * Us
    <3>1. PICK b \in Int : b = p * G  BY ONLY p \in Int, G \in Nat \ {0}
    <3>2. (b + s) * Us = b * Us + s * Us  BY ONLY <1>2, b \in Int, s \in Int
    <3> QED  BY ONLY <1>6, <3>1, <3>2, Zenon
  <2>2. (p * G) * Us = (p * Us) * G  BY ONLY <1>2, p \in Int, G \in Nat \ {0}
  <2>3. PICK e \in Int : e = p * Us  BY ONLY <1>2, p \in Int
  <2>4. z * G = j * G - e * G  BY ONLY <1>9, <2>3, j \in Int, e \in Int, G \in Nat \ {0}
  <2>5. PICK eg \in Int, jg \in Int, u \in Int, mm \in Int :
          eg = e * G /\ jg = j * G /\ u = s * Us /\ mm = timer0_millis * MS
    BY ONLY <1>2, e \in Int, j \in Int, s \in Int, G \in Nat \ {0}
  <2>6. a * Us = eg + u  BY ONLY <2>1, <2>2, <2>3, <2>5, Zenon
  <2>7. eg + u = mm + f + jg  BY ONLY <1>8, <2>5, <2>6, Zenon
  <2>8. u = mm + f + (jg - eg)
    BY ONLY <1>2, <2>7, eg \in Int, u \in Int, mm \in Int, jg \in Int, f \in 0..(MS - 1)
  <2> QED  BY ONLY <2>4, <2>5, <2>8, Zenon
<1>11. PICK h \in Int : h = z * LongSize + timer0_millis  BY ONLY <1>2, z \in Int
<1>12. s * Us = h * MS + f
  <2>1. z * G = (z * LongSize) * MS  BY ONLY <1>2, <1>3, z \in Int
  <2>2. PICK b \in Int : b = z * LongSize  BY ONLY <1>2, z \in Int
  <2>3. (b + timer0_millis) * MS = b * MS + timer0_millis * MS /\ b * MS \in Int /\ timer0_millis * MS \in Int
    BY ONLY <1>2, b \in Int
  <2>4. s * Us = timer0_millis * MS + f + b * MS  BY ONLY <1>10, <2>1, <2>2, Zenon
  <2>5. s * Us = (b + timer0_millis) * MS + f  BY ONLY <1>2, <2>3, <2>4, f \in 0..(MS - 1)
  <2> QED  BY ONLY <1>11, <2>2, <2>5, Zenon
<1>13. s * Us \in Int  BY ONLY <1>2, s \in Int
<1>14. (s * Us) % MS = f /\ (s * Us) \div MS = h
  BY ONLY <1>2, <1>12, <1>13, Quotient, Zenon, h \in Int, f \in 0..(MS - 1)
<1>15. h % LongSize = timer0_millis
  BY ONLY <1>2, <1>11, Quotient, Zenon, h \in Int, z \in Int
<1> QED  BY ONLY <1>6, <1>7, <1>14, <1>15, TypeOK, Zenon DEF MillisTrue, Us

\* timer0_millis and timer0_fract are the time of the overflows served, at
\* every rate of the timer for which the shift of FRACT_INC loses nothing:
\* the handler of wiring.c never loses or invents a part of a millisecond.
THEOREM MillisAlwaysTrue == Spec => []MillisTrue
<1>1. ClockInv => MillisTrue  BY MillisIsTime DEF ClockInv
<1> QED  BY <1>1, ClockInvariant, PTL

\* micros() returns the time at which it read TCNT0, whatever the overflows
\* do between its reads and however often its counters have wrapped.
THEOREM MicrosAlwaysTrue == Spec => []MicrosTrue
<1>1. ClockInv => MicrosTrue  BY MicrosIsTime DEF ClockInv, MicrosTrue
<1> QED  BY <1>1, ClockInvariant, PTL

\* delay() of any length counts no millisecond before it has passed.
THEOREM DelayNeverEarly == Spec => []DelayNotEarly
<1>1. ClockInv => DelayNotEarly  BY DEF ClockInv, DelayInv, Waiting, DelayNotEarly
<1> QED  BY <1>1, ClockInvariant, PTL

-----------------------------------------------------------------------------
(***************************************************************************)
(* tone and noTone (Tone).                                                 *)
(***************************************************************************)

-----------------------------------------------------------------------------
(* The two halves of the count.                                             *)

Join(h, l) == h * Half + l

\* A word is its two halves.
LEMMA Halves ==
  ASSUME NEW c \in 0..(Word - 1)
  PROVE  High(c) \in 0..(Half - 1) /\ Low(c) \in 0..(Half - 1) /\ c = Join(High(c), Low(c))
<1> DEFINE q == c \div Half
           r == c % Half
<1>1. Half \in Nat /\ Half > 1  BY ToneAssumption
<1>2. Half * Half \in Nat  BY <1>1
<1>3. c \in Nat /\ c < Half * Half  BY <1>2 DEF Word
<1>4. r \in 0..(Half - 1) /\ q \in Nat /\ c = q * Half + r  BY <1>1, <1>3, SMT
<1> HIDE DEF q, r
<1>5. q < Half
  <2> SUFFICES ASSUME q >= Half PROVE FALSE  BY <1>1, <1>4
  <2>1. q * Half >= Half * Half  BY ONLY <1>1, <1>4, q >= Half, SMT
  <2> QED  BY ONLY <1>1, <1>2, <1>3, <1>4, <2>1
<1> QED  BY ONLY <1>1, <1>4, <1>5 DEF High, Low, Join, q, r

\* Two halves make a word with those halves.
LEMMA Joined ==
  ASSUME NEW h \in 0..(Half - 1), NEW l \in 0..(Half - 1)
  PROVE  Join(h, l) \in 0..(Word - 1) /\ High(Join(h, l)) = h /\ Low(Join(h, l)) = l
<1> DEFINE c == h * Half + l
           q == c \div Half
           r == c % Half
<1>1. Half \in Nat /\ Half > 1  BY ToneAssumption
<1>2. h * Half <= (Half - 1) * Half /\ h * Half >= 0
  BY <1>1, SMT
<1>3. (Half - 1) * Half = Half * Half - Half /\ Half * Half \in Nat  BY <1>1
<1>4. c \in Nat /\ c < Half * Half  BY <1>1, <1>2, <1>3
<1>5. r \in 0..(Half - 1) /\ q \in Nat /\ c = q * Half + r  BY <1>1, <1>4, SMT
<1>6. (q - h) * Half = l - r  BY <1>1, <1>5
<1> HIDE DEF q, r
<1>7. q - h < 1
  <2> SUFFICES ASSUME q - h >= 1 PROVE FALSE  BY <1>5
  <2>1. (q - h) * Half >= Half  BY <1>1, <1>5, SMT
  <2> QED  BY <2>1, <1>1, <1>5, <1>6
<1>8. q - h > -1
  <2> SUFFICES ASSUME q - h <= -1 PROVE FALSE  BY <1>5
  <2>1. (q - h) * Half <= -Half  BY <1>1, <1>5, SMT
  <2> QED  BY <2>1, <1>1, <1>5, <1>6
<1>9. q = h  BY <1>5, <1>7, <1>8
<1>10. r = l  BY <1>1, <1>5, <1>6, <1>9
<1>11. Join(h, l) = c  BY DEF Join
<1> QED  BY <1>3, <1>4, <1>9, <1>10, <1>11 DEF High, Low, Word, q, r

-----------------------------------------------------------------------------
(* The inductive invariant.                                                 *)

Storing == {"low", "high", "last", "enable"}

\* noTone() has freed the timer and not yet set the pin low.
Releasing == tone_pc \in {"disable", "write"} /\ matched

\* Who has the timer.
Owned ==
  /\ tone_pc # "sketch" => arg \in Pins
  /\ tone_pin # None /\ tone_pc # "configure" => CTC /\ timer2_pin = tone_pin
  /\ tone_pc = "configure" => tone_pin = arg /\ ~OCIE2A
  /\ tone_pc \in Storing => tone_pin = arg
  /\ tone_pc \in {"disable", "write"} => tone_pin # arg
  /\ Releasing => tone_pin = None
  /\ tone_pc = "disable" /\ matched => timer2_pin = arg
  /\ OCIE2A => timer2_pin \in Pins
  /\ OCIE2A /\ ~(tone_pc = "disable" /\ matched) => tone_pin = timer2_pin

\* Whose tone is wanted.
Wanted ==
  /\ wanted = None \/ wanted = tone_pin \/ (Releasing /\ wanted = arg)
  /\ tone_pc = "enable" => wanted = arg
  /\ OCIE2A /\ ~(tone_pc = "disable" /\ matched) => wanted = timer2_pin

\* Only the pin of a wanted tone, or of one that is being ended, is high.
Levels == \A p \in Pins : level[p] => p = wanted \/ (Releasing /\ p = arg)

\* What is left of the count the interrupt works with.
Left(c) == IF Negative(c) THEN -1 ELSE c

Counted ==
  /\ tone_pc = "high" => Low(timer2_toggle_count) = Low(toggle_count)
  /\ tone_pc = "last" => High(timer2_toggle_count) = High(toggle_count)
  /\ (OCIE2A /\ tone_pc \notin {"high", "last"}) \/ tone_pc = "enable" =>
       toggles = Left(timer2_toggle_count)

ToneInv == ToneTypeOK /\ (~raced => Owned /\ Wanted /\ Levels /\ Counted)

\* What the assumption says of the word.
LEMMA WordFacts ==
  /\ Word \in Nat /\ Word > 0 /\ Forever \in 0..(Word - 1)
  /\ Word \div 2 \in Nat /\ Word \div 2 <= Word
  /\ Counts \subseteq 0..(Word - 1)
<1>1. Half \in Nat /\ Half > 1  BY ToneAssumption
<1>2. Half * Half >= Half /\ Half * Half \in Nat  BY <1>1, SMT
<1>3. Word \in Nat /\ Word > 0  BY <1>1, <1>2 DEF Word
<1>4. Word \div 2 \in Nat /\ Word \div 2 <= Word  BY ONLY <1>3
<1>5. Counts \subseteq 0..(Word \div 2 - 1)  BY ToneAssumption
<1> QED  BY ONLY <1>3, <1>4, <1>5 DEF Forever

\* The first and the second store mix two words.
LEMMA Mixed ==
  ASSUME NEW c \in 0..(Word - 1), NEW e \in 0..(Word - 1)
  PROVE  LET mix == High(c) * Half + Low(e)
         IN  mix \in 0..(Word - 1) /\ High(mix) = High(c) /\ Low(mix) = Low(e)
<1>1. High(c) \in 0..(Half - 1) /\ Low(e) \in 0..(Half - 1)  BY Halves
<1>2. High(c) * Half + Low(e) = Join(High(c), Low(e))  BY DEF Join
<1> QED  BY ONLY <1>1, <1>2, Joined

\* Every step keeps the types.
LEMMA StepToneType ==
  ASSUME ToneTypeOK, [ToneNext]_tone_vars
  PROVE  ToneTypeOK'
<1> DEFINE Codes == {"sketch", "begin", "configure", "low", "high", "last", "enable",
                     "free", "disable", "write"}
           AnyCount == 0..(Word - 1)
<1>1. /\ tone_pin \in Owner /\ timer2_pin \in Owner /\ wanted \in Owner /\ arg \in Owner
      /\ timer2_toggle_count \in AnyCount /\ toggle_count \in AnyCount
      /\ OCIE2A \in BOOLEAN /\ CTC \in BOOLEAN /\ matched \in BOOLEAN /\ raced \in BOOLEAN
      /\ level \in [Pins -> BOOLEAN] /\ tone_pc \in Codes /\ toggles \in -1..(Word \div 2)
  BY DEF ToneTypeOK
<1>2. None \in Owner /\ Pins \subseteq Owner  BY DEF Owner
<1>3. 0 \in AnyCount /\ Forever \in AnyCount /\ Counts \subseteq AnyCount  BY WordFacts
<1>4. 0 \in -1..(Word \div 2) /\ -1 \in -1..(Word \div 2)  BY WordFacts
<1> USE DEF ToneTypeOK
<1>5. CASE UNCHANGED tone_vars  BY ONLY <1>5, ToneTypeOK DEF tone_vars, hardware, tone_call, ToneTypeOK
<1>6. CASE ToneCalls
  <2>1. /\ UNCHANGED <<tone_pin, timer2_pin, timer2_toggle_count, hardware, matched, wanted, toggles, raced>>
        /\ arg' \in Pins /\ tone_pc' \in Codes /\ toggle_count' \in AnyCount
    BY ONLY <1>1, <1>3, <1>6 DEF ToneCalls, noTone, tone
  <2> QED  BY ONLY <1>1, <1>2, <2>1 DEF ToneTypeOK, hardware
<1>7. CASE toneBegin
  BY ONLY <1>1, <1>2, <1>3, <1>7, Zenon DEF toneBegin, Return, ToneTypeOK, hardware
<1>8. CASE Configure
  BY ONLY <1>1, <1>8 DEF Configure, ToneTypeOK
<1>9. CASE StoreFirst
  <2>1. /\ High(timer2_toggle_count) * Half + Low(toggle_count) \in AnyCount
        /\ High(toggle_count) * Half + Low(timer2_toggle_count) \in AnyCount
    BY ONLY <1>1, Mixed
  <2> QED  BY ONLY <1>1, <1>9, <2>1 DEF StoreFirst, ToneTypeOK, hardware
<1>10. CASE StoreSecond
  <2>1. /\ High(timer2_toggle_count) * Half + Low(toggle_count) \in AnyCount
        /\ High(toggle_count) * Half + Low(timer2_toggle_count) \in AnyCount
    BY ONLY <1>1, Mixed
  <2>2. toggles' \in -1..(Word \div 2)
    <3>1. toggles' = IF Negative(toggle_count) THEN -1 ELSE toggle_count
      BY ONLY <1>10 DEF StoreSecond
    <3> QED  BY ONLY <1>1, <1>4, <3>1, WordFacts DEF Negative
  <2> QED  BY ONLY <1>1, <1>10, <2>1, <2>2 DEF StoreSecond, ToneTypeOK, hardware
<1>11. CASE Enable
  BY ONLY <1>1, <1>2, <1>3, <1>11, Zenon DEF Enable, Return, ToneTypeOK
<1>12. CASE Free
  <2>1. matched' \in BOOLEAN  BY ONLY <1>12, Zenon DEF Free
  <2> QED  BY ONLY <1>1, <1>2, <1>12, <2>1 DEF Free, ToneTypeOK, hardware
<1>13. CASE Disable
  BY ONLY <1>1, <1>13, Zenon DEF Disable, disableTimer, ToneTypeOK
<1>14. CASE WriteLow
  BY ONLY <1>1, <1>2, <1>3, <1>4, <1>14, Zenon DEF WriteLow, Return, ToneTypeOK
<1>15. CASE Toggle
  <2>1. level' \in [Pins -> BOOLEAN]
    BY ONLY <1>1, <1>15, Zenon DEF Toggle
  <2>2. timer2_toggle_count' \in AnyCount
    BY ONLY <1>1, <1>15, WordFacts DEF Toggle
  <2>3. toggles' \in -1..(Word \div 2)
    BY ONLY <1>1, <1>15, WordFacts DEF Toggle
  <2>4. raced' \in BOOLEAN  BY ONLY <1>15, <1>1, Zenon DEF Toggle, Races
  <2> QED  BY ONLY <1>1, <1>15, <2>1, <2>2, <2>3, <2>4 DEF Toggle, ToneTypeOK, tone_call
<1>16. CASE ToneOver
  <2>1. level' \in [Pins -> BOOLEAN]  BY ONLY <1>1, <1>16, Zenon DEF ToneOver
  <2>2. raced' \in BOOLEAN  BY ONLY <1>16, <1>1, Zenon DEF ToneOver, Races
  <2> QED  BY ONLY <1>1, <1>2, <1>16, <2>1, <2>2, Zenon DEF ToneOver, disableTimer, ToneTypeOK, tone_call
<1> QED
  BY ONLY [ToneNext]_tone_vars, <1>5, <1>6, <1>7, <1>8, <1>9, <1>10, <1>11, <1>12, <1>13,
          <1>14, <1>15, <1>16, Zenon
  DEF ToneNext, ToneInCall, TIMER2_COMPA_vect

\* A race is never forgotten.
LEMMA RaceStays ==
  ASSUME [ToneNext]_tone_vars, raced
  PROVE  raced'
<1>1. CASE Toggle \/ ToneOver  BY <1>1, Zenon DEF Toggle, ToneOver, Races
<1>2. CASE ToneCalls \/ ToneInCall \/ UNCHANGED tone_vars
  BY <1>2, Zenon DEF ToneCalls, noTone, tone, ToneInCall, toneBegin, Configure, StoreFirst, StoreSecond,
     Enable, Free, Disable, WriteLow, tone_vars
<1> QED  BY <1>1, <1>2, Zenon DEF ToneNext, TIMER2_COMPA_vect

\* Every step that is no race keeps the timer with the pin that has it.
LEMMA StepOwned ==
  ASSUME ToneTypeOK, Owned, [ToneNext]_tone_vars, ~raced'
  PROVE  Owned'
<1>1. None \notin Pins  BY ToneAssumption
<1> USE DEF Owned, Releasing, Storing
<1>2. CASE UNCHANGED tone_vars  BY ONLY <1>2, Owned, Zenon DEF tone_vars, hardware, tone_call
<1>3. CASE ToneCalls
  <2>1. /\ UNCHANGED <<tone_pin, timer2_pin, hardware, matched>>
        /\ tone_pc = "sketch" /\ tone_pc' \in {"begin", "free"} /\ arg' \in Pins
    BY ONLY <1>3 DEF ToneCalls, noTone, tone
  <2> QED  BY ONLY <2>1, Owned DEF hardware
<1>4. CASE toneBegin
  <2>1. tone_pc = "begin" /\ UNCHANGED <<timer2_pin, hardware>>  BY ONLY <1>4 DEF toneBegin
  <2>2. CASE tone_pin = arg /\ tone_pc' = "low" /\ UNCHANGED <<tone_pin, arg, matched>>
    BY ONLY <1>1, <2>1, <2>2, Owned DEF hardware
  <2>3. CASE tone_pin = None /\ tone_pin' = arg /\ tone_pc' = "configure" /\ UNCHANGED <<arg, matched>>
    BY ONLY <1>1, <2>1, <2>3, Owned DEF hardware
  <2>4. CASE Return /\ UNCHANGED tone_pin
    BY ONLY <1>1, <2>1, <2>4, Owned DEF hardware, Return
  <2> QED  BY ONLY <1>4, <2>2, <2>3, <2>4, Zenon DEF toneBegin
<1>5. CASE Configure
  <2>1. /\ tone_pc = "configure" /\ tone_pc' = "low" /\ CTC' = TRUE /\ timer2_pin' = arg
        /\ UNCHANGED <<tone_pin, OCIE2A, arg, matched>>
    BY ONLY <1>5 DEF Configure
  <2> QED  BY ONLY <1>1, <2>1, Owned
<1>6. CASE StoreFirst
  <2>1. /\ tone_pc = "low" /\ tone_pc' \in {"high", "last"}
        /\ UNCHANGED <<tone_pin, timer2_pin, hardware, arg, matched>>
    BY ONLY <1>6 DEF StoreFirst
  <2> QED  BY ONLY <1>1, <2>1, Owned DEF hardware
<1>7. CASE StoreSecond
  <2>1. /\ tone_pc \in {"high", "last"} /\ tone_pc' = "enable"
        /\ UNCHANGED <<tone_pin, timer2_pin, hardware, arg, matched>>
    BY ONLY <1>7 DEF StoreSecond
  <2> QED  BY ONLY <1>1, <2>1, Owned DEF hardware
<1>8. CASE Enable
  <2>1. /\ tone_pc = "enable" /\ tone_pc' = "sketch" /\ OCIE2A' = TRUE
        /\ UNCHANGED <<tone_pin, timer2_pin, CTC>>
    BY ONLY <1>8 DEF Enable, Return
  <2> QED  BY ONLY <1>1, <2>1, Owned
<1>9. CASE Free
  <2>1. /\ tone_pc = "free" /\ tone_pc' = "disable" /\ matched' = (tone_pin = arg)
        /\ tone_pin' = IF tone_pin = arg THEN None ELSE tone_pin
        /\ UNCHANGED <<timer2_pin, hardware, arg>>
    BY ONLY <1>9 DEF Free
  <2> QED  BY ONLY <1>1, <2>1, Owned, Zenon DEF hardware
<1>10. CASE Disable
  <2>1. /\ tone_pc = "disable" /\ tone_pc' = "write" /\ UNCHANGED <<tone_pin, timer2_pin, arg, matched>>
        /\ IF matched THEN OCIE2A' = FALSE /\ CTC' = FALSE ELSE UNCHANGED <<OCIE2A, CTC>>
    BY ONLY <1>10 DEF Disable, disableTimer
  <2> QED  BY ONLY <1>1, <2>1, Owned
<1>11. CASE WriteLow
  <2>1. tone_pc = "write" /\ tone_pc' = "sketch" /\ UNCHANGED <<tone_pin, timer2_pin, OCIE2A, CTC>>
    BY ONLY <1>11 DEF WriteLow, Return
  <2> QED  BY ONLY <1>1, <2>1, Owned
<1>12. CASE Toggle
  <2>1. UNCHANGED <<tone_pin, timer2_pin, OCIE2A, CTC, tone_call>>  BY ONLY <1>12 DEF Toggle
  <2> QED  BY ONLY <2>1, Owned, Zenon DEF tone_call
<1>13. CASE ToneOver
  <2>1. /\ OCIE2A /\ OCIE2A' = FALSE /\ tone_pin' = None /\ UNCHANGED <<timer2_pin, tone_call>>
        /\ tone_pc \notin {"low", "high", "last", "enable"}
    BY ONLY <1>13, ~raced', Zenon DEF ToneOver, disableTimer, Races
  <2> QED  BY ONLY <1>1, <2>1, Owned DEF tone_call
<1> QED
  BY ONLY [ToneNext]_tone_vars, <1>2, <1>3, <1>4, <1>5, <1>6, <1>7, <1>8, <1>9, <1>10, <1>11,
          <1>12, <1>13, Zenon
  DEF ToneNext, ToneInCall, TIMER2_COMPA_vect

\* Every step that is no race keeps the tone of the pin that has the timer
\* the wanted one.
LEMMA StepWanted ==
  ASSUME ToneTypeOK, Owned, Wanted, [ToneNext]_tone_vars, ~raced'
  PROVE  Wanted'
<1>1. None \notin Pins  BY ToneAssumption
<1> USE DEF Owned, Wanted, Releasing, Storing
<1>2. CASE UNCHANGED tone_vars  BY ONLY <1>2, Wanted, Zenon DEF tone_vars, hardware, tone_call
<1>3. CASE ToneCalls
  <2>1. /\ UNCHANGED <<tone_pin, timer2_pin, hardware, matched, wanted>>
        /\ tone_pc = "sketch" /\ tone_pc' \in {"begin", "free"}
    BY ONLY <1>3 DEF ToneCalls, noTone, tone
  <2> QED  BY ONLY <2>1, Wanted DEF hardware
<1>4. CASE toneBegin
  <2>1. /\ tone_pc = "begin" /\ tone_pc' \in {"low", "configure", "sketch"}
        /\ UNCHANGED <<timer2_pin, hardware, wanted>>
        /\ tone_pin' = tone_pin \/ tone_pin = None
    BY ONLY <1>4 DEF toneBegin, Return
  <2> QED  BY ONLY <1>1, <2>1, Owned, Wanted DEF hardware
<1>5. CASE Configure
  <2>1. /\ tone_pc = "configure" /\ tone_pc' = "low"
        /\ UNCHANGED <<tone_pin, OCIE2A, wanted>>
    BY ONLY <1>5 DEF Configure
  <2> QED  BY ONLY <1>1, <2>1, Owned, Wanted
<1>6. CASE StoreFirst
  <2>1. /\ tone_pc = "low" /\ tone_pc' \in {"high", "last"}
        /\ UNCHANGED <<tone_pin, timer2_pin, hardware, wanted>>
    BY ONLY <1>6 DEF StoreFirst
  <2> QED  BY ONLY <1>1, <2>1, Owned, Wanted DEF hardware
<1>7. CASE StoreSecond
  <2>1. /\ tone_pc \in {"high", "last"} /\ tone_pc' = "enable" /\ wanted' = arg
        /\ UNCHANGED <<tone_pin, timer2_pin, hardware, arg, matched>>
    BY ONLY <1>7 DEF StoreSecond
  <2> QED  BY ONLY <1>1, <2>1, Owned, Wanted DEF hardware
<1>8. CASE Enable
  <2>1. /\ tone_pc = "enable" /\ tone_pc' = "sketch" /\ UNCHANGED <<tone_pin, timer2_pin, wanted>>
    BY ONLY <1>8 DEF Enable, Return
  <2> QED  BY ONLY <1>1, <2>1, Owned, Wanted
<1>9. CASE Free
  <2>1. /\ tone_pc = "free" /\ tone_pc' = "disable" /\ matched' = (tone_pin = arg)
        /\ tone_pin' = IF tone_pin = arg THEN None ELSE tone_pin
        /\ UNCHANGED <<timer2_pin, hardware, arg, wanted>>
    BY ONLY <1>9 DEF Free
  <2> QED  BY ONLY <1>1, <2>1, Owned, Wanted, Zenon DEF hardware
<1>10. CASE Disable
  <2>1. /\ tone_pc = "disable" /\ tone_pc' = "write"
        /\ UNCHANGED <<tone_pin, timer2_pin, arg, matched, wanted>>
        /\ IF matched THEN OCIE2A' = FALSE ELSE UNCHANGED OCIE2A
    BY ONLY <1>10 DEF Disable, disableTimer
  <2> QED  BY ONLY <1>1, <2>1, Owned, Wanted
<1>11. CASE WriteLow
  <2>1. /\ tone_pc = "write" /\ tone_pc' = "sketch" /\ UNCHANGED <<tone_pin, timer2_pin, OCIE2A>>
        /\ wanted' = IF wanted = arg THEN None ELSE wanted
    BY ONLY <1>11 DEF WriteLow, Return
  <2> QED  BY ONLY <1>1, <2>1, Owned, Wanted
<1>12. CASE Toggle
  <2>1. UNCHANGED <<tone_pin, timer2_pin, OCIE2A, tone_call, wanted>>  BY ONLY <1>12 DEF Toggle
  <2> QED  BY ONLY <2>1, Wanted, Zenon DEF tone_call
<1>13. CASE ToneOver
  <2>1. /\ OCIE2A' = FALSE /\ wanted' = None /\ UNCHANGED tone_call
        /\ tone_pc \notin {"low", "high", "last", "enable"}
    BY ONLY <1>13, ~raced', Zenon DEF ToneOver, disableTimer, Races
  <2> QED  BY ONLY <1>1, <2>1 DEF tone_call
<1> QED
  BY ONLY [ToneNext]_tone_vars, <1>2, <1>3, <1>4, <1>5, <1>6, <1>7, <1>8, <1>9, <1>10, <1>11,
          <1>12, <1>13, Zenon
  DEF ToneNext, ToneInCall, TIMER2_COMPA_vect

\* Every step that is no race leaves the other pins low.
LEMMA StepLevels ==
  ASSUME ToneTypeOK, Owned, Wanted, Levels, [ToneNext]_tone_vars, ~raced'
  PROVE  Levels'
<1>1. None \notin Pins /\ level \in [Pins -> BOOLEAN]  BY ToneAssumption DEF ToneTypeOK
<1> SUFFICES ASSUME NEW p \in Pins, level'[p]
             PROVE  p = wanted' \/ (Releasing' /\ p = arg')
  BY DEF Levels
<1>2. level[p] => p = wanted \/ (Releasing /\ p = arg)  BY DEF Levels
<1> USE DEF Owned, Wanted, Releasing, Storing
<1>3. CASE UNCHANGED tone_vars
  <2>1. UNCHANGED <<level, wanted, tone_pc, matched, arg>>  BY ONLY <1>3 DEF tone_vars, hardware, tone_call
  <2> QED  BY ONLY <1>2, <2>1, level'[p], Zenon
<1>4. CASE ToneCalls
  <2>1. tone_pc = "sketch" /\ UNCHANGED <<level, wanted>>
    BY ONLY <1>4 DEF ToneCalls, noTone, tone, hardware
  <2> QED  BY ONLY <1>2, <2>1, level'[p]
<1>5. CASE toneBegin \/ Configure \/ StoreFirst \/ Enable \/ Free
  <2>1. tone_pc \notin {"disable", "write"} /\ UNCHANGED <<level, wanted>>
    BY ONLY <1>5 DEF toneBegin, Configure, StoreFirst, Enable, Free, hardware
  <2> QED  BY ONLY <1>2, <2>1, level'[p]
<1>6. CASE StoreSecond
  <2>1. tone_pc \in {"high", "last"} /\ wanted' = arg /\ UNCHANGED level
    BY ONLY <1>6 DEF StoreSecond, hardware
  <2> QED  BY ONLY <1>1, <1>2, <2>1, level'[p], p \in Pins, Owned, Wanted
<1>7. CASE Disable
  <2>1. tone_pc = "disable" /\ tone_pc' = "write" /\ UNCHANGED <<level, wanted, matched, arg>>
    BY ONLY <1>7 DEF Disable
  <2> QED  BY ONLY <1>2, <2>1, level'[p]
<1>8. CASE WriteLow
  <2>1. /\ level' = [level EXCEPT ![arg] = FALSE]
        /\ wanted' = IF wanted = arg THEN None ELSE wanted
    BY ONLY <1>8 DEF WriteLow
  <2>2. p # arg /\ level[p]  BY ONLY <1>1, <2>1, level'[p], p \in Pins
  <2> QED  BY ONLY <1>2, <2>1, <2>2
<1>9. CASE Toggle
  <2>1. /\ OCIE2A /\ level' = [level EXCEPT ![timer2_pin] = ~level[timer2_pin]]
        /\ UNCHANGED <<wanted, tone_pc, matched, arg>>
    BY ONLY <1>9 DEF Toggle, tone_call
  <2>2. CASE p = timer2_pin
    BY ONLY <2>1, <2>2, Owned, Wanted
  <2>3. CASE p # timer2_pin
    <3>1. level[p]  BY ONLY <1>1, <2>1, <2>3, level'[p], p \in Pins
    <3> QED  BY ONLY <1>2, <2>1, <3>1, Zenon
  <2> QED  BY ONLY <2>2, <2>3
<1>10. CASE ToneOver
  <2>1. /\ OCIE2A /\ UNCHANGED <<tone_pc, matched, arg>>
        /\ \E q \in IF tone_pin = None THEN Owner ELSE {tone_pin} :
             level' = [r \in Pins |-> IF r = q THEN FALSE ELSE level[r]]
    BY ONLY <1>10, Zenon DEF ToneOver, tone_call
  <2>2. level[p] /\ (tone_pin # None => p # tone_pin)
    BY ONLY <2>1, level'[p], p \in Pins
  <2>3. Releasing /\ p = arg
    BY ONLY <1>1, <1>2, <2>1, <2>2, Owned, Wanted, p \in Pins
  <2> QED  BY ONLY <2>1, <2>3, Zenon
<1> QED
  BY ONLY [ToneNext]_tone_vars, <1>3, <1>4, <1>5, <1>6, <1>7, <1>8, <1>9, <1>10, Zenon
  DEF ToneNext, ToneInCall, TIMER2_COMPA_vect

\* Every step that is no race keeps the count that of the tone asked for.
LEMMA StepCounted ==
  ASSUME ToneTypeOK, Owned, Wanted, Counted, [ToneNext]_tone_vars, ~raced'
  PROVE  Counted'
<1>1. None \notin Pins  BY ToneAssumption
<1>2. /\ timer2_toggle_count \in 0..(Word - 1) /\ toggle_count \in 0..(Word - 1)
      /\ toggles \in -1..(Word \div 2)
  BY DEF ToneTypeOK
<1> DEFINE Agree == toggles = Left(timer2_toggle_count)
<1>3. ASSUME tone_pc' \notin {"high", "last", "enable"}, ~OCIE2A' PROVE Counted'
  BY ONLY <1>3 DEF Counted
<1>4. ASSUME tone_pc' \notin {"high", "last", "enable"}, tone_pc \notin {"high", "last"},
             UNCHANGED <<OCIE2A, timer2_toggle_count, toggles>>
      PROVE  Counted'
  BY ONLY <1>4, Counted DEF Counted
<1>5. CASE UNCHANGED tone_vars
  <2>1. UNCHANGED <<OCIE2A, timer2_toggle_count, toggle_count, toggles, tone_pc>>
    BY ONLY <1>5 DEF tone_vars, hardware, tone_call
  <2> QED  BY ONLY <2>1, Counted, Zenon DEF Counted
<1>6. CASE ToneCalls \/ toneBegin \/ Configure \/ Free
  BY ONLY <1>4, <1>6 DEF ToneCalls, noTone, tone, toneBegin, Return, Configure, Free, hardware
<1>7. CASE Disable
  <2>1. /\ tone_pc = "disable" /\ tone_pc' = "write" /\ UNCHANGED <<timer2_toggle_count, toggles>>
        /\ OCIE2A' = FALSE \/ UNCHANGED OCIE2A
    BY ONLY <1>7 DEF Disable, disableTimer
  <2> QED  BY ONLY <1>3, <1>4, <2>1
<1>8. CASE StoreFirst
  <2>1. /\ Low(High(timer2_toggle_count) * Half + Low(toggle_count)) = Low(toggle_count)
        /\ High(High(toggle_count) * Half + Low(timer2_toggle_count)) = High(toggle_count)
    BY ONLY <1>2, Mixed
  <2>2. toggle_count' = toggle_count  BY ONLY <1>8 DEF StoreFirst
  <2>3. CASE /\ timer2_toggle_count' = High(timer2_toggle_count) * Half + Low(toggle_count)
             /\ tone_pc' = "high"
    <3>1. Low(timer2_toggle_count') = Low(toggle_count')  BY ONLY <2>1, <2>2, <2>3
    <3> QED  BY ONLY <2>3, <3>1 DEF Counted
  <2>4. CASE /\ timer2_toggle_count' = High(toggle_count) * Half + Low(timer2_toggle_count)
             /\ tone_pc' = "last"
    <3>1. High(timer2_toggle_count') = High(toggle_count')  BY ONLY <2>1, <2>2, <2>4
    <3> QED  BY ONLY <2>4, <3>1 DEF Counted
  <2> QED  BY ONLY <1>8, <2>3, <2>4 DEF StoreFirst
<1>9. CASE StoreSecond
  <2>1. toggle_count = High(toggle_count) * Half + Low(toggle_count)
    BY ONLY <1>2, Halves DEF Join
  <2>2. timer2_toggle_count' = toggle_count
    BY ONLY <1>9, <2>1, Counted DEF StoreSecond, Counted
  <2>3. tone_pc' = "enable" /\ toggles' = Left(toggle_count)
    BY ONLY <1>9 DEF StoreSecond, Left
  <2> QED  BY ONLY <2>2, <2>3 DEF Counted
<1>10. CASE Enable
  <2>1. tone_pc = "enable" /\ tone_pc' = "sketch" /\ UNCHANGED <<timer2_toggle_count, toggles>>
    BY ONLY <1>10 DEF Enable, Return
  <2> QED  BY ONLY <2>1, Counted DEF Counted
<1>11. CASE WriteLow
  <2>1. /\ tone_pc = "write" /\ tone_pc' = "sketch" /\ UNCHANGED <<timer2_toggle_count, OCIE2A>>
        /\ toggles' = IF wanted = arg THEN 0 ELSE toggles
    BY ONLY <1>11 DEF WriteLow, Return
  <2>2. OCIE2A => wanted # arg
    BY ONLY <2>1, Owned, Wanted DEF Owned, Wanted
  <2> QED  BY ONLY <2>1, <2>2, Counted DEF Counted
<1>12. CASE Toggle
  <2>1. /\ OCIE2A /\ timer2_toggle_count # 0 /\ UNCHANGED <<tone_pc, toggle_count>>
        /\ timer2_toggle_count' = IF Negative(timer2_toggle_count)
                                  THEN timer2_toggle_count ELSE timer2_toggle_count - 1
        /\ toggles' = IF toggles > 0 THEN toggles - 1 ELSE toggles
    BY ONLY <1>12 DEF Toggle, tone_call
  <2>2. tone_pc \in {"high", "last"} => Negative(timer2_toggle_count)
    BY ONLY <1>12, ~raced', Zenon DEF Toggle, Races
  <2>3. CASE tone_pc \in {"high", "last"}
    BY ONLY <2>1, <2>2, <2>3, Counted DEF Counted
  <2>4. CASE tone_pc \notin {"high", "last"}
    <3>1. toggles = Left(timer2_toggle_count)  BY ONLY <2>1, <2>4, Counted DEF Counted
    <3>2. toggles' = Left(timer2_toggle_count')
      BY ONLY <1>2, <2>1, <3>1, WordFacts DEF Left, Negative
    <3> QED  BY ONLY <2>1, <2>4, <3>2 DEF Counted
  <2> QED  BY ONLY <2>3, <2>4
<1>13. CASE ToneOver
  <2>1. OCIE2A' = FALSE /\ tone_pc' = tone_pc /\ tone_pc \notin {"low", "high", "last", "enable"}
    BY ONLY <1>13, ~raced', Zenon DEF ToneOver, disableTimer, Races, tone_call
  <2> QED  BY ONLY <1>3, <2>1
<1> QED
  BY ONLY [ToneNext]_tone_vars, <1>5, <1>6, <1>7, <1>8, <1>9, <1>10, <1>11, <1>12, <1>13, Zenon
  DEF ToneNext, ToneInCall, TIMER2_COMPA_vect

-----------------------------------------------------------------------------
\* No tone plays at the start.
LEMMA InitToneInv == ToneInit => ToneInv
<1> SUFFICES ASSUME ToneInit PROVE ToneInv  OBVIOUS
<1>1. 0 \in 0..(Word - 1) /\ 0 \in -1..(Word \div 2)  BY WordFacts
<1>2. level \in [Pins -> BOOLEAN] /\ \A p \in Pins : ~level[p]  BY DEF ToneInit
<1>3. ToneTypeOK  BY <1>1, <1>2, Zenon DEF ToneInit, ToneTypeOK, Owner
<1>4. Owned  BY DEF ToneInit, Owned, Releasing, Storing
<1>5. Wanted /\ Counted  BY DEF ToneInit, Wanted, Counted
<1>6. Levels  BY <1>2 DEF Levels
<1> QED  BY ONLY <1>3, <1>4, <1>5, <1>6, Zenon DEF ToneInv

\* Every step of the sketch and the handler keeps the invariant.
LEMMA StepToneInv == ToneInv /\ [ToneNext]_tone_vars => ToneInv'
  BY RaceStays, StepToneType, StepOwned, StepWanted, StepLevels, StepCounted, Zenon DEF ToneInv

\* The invariant of the tones holds in every reachable state.
LEMMA ToneInvariant == ToneSpec => []ToneInv
  BY InitToneInv, StepToneInv, PTL DEF ToneSpec

\* The interrupt toggles the pin entered in tone_pins, and tone() turns it on
\* only for a timer that toneBegin has configured and entered.
THEOREM TimerAlwaysOwned == ToneSpec => []OwnerSounds
<1>1. ToneInv => OwnerSounds
  <2>1. None \notin Pins  BY ToneAssumption
  <2>2. ToneInv => ToneTypeOK /\ (~raced => Owned)  BY Zenon DEF ToneInv
  <2>3. Owned /\ tone_pc = "enable" => CTC /\ tone_pin = arg
    BY ONLY <2>1 DEF Owned, Storing
  <2>4. Owned /\ OCIE2A /\ tone_pc # "disable" => tone_pin = timer2_pin
    BY ONLY Zenon DEF Owned
  <2> QED  BY ONLY <2>2, <2>3, <2>4, Zenon DEF OwnerSounds
<1> QED  BY <1>1, ToneInvariant, PTL

\* No pin but that of the wanted tone is high or toggled between two calls.
THEOREM OthersAlwaysSilent == ToneSpec => []SilentPins
<1>1. ASSUME ToneInv, tone_pc = "sketch", ~raced, NEW p \in Pins \ {wanted}
      PROVE  ~level[p] /\ ~(OCIE2A /\ timer2_pin = p)
  BY <1>1 DEF ToneInv, Wanted, Levels, Releasing
<1>2. ToneInv => SilentPins  BY ONLY <1>1, Zenon DEF SilentPins
<1> QED  BY <1>2, ToneInvariant, PTL

\* A limited tone ends after exactly the toggles that were asked for.
THEOREM TogglesAlwaysTrue == ToneSpec => TogglesTrue
<1>1. ToneInv /\ [ToneNext]_tone_vars => [ToneOver /\ ~raced' => toggles = 0]_tone_vars
  <2> SUFFICES ASSUME ToneInv, [ToneNext]_tone_vars, ToneOver, ~raced' PROVE toggles = 0
    BY Zenon
  <2>1. ~raced  BY RaceStays
  <2>2. OCIE2A /\ timer2_toggle_count = 0 /\ tone_pc \notin {"low", "high", "last", "enable"}
    BY ONLY ToneOver, ~raced', Zenon DEF ToneOver, Races
  <2>3. toggles = Left(0)  BY ONLY <2>1, <2>2, ToneInv DEF ToneInv, Counted
  <2>4. ~Negative(0)
    <3>1. Word \div 2 > 0
      <4>1. Half \in Nat /\ Half > 1  BY ToneAssumption
      <4>2. Half * Half >= 2 * Half  BY ONLY <4>1, SMT
      <4>3. Word \in Nat /\ Word >= 2  BY <4>1, <4>2, WordFacts DEF Word
      <4> QED  BY ONLY <4>3
    <3> QED  BY ONLY <3>1, WordFacts DEF Negative
  <2> QED  BY ONLY <2>3, <2>4 DEF Left
<1> QED  BY <1>1, ToneInvariant, PTL DEF ToneSpec, TogglesTrue
=============================================================================
