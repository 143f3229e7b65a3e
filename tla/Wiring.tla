------------------------------- MODULE Wiring -------------------------------
(***************************************************************************)
(* The clock of a sketch (wiring.c): the overflow handler of timer 0,      *)
(* millis, micros and delay.  The timer hardware and the passing of time   *)
(* are external; `now' counts the ticks of the timer since it started.     *)
(*                                                                         *)
(* In the source TOP is 256, TickUs 4 at 16 MHz, MS 1000, FractUnit 8,     *)
(* LongSize 2^32 and IntSize 2^16.                                         *)
(***************************************************************************)
EXTENDS Integers

CONSTANTS
  TOP,         \* ticks per overflow
  TickUs,      \* 64 / clockCyclesPerMicrosecond()
  MS,          \* microseconds per millisecond
  FractUnit,   \* microseconds per unit of timer0_fract
  LongSize, IntSize,   \* sizes of unsigned long and uint16_t
  Latency,     \* ticks within which a pending overflow interrupt is served
  Delays       \* arguments of delay()

MICROSECONDS_PER_TIMER0_OVERFLOW == TOP * TickUs
MILLIS_INC == MICROSECONDS_PER_TIMER0_OVERFLOW \div MS
FRACT_INC == (MICROSECONDS_PER_TIMER0_OVERFLOW % MS) \div FractUnit
FRACT_MAX == MS \div FractUnit

\* The comment on FRACT_INC: the shift loses nothing at the clocks cared about.
ASSUME ClockAssumption ==
  /\ {TOP, TickUs, MS, FractUnit, LongSize, IntSize} \subseteq Nat \ {0}
  /\ TOP > 2 /\ MS % FractUnit = 0 /\ MICROSECONDS_PER_TIMER0_OVERFLOW % FractUnit = 0
  /\ FRACT_INC + FRACT_MAX <= 256 /\ LongSize % IntSize = 0
  /\ Latency \in 1..(TOP - 2)
  /\ MS + 3 * TickUs < IntSize
  /\ Delays \subseteq Nat

VARIABLES
  now,                    \* ticks so far, modulo Period
  TCNT0, TOV0,
  timer0_overflow_count, timer0_millis, timer0_fract,
  pc, caller,             \* where the sketch is; who called micros()
  m, t,                   \* locals of micros()
  asOf,                   \* the value of now when t was read
  total, ms, start,       \* argument and locals of delay()
  waited,                 \* ticks since delay() read its first time
  since                   \* ticks since micros() disabled interrupts

timer == <<TCNT0, TOV0>>
clock == <<timer0_overflow_count, timer0_millis, timer0_fract>>
locals == <<m, t, asOf>>
waiting == <<total, ms, start>>
vars == <<now, timer, clock, pc, caller, locals, waiting, waited, since>>

Period == LongSize * MS * TOP

\* Microseconds delay() has waited for and not yet counted.
Uncounted == waited * TickUs - (total - ms) * MS

\* Every variable has its type; MillisTrue includes it.
TypeOK ==
  /\ now \in 0..(Period - 1) /\ asOf \in 0..(Period - 1)
  /\ TCNT0 \in 0..(TOP - 1) /\ t \in 0..(TOP - 1) /\ TOV0 \in BOOLEAN
  /\ timer0_overflow_count \in 0..(LongSize - 1) /\ m \in 0..(LongSize - 1)
  /\ timer0_millis \in 0..(LongSize - 1) /\ timer0_fract \in 0..(FRACT_MAX - 1)
  /\ pc \in {"sketch", "count", "tcnt", "test", "poll"}
  /\ caller \in {"none", "sketch", "delay", "poll"}
  /\ start \in 0..(IntSize - 1) /\ ms \in 0..total /\ total \in Delays \cup {0}
  /\ waited \in Nat /\ since \in 0..1

Init ==
  /\ now = 0 /\ TCNT0 = 0 /\ TOV0 = FALSE
  /\ timer0_overflow_count = 0 /\ timer0_millis = 0 /\ timer0_fract = 0
  /\ pc = "sketch" /\ caller = "none"
  /\ m = 0 /\ t = 0 /\ asOf = 0
  /\ total = 0 /\ ms = 0 /\ start = 0 /\ waited = 0 /\ since = 0

-----------------------------------------------------------------------------
(***************************************************************************)
(* External: the timer.  A tick is 64 clock cycles: no two fall between    *)
(* the reads of micros(), a pending overflow is served within Latency, and *)
(* interrupts never keep delay() from the clock until a uint16_t wraps.    *)
(***************************************************************************)

Waiting == pc = "poll" \/ caller = "poll"

Tick ==
  /\ TOV0 => TCNT0 < Latency
  /\ pc \in {"tcnt", "test"} => since = 0
  /\ Waiting => Uncounted + TickUs < IntSize
  /\ now' = (now + 1) % Period
  /\ TCNT0' = (TCNT0 + 1) % TOP
  /\ TOV0' = (TOV0 \/ TCNT0 = TOP - 1)
  /\ since' = IF pc \in {"tcnt", "test"} THEN 1 ELSE 0
  /\ waited' = IF Waiting THEN waited + 1 ELSE 0
  /\ UNCHANGED <<clock, pc, caller, locals, waiting>>

-----------------------------------------------------------------------------
(***************************************************************************)
(* The overflow handler.                                                   *)
(***************************************************************************)

\* The handler as it would be if it lost the remainder.
TIMER0_OVF_vect_zero ==
  /\ TOV0 /\ pc \in {"sketch", "count", "poll"}
  /\ TOV0' = FALSE
  /\ LET f == timer0_fract + FRACT_INC
     IN  /\ timer0_fract' = IF f >= FRACT_MAX THEN 0 ELSE f
         /\ timer0_millis' = (timer0_millis + MILLIS_INC + (IF f >= FRACT_MAX THEN 1 ELSE 0)) % LongSize
  /\ timer0_overflow_count' = (timer0_overflow_count + 1) % LongSize
  /\ UNCHANGED <<now, TCNT0, pc, caller, locals, waiting, waited, since>>

\* Runs whenever interrupts are enabled: not between cli() and the
\* restoring of SREG in micros().
TIMER0_OVF_vect ==
  /\ TOV0 /\ pc \in {"sketch", "count", "poll"}
  /\ TOV0' = FALSE
  /\ LET f == timer0_fract + FRACT_INC
     IN  /\ timer0_fract' = IF f >= FRACT_MAX THEN f - FRACT_MAX ELSE f
         /\ timer0_millis' = (timer0_millis + MILLIS_INC + (IF f >= FRACT_MAX THEN 1 ELSE 0)) % LongSize
  /\ timer0_overflow_count' = (timer0_overflow_count + 1) % LongSize
  /\ UNCHANGED <<now, TCNT0, pc, caller, locals, waiting, waited, since>>

-----------------------------------------------------------------------------
(***************************************************************************)
(* micros and delay.                                                       *)
(***************************************************************************)

micros ==
  /\ pc = "sketch"
  /\ pc' = "count" /\ caller' = "sketch" /\ since' = 0
  /\ UNCHANGED <<now, timer, clock, locals, waiting, waited>>

\* cli(); m = timer0_overflow_count
ReadCount ==
  /\ pc = "count"
  /\ m' = timer0_overflow_count
  /\ pc' = "tcnt" /\ since' = 0
  /\ UNCHANGED <<now, timer, clock, caller, t, asOf, waiting, waited>>

\* t = TCNT0
ReadTCNT0 ==
  /\ pc = "tcnt"
  /\ t' = TCNT0 /\ asOf' = now
  /\ pc' = "test"
  /\ UNCHANGED <<now, timer, clock, caller, m, waiting, waited, since>>

\* What micros() takes for the number of overflows, without its test of t.
Overflows_flag == IF TOV0 THEN (m + 1) % LongSize ELSE m

\* if ((TIFR0 & _BV(TOV0)) && (t < 255)) m++
Overflows == IF TOV0 /\ t < TOP - 1 THEN (m + 1) % LongSize ELSE m

\* return ((m << 8) + t) * (64 / clockCyclesPerMicrosecond())
Micros == ((Overflows * TOP + t) * TickUs) % LongSize

\* The sketch's own call returns.
MicrosReturns ==
  /\ pc = "test" /\ caller = "sketch"
  /\ pc' = "sketch" /\ caller' = "none" /\ since' = 0
  /\ m' = 0 /\ t' = 0 /\ asOf' = 0
  /\ UNCHANGED <<now, timer, clock, waiting, waited>>

delay(n) ==
  /\ pc = "sketch"
  /\ total' = n /\ ms' = n
  /\ pc' = "count" /\ caller' = "delay" /\ since' = 0
  /\ UNCHANGED <<now, timer, clock, locals, start, waited>>

\* uint16_t start = (uint16_t)micros()
DelayStarts ==
  /\ pc = "test" /\ caller = "delay"
  /\ start' = Micros % IntSize
  /\ waited' = now - asOf + (IF now < asOf THEN Period ELSE 0)
  /\ pc' = "poll" /\ caller' = "none" /\ since' = 0
  /\ m' = 0 /\ t' = 0 /\ asOf' = 0
  /\ UNCHANGED <<now, timer, clock, total, ms>>

\* The loop calls micros() while ms > 0.
DelayLooks ==
  /\ pc = "poll" /\ ms > 0
  /\ pc' = "count" /\ caller' = "poll"
  /\ UNCHANGED <<now, timer, clock, locals, waiting, waited, since>>

\* The loop as it would be if its subtraction did not wrap.
DelayCounts_wide ==
  /\ pc = "test" /\ caller = "poll"
  /\ IF (Micros % IntSize) - start >= MS
     THEN ms' = ms - 1 /\ start' = (start + MS) % IntSize
     ELSE UNCHANGED <<ms, start>>
  /\ pc' = "poll" /\ caller' = "none" /\ since' = 0
  /\ m' = 0 /\ t' = 0 /\ asOf' = 0
  /\ UNCHANGED <<now, timer, clock, total, waited>>

\* if (((uint16_t)micros() - start) >= 1000) { ms--; start += 1000; }
DelayCounts ==
  /\ pc = "test" /\ caller = "poll"
  /\ IF ((Micros % IntSize) - start + IntSize) % IntSize >= MS
     THEN ms' = ms - 1 /\ start' = (start + MS) % IntSize
     ELSE UNCHANGED <<ms, start>>
  /\ pc' = "poll" /\ caller' = "none" /\ since' = 0
  /\ m' = 0 /\ t' = 0 /\ asOf' = 0
  /\ UNCHANGED <<now, timer, clock, total, waited>>

DelayReturns ==
  /\ pc = "poll" /\ ms = 0
  /\ pc' = "sketch"
  /\ total' = 0 /\ start' = 0 /\ waited' = 0 /\ since' = 0
  /\ UNCHANGED <<now, timer, clock, caller, locals, ms>>

Sketch == micros \/ \E n \in Delays : delay(n)

InCall ==
  \/ ReadCount \/ ReadTCNT0 \/ MicrosReturns
  \/ DelayStarts \/ DelayLooks \/ DelayCounts \/ DelayReturns

Next == Tick \/ TIMER0_OVF_vect \/ Sketch \/ InCall

Spec == Init /\ [][Next]_vars

\* Time passes and the processor runs; a pending interrupt is taken as soon
\* as interrupts are enabled, however briefly that is.
FairSpec == Spec /\ WF_vars(Tick) /\ SF_vars(TIMER0_OVF_vect) /\ WF_vars(InCall)

-----------------------------------------------------------------------------
(***************************************************************************)
(* Properties.                                                             *)
(***************************************************************************)

\* Overflows the handler has served.
Served == ((now - TCNT0) \div TOP - (IF TOV0 THEN 1 ELSE 0)) % (LongSize * MS)

\* timer0_millis is the whole number of milliseconds in the overflows
\* served, and timer0_fract the rest: the handler's sums lose nothing, also
\* when the counters wrap.  millis() returns timer0_millis.
MillisTrue ==
  /\ TypeOK
  /\ timer0_millis = ((Served * MICROSECONDS_PER_TIMER0_OVERFLOW) \div MS) % LongSize
  /\ timer0_fract * FractUnit = (Served * MICROSECONDS_PER_TIMER0_OVERFLOW) % MS

\* micros() returns the time at which it read TCNT0, modulo 2^32, also when
\* the timer overflows just before or while it reads and the handler cannot
\* run.
MicrosTrue == pc = "test" => Micros = (asOf * TickUs) % LongSize

\* delay(ms) counts no millisecond that has not passed since it read its
\* first time, although it keeps only 16 bits of the time.
DelayNotEarly == pc = "poll" => Uncounted >= 0

\* delay() is never early, which is DelayNotEarly, and it returns.
DelayTrue ==
  /\ []DelayNotEarly
  /\ pc = "poll" ~> pc = "sketch"
=============================================================================
