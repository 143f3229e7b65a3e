------------------------------- MODULE Servo --------------------------------
(***************************************************************************)
(* The servo library (libraries/Servo/Servo.cpp) on one 16-bit timer: the  *)
(* compare interrupt that raises and lowers one pin after the other, and   *)
(* the calls of the sketch it interrupts.  The timer is external.          *)
(***************************************************************************)
EXTENDS Integers, FiniteSets

CONSTANTS
  ServoPins,
  SERVOS_PER_TIMER,
  Pulses,            \* pulse widths in ticks the sketch writes, before clamping
  MIN_PULSE_WIDTH, MAX_PULSE_WIDTH, DEFAULT_PULSE_WIDTH, REFRESH_INTERVAL,  \* in ticks
  Margin,            \* the 4 ticks by which a compare value must lie ahead
  TimerSize,         \* 2^16
  ServoLatency,      \* ticks within which the interrupt is served
  Sketches           \* the sketches to consider, each by the calls it makes

ASSUME ServoAssumption ==
  /\ ServoPins # {} /\ Pulses \subseteq Nat
  /\ {MIN_PULSE_WIDTH, MAX_PULSE_WIDTH, DEFAULT_PULSE_WIDTH, REFRESH_INTERVAL,
      Margin, TimerSize} \subseteq Nat
  /\ SERVOS_PER_TIMER \in Nat \ {0} /\ ServoLatency \in 0..(Margin - 1)
  /\ 0 < MIN_PULSE_WIDTH /\ MIN_PULSE_WIDTH <= DEFAULT_PULSE_WIDTH
  /\ DEFAULT_PULSE_WIDTH <= MAX_PULSE_WIDTH
  /\ SERVOS_PER_TIMER * (MAX_PULSE_WIDTH + ServoLatency) + REFRESH_INTERVAL + Margin < TimerSize
  /\ Sketches \subseteq SUBSET {"write", "detach", "move"}

Index == 0..(SERVOS_PER_TIMER - 1)

VARIABLES
  Calls,                     \* what this sketch does besides attach: "write" (new widths),
                             \* "detach", "move" (attach to another pin)
  TCNT, OCR, OCF, OCIE,
  Channel, ServoCount,
  nbr, isActive, ticks,      \* the servos
  servo_level,               \* the pins
  servo_pc, servo, pin,      \* the call of attach and its arguments
  late,                      \* ticks the interrupt has been pending
  high,                      \* ticks each pin has been high
  due,                       \* ticks asked for when the pulse on the pin began
  servo_frame                \* ticks since the last frame began

servo_timer == <<TCNT, OCR, OCF, OCIE>>
servos == <<nbr, isActive, ticks>>
servo_call == <<servo_pc, servo, pin>>
history == <<late, high, due, servo_frame>>
servo_vars == <<Calls, servo_timer, Channel, ServoCount, servos, servo_level, servo_call, history>>

\* Caps of the histories.
LongHigh == MAX_PULSE_WIDTH + ServoLatency + 1
LongFrame == REFRESH_INTERVAL

\* Every variable has its type; OneAtATime includes it.
ServoTypeOK ==
  /\ Calls \in Sketches
  /\ TCNT \in 0..(TimerSize - 1) /\ OCR \in 0..(TimerSize - 1)
  /\ OCF \in BOOLEAN /\ OCIE \in BOOLEAN
  /\ Channel \in -1..(SERVOS_PER_TIMER - 1) /\ ServoCount \in 0..SERVOS_PER_TIMER
  /\ nbr \in [Index -> ServoPins] /\ isActive \in [Index -> BOOLEAN]
  /\ ticks \in [Index -> 0..MAX_PULSE_WIDTH] /\ servo_level \in [ServoPins -> BOOLEAN]
  /\ servo_pc \in {"sketch", "init", "active"} /\ servo \in Index /\ pin \in ServoPins
  /\ late \in 0..ServoLatency /\ high \in [ServoPins -> 0..LongHigh]
  /\ due \in [ServoPins -> 0..MAX_PULSE_WIDTH] /\ servo_frame \in 0..LongFrame

FirstPin == CHOOSE p \in ServoPins : TRUE

ServoInit ==
  /\ Calls \in Sketches
  /\ TCNT = 0 /\ OCR = 0 /\ OCF = FALSE /\ OCIE = FALSE
  /\ Channel = 0 /\ ServoCount = 0
  /\ nbr = [s \in Index |-> FirstPin] /\ isActive = [s \in Index |-> FALSE]
  /\ ticks = [s \in Index |-> 0] /\ servo_level = [p \in ServoPins |-> FALSE]
  /\ servo_pc = "sketch" /\ servo = 0 /\ pin = FirstPin
  /\ late = 0 /\ high = [p \in ServoPins |-> 0] /\ due = [p \in ServoPins |-> 0] /\ servo_frame = LongFrame

-----------------------------------------------------------------------------
(***************************************************************************)
(* External: the timer, and the digitalWrite of a pin.                     *)
(***************************************************************************)

ServoTick ==
  /\ OCIE /\ OCF => late < ServoLatency
  /\ OCIE
  /\ TCNT' = (TCNT + 1) % TimerSize
  /\ OCF' = (OCF \/ TCNT' = OCR)
  /\ late' = IF OCF THEN late + 1 ELSE 0
  /\ high' = [p \in ServoPins |-> IF servo_level[p] /\ high[p] < LongHigh THEN high[p] + 1 ELSE high[p]]
  /\ servo_frame' = IF servo_frame < LongFrame THEN servo_frame + 1 ELSE servo_frame
  /\ UNCHANGED <<OCR, OCIE, Channel, ServoCount, servos, servo_level, servo_call, due>>

-----------------------------------------------------------------------------
(***************************************************************************)
(* handle_interrupts                                                       *)
(***************************************************************************)

Min2(x, y) == IF x < y THEN x ELSE y

\* The pin of the channel whose time is over.
Lowered ==
  IF Channel >= 0 /\ Channel < ServoCount /\ isActive[Channel]
  THEN [servo_level EXCEPT ![nbr[Channel]] = FALSE]
  ELSE servo_level

\* The count as it would be if a frame did not reset the timer.
Count_running == TCNT

\* The timer starts a frame from 0.
Count == IF Channel < 0 THEN 0 ELSE TCNT

\* Wait for the refresh period, or a few ticks when it is over already.
NextFrame == IF Count + Margin < REFRESH_INTERVAL THEN REFRESH_INTERVAL ELSE Count + Margin

\* The handler as it would be if it only lowered a pin when it raises none.
RaiseNext_nolow ==
  LET c == Channel + 1
      up == nbr[c]
  IN  /\ c < ServoCount /\ c < SERVOS_PER_TIMER
      /\ OCR' = (Count + ticks[c]) % TimerSize
      /\ Channel' = c
      /\ servo_level' = IF isActive[c] THEN [servo_level EXCEPT ![up] = TRUE] ELSE Lowered
      /\ high' = IF isActive[c] THEN [high EXCEPT ![up] = 0] ELSE high
      /\ due' = IF isActive[c] THEN [due EXCEPT ![up] = ticks[c]] ELSE due

RaiseNext ==
  LET c == Channel + 1
      up == nbr[c]
  IN  /\ c < ServoCount /\ c < SERVOS_PER_TIMER
      /\ OCR' = (Count + ticks[c]) % TimerSize
      /\ Channel' = c
      /\ servo_level' = IF isActive[c] THEN [Lowered EXCEPT ![up] = TRUE] ELSE Lowered
      /\ high' = IF isActive[c] THEN [high EXCEPT ![up] = 0] ELSE high
      /\ due' = IF isActive[c] THEN [due EXCEPT ![up] = ticks[c]] ELSE due

FinishFrame ==
  /\ ~(Channel + 1 < ServoCount /\ Channel + 1 < SERVOS_PER_TIMER)
  /\ OCR' = NextFrame % TimerSize
  /\ Channel' = -1
  /\ servo_level' = Lowered
  /\ UNCHANGED <<high, due>>

handle_interrupts ==
  /\ OCIE /\ OCF
  /\ TCNT' = Count
  /\ RaiseNext \/ FinishFrame
  /\ OCF' = FALSE /\ late' = 0
  /\ servo_frame' = IF Channel < 0 THEN 0 ELSE servo_frame
  /\ UNCHANGED <<OCIE, ServoCount, servos, servo_call>>

-----------------------------------------------------------------------------
(***************************************************************************)
(* The sketch.                                                             *)
(***************************************************************************)

\* The constructor.
Servo ==
  /\ servo_pc = "sketch" /\ ServoCount < SERVOS_PER_TIMER
  /\ ServoCount' = ServoCount + 1
  /\ ticks' = [ticks EXCEPT ![ServoCount] = DEFAULT_PULSE_WIDTH]
  /\ UNCHANGED <<servo_timer, Channel, nbr, isActive, servo_level, servo_call, history>>

\* A sketch gives each servo a pin of its own.
attach(s, p) ==
  /\ servo_pc = "sketch" /\ s < ServoCount
  /\ \A o \in Index \ {s} : isActive[o] => nbr[o] # p
  /\ \/ ~isActive[s]
     \/ isActive[s] /\ nbr[s] # p /\ "move" \in Calls
  /\ nbr' = [nbr EXCEPT ![s] = p]
  /\ servo_pc' = "init" /\ servo' = s /\ pin' = p
  /\ UNCHANGED <<servo_timer, Channel, ServoCount, isActive, ticks, servo_level, history>>

isTimerActive == \E s \in Index : isActive[s]

\* The start of the timer as it would be if its interrupt stayed disabled.
initISR_masked ==
  /\ servo_pc = "init"
  /\ IF isTimerActive
     THEN UNCHANGED <<servo_timer, late>>
     ELSE TCNT' = 0 /\ OCF' = FALSE /\ late' = 0 /\ UNCHANGED <<OCR, OCIE>>
  /\ servo_pc' = "active"
  /\ UNCHANGED <<Channel, ServoCount, servos, servo_level, servo, pin, high, due, servo_frame>>

\* initISR clears the count and a pending interrupt.
initISR ==
  /\ servo_pc = "init"
  /\ IF isTimerActive
     THEN UNCHANGED <<servo_timer, late>>
     ELSE TCNT' = 0 /\ OCF' = FALSE /\ OCIE' = TRUE /\ late' = 0 /\ UNCHANGED OCR
  /\ servo_pc' = "active"
  /\ UNCHANGED <<Channel, ServoCount, servos, servo_level, servo, pin, high, due, servo_frame>>

Activate ==
  /\ servo_pc = "active"
  /\ isActive' = [isActive EXCEPT ![servo] = TRUE]
  /\ servo_pc' = "sketch" /\ servo' = 0 /\ pin' = FirstPin
  /\ UNCHANGED <<servo_timer, Channel, ServoCount, nbr, ticks, servo_level, history>>

\* finISR does nothing on this platform.
detach(s) ==
  /\ "detach" \in Calls /\ servo_pc = "sketch" /\ isActive[s]
  /\ isActive' = [isActive EXCEPT ![s] = FALSE]
  /\ UNCHANGED <<servo_timer, Channel, ServoCount, nbr, ticks, servo_level, servo_call, history>>

\* writeMicroseconds keeps the width within the limits.
Clamped(v) ==
  IF v < MIN_PULSE_WIDTH THEN MIN_PULSE_WIDTH ELSE Min2(v, MAX_PULSE_WIDTH)

writeMicroseconds(s, v) ==
  /\ "write" \in Calls /\ servo_pc = "sketch" /\ s < ServoCount
  /\ ticks' = [ticks EXCEPT ![s] = Clamped(v)]
  /\ UNCHANGED <<servo_timer, Channel, ServoCount, nbr, isActive, servo_level, servo_call, history>>

ServoSketch ==
  \/ Servo
  \/ \E s \in Index : \/ detach(s)
                      \/ \E p \in ServoPins : attach(s, p)
                      \/ \E v \in Pulses : writeMicroseconds(s, v)

ServoNext == (ServoTick \/ handle_interrupts \/ ServoSketch \/ initISR \/ Activate) /\ UNCHANGED Calls

ServoSpec == ServoInit /\ [][ServoNext]_servo_vars

\* The timer counts, interrupts are served, and a call of attach goes on.
ServoFairSpec ==
  /\ ServoSpec
  /\ WF_servo_vars(ServoTick /\ UNCHANGED Calls)
  /\ WF_servo_vars(handle_interrupts /\ UNCHANGED Calls)
  /\ WF_servo_vars((initISR \/ Activate) /\ UNCHANGED Calls)

-----------------------------------------------------------------------------
(***************************************************************************)
(* Properties.                                                             *)
(***************************************************************************)

\* The sketch leaves attached servos on their pins.  Without it a servo
\* detached or moved in the middle of its pulse leaves its pin high, because
\* handle_interrupts lowers only the pin of an active channel.
Steady == Calls \cap {"detach", "move"} = {}

\* The pulses of a timer come one after the other (handle_interrupts), also
\* while servos are created and attached, and none is longer than
\* MAX_PULSE_WIDTH, "the longest pulse sent to a servo".
OneAtATime ==
  /\ ServoTypeOK
  /\ Steady => /\ Cardinality({p \in ServoPins : servo_level[p]}) <= 1
               /\ \A p \in ServoPins : servo_level[p] => high[p] <= MAX_PULSE_WIDTH + ServoLatency

\* A pulse is as long as was asked when it began, up to the latency of the
\* interrupt, whatever the sketch writes meanwhile (writeMicroseconds); and
\* frames are at least REFRESH_INTERVAL apart ("at least REFRESH_INTERVAL
\* has elapsed"), also when attach restarts the timer in the middle of one.
PulsesTrue ==
  [][/\ Steady => \A p \in ServoPins :
          servo_level[p] /\ ~servo_level'[p] => high[p] \in due[p]..(due[p] + ServoLatency)
     /\ servo_frame' = 0 /\ servo_frame # 0 => servo_frame >= REFRESH_INTERVAL]_servo_vars

\* A servo that stays attached is pulsed again and again, whatever is
\* attached, detached or moved before: the timer is never left without a
\* compare value ahead of it.
Pulsed == \A s \in Index : []<>(~isActive[s] \/ servo_level[nbr[s]])
=============================================================================
