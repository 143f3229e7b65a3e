-------------------------------- MODULE Tone --------------------------------
(***************************************************************************)
(* Square waves on a pin (Tone.cpp, the build with the one timer 2): tone, *)
(* noTone and the compare interrupt that toggles the pin.  The frequency   *)
(* only sets the rate of the interrupt and is left out; timer2_toggle_count*)
(* is stored in two halves, between which the interrupt may come.          *)
(***************************************************************************)
EXTENDS Integers

CONSTANTS
  Pins,
  Half,      \* size of half of the word timer2_toggle_count
  Counts,    \* toggle counts of limited tones
  None       \* 255: the timer is free

Word == Half * Half
Forever == Word - 1             \* toggle_count = -1
Negative(c) == c >= Word \div 2

ASSUME ToneAssumption ==
  /\ Half \in Nat /\ Half > 1
  /\ Counts \subseteq 0..(Word \div 2 - 1) /\ None \notin Pins

VARIABLES
  tone_pin,                    \* tone_pins[0]
  timer2_pin,                  \* pin of timer2_pin_port and timer2_pin_mask
  timer2_toggle_count,
  OCIE2A, CTC,                 \* interrupt enabled; timer in the mode toneBegin sets
  level,                       \* the pins
  tone_pc, arg, toggle_count,  \* the call of the sketch, its pin and its count
  matched,                     \* _timer of noTone is 2
  wanted,                      \* history: the pin a tone was asked on and not ended, or None
  toggles,                     \* history: toggles left of the tone asked for
  raced                        \* history: see Races

hardware == <<OCIE2A, CTC, level>>
tone_call == <<tone_pc, arg, toggle_count, matched>>
tone_vars == <<tone_pin, timer2_pin, timer2_toggle_count, hardware, tone_call, wanted, toggles, raced>>

Owner == Pins \cup {None}

\* Every variable has its type; OwnerSounds includes it.
ToneTypeOK ==
  /\ tone_pin \in Owner /\ timer2_pin \in Owner /\ wanted \in Owner
  /\ timer2_toggle_count \in 0..(Word - 1) /\ toggle_count \in 0..(Word - 1)
  /\ OCIE2A \in BOOLEAN /\ CTC \in BOOLEAN /\ matched \in BOOLEAN
  /\ level \in [Pins -> BOOLEAN] /\ arg \in Owner
  /\ tone_pc \in {"sketch", "begin", "configure", "low", "high", "last", "enable",
                  "free", "disable", "write"}
  /\ toggles \in -1..(Word \div 2) /\ raced \in BOOLEAN

ToneInit ==
  /\ tone_pin = None /\ timer2_pin = None /\ timer2_toggle_count = 0
  /\ OCIE2A = FALSE /\ CTC = FALSE /\ level = [p \in Pins |-> FALSE]
  /\ tone_pc = "sketch" /\ arg = None /\ toggle_count = 0 /\ matched = FALSE
  /\ wanted = None /\ toggles = 0 /\ raced = FALSE

Return == tone_pc' = "sketch" /\ arg' = None /\ toggle_count' = 0 /\ matched' = FALSE

\* disableTimer(2)
disableTimer == OCIE2A' = FALSE /\ CTC' = FALSE

-----------------------------------------------------------------------------
(***************************************************************************)
(* tone                                                                    *)
(***************************************************************************)

\* The interrupt counts down or ends the tone that plays on the pin while
\* tone() replaces it: toneBegin has found the entry of the pin, which the
\* interrupt then frees, or the halves of the count come from two counts.
\* The code does not exclude it, and the new tone then plays for any time, in
\* the mode of another use of the timer, on a pin noTone() does not find.
Races(change) ==
  raced' = (raced \/ tone_pc \in change)

tone(p, n) ==
  /\ tone_pc = "sketch"
  /\ tone_pc' = "begin" /\ arg' = p /\ toggle_count' = n
  /\ UNCHANGED <<tone_pin, timer2_pin, timer2_toggle_count, hardware, matched, wanted, toggles, raced>>

\* The search as it would be if it took the timer from a playing pin.
toneBegin_steal ==
  /\ tone_pc = "begin"
  /\ tone_pin' = arg
  /\ tone_pc' = "configure"
  /\ UNCHANGED <<timer2_pin, timer2_toggle_count, hardware, arg, toggle_count, matched, wanted, toggles, raced>>

\* The search for the pin, then for a free timer.
toneBegin ==
  /\ tone_pc = "begin"
  /\ \/ /\ tone_pin = arg
        /\ tone_pc' = "low"
        /\ UNCHANGED <<tone_pin, arg, toggle_count, matched>>
     \/ /\ tone_pin = None
        /\ tone_pin' = arg /\ tone_pc' = "configure"
        /\ UNCHANGED <<arg, toggle_count, matched>>
     \/ tone_pin \notin {arg, None} /\ Return /\ UNCHANGED tone_pin
  /\ UNCHANGED <<timer2_pin, timer2_toggle_count, hardware, wanted, toggles, raced>>

Configure ==
  /\ tone_pc = "configure"
  /\ CTC' = TRUE /\ timer2_pin' = arg
  /\ tone_pc' = "low"
  /\ UNCHANGED <<tone_pin, timer2_toggle_count, OCIE2A, level, arg, toggle_count, matched, wanted, toggles, raced>>

Low(c) == c % Half
High(c) == c \div Half

\* timer2_toggle_count = toggle_count, either half first.
StoreFirst ==
  /\ tone_pc = "low"
  /\ \/ /\ timer2_toggle_count' = High(timer2_toggle_count) * Half + Low(toggle_count)
        /\ tone_pc' = "high"
     \/ /\ timer2_toggle_count' = High(toggle_count) * Half + Low(timer2_toggle_count)
        /\ tone_pc' = "last"
  /\ UNCHANGED <<tone_pin, timer2_pin, hardware, arg, toggle_count, matched, wanted, toggles, raced>>

\* wanted and toggles take up the new tone.
StoreSecond ==
  /\ \/ /\ tone_pc = "high"
        /\ timer2_toggle_count' = High(toggle_count) * Half + Low(timer2_toggle_count)
     \/ /\ tone_pc = "last"
        /\ timer2_toggle_count' = High(timer2_toggle_count) * Half + Low(toggle_count)
  /\ tone_pc' = "enable"
  /\ wanted' = arg
  /\ toggles' = IF Negative(toggle_count) THEN -1 ELSE toggle_count
  /\ UNCHANGED <<tone_pin, timer2_pin, hardware, arg, toggle_count, matched, raced>>

Enable ==
  /\ tone_pc = "enable"
  /\ OCIE2A' = TRUE
  /\ Return
  /\ UNCHANGED <<tone_pin, timer2_pin, timer2_toggle_count, CTC, level, wanted, toggles, raced>>

-----------------------------------------------------------------------------
(***************************************************************************)
(* noTone                                                                  *)
(***************************************************************************)

noTone(p) ==
  /\ tone_pc = "sketch"
  /\ tone_pc' = "free" /\ arg' = p
  /\ UNCHANGED <<tone_pin, timer2_pin, timer2_toggle_count, hardware, toggle_count, matched, wanted, toggles, raced>>

Free ==
  /\ tone_pc = "free"
  /\ matched' = (tone_pin = arg)
  /\ tone_pin' = IF tone_pin = arg THEN None ELSE tone_pin
  /\ tone_pc' = "disable"
  /\ UNCHANGED <<timer2_pin, timer2_toggle_count, hardware, arg, toggle_count, wanted, toggles, raced>>

Disable ==
  /\ tone_pc = "disable"
  /\ IF matched THEN disableTimer ELSE UNCHANGED <<OCIE2A, CTC>>
  /\ tone_pc' = "write"
  /\ UNCHANGED <<tone_pin, timer2_pin, timer2_toggle_count, level, arg, toggle_count, matched, wanted, toggles, raced>>

\* The end of noTone as it would be without the digitalWrite.
WriteLow_none ==
  /\ tone_pc = "write"
  /\ Return
  /\ wanted' = IF wanted = arg THEN None ELSE wanted
  /\ toggles' = IF wanted = arg THEN 0 ELSE toggles
  /\ UNCHANGED <<tone_pin, timer2_pin, timer2_toggle_count, hardware, raced>>

\* digitalWrite(_pin, 0)
WriteLow ==
  /\ tone_pc = "write"
  /\ level' = [level EXCEPT ![arg] = FALSE]
  /\ Return
  /\ wanted' = IF wanted = arg THEN None ELSE wanted
  /\ toggles' = IF wanted = arg THEN 0 ELSE toggles
  /\ UNCHANGED <<tone_pin, timer2_pin, timer2_toggle_count, OCIE2A, CTC, raced>>

-----------------------------------------------------------------------------
(***************************************************************************)
(* ISR(TIMER2_COMPA_vect)                                                  *)
(***************************************************************************)

\* The handler as it would be if it did not count the toggles of a tone down.
Toggle_uncounted ==
  /\ OCIE2A /\ timer2_toggle_count # 0
  /\ level' = [level EXCEPT ![timer2_pin] = ~@]
  /\ toggles' = IF toggles > 0 THEN toggles - 1 ELSE toggles
  /\ UNCHANGED <<tone_pin, timer2_pin, timer2_toggle_count, OCIE2A, CTC, tone_call, wanted, raced>>

Toggle ==
  /\ OCIE2A /\ timer2_toggle_count # 0
  /\ level' = [level EXCEPT ![timer2_pin] = ~@]
  /\ timer2_toggle_count' = IF Negative(timer2_toggle_count)
                            THEN timer2_toggle_count ELSE timer2_toggle_count - 1
  /\ toggles' = IF toggles > 0 THEN toggles - 1 ELSE toggles
  /\ Races(IF Negative(timer2_toggle_count) THEN {} ELSE {"high", "last"})
  /\ UNCHANGED <<tone_pin, timer2_pin, OCIE2A, CTC, tone_call, wanted>>

\* noTone(tone_pins[0]), which matches also when the entry is 255; then
\* digitalWrite looks up a pin that does not exist and may clear any or none.
ToneOver ==
  /\ OCIE2A /\ timer2_toggle_count = 0
  /\ disableTimer
  /\ tone_pin' = None
  /\ \E p \in IF tone_pin = None THEN Owner ELSE {tone_pin} :
       level' = [q \in Pins |-> IF q = p THEN FALSE ELSE level[q]]
  /\ wanted' = None
  /\ Races({"low", "high", "last", "enable"})
  /\ UNCHANGED <<timer2_pin, timer2_toggle_count, tone_call, toggles>>

TIMER2_COMPA_vect == Toggle \/ ToneOver

-----------------------------------------------------------------------------
ToneCalls == \E p \in Pins : noTone(p) \/ \E n \in Counts \cup {Forever} : tone(p, n)

ToneInCall ==
  \/ toneBegin \/ Configure \/ StoreFirst \/ StoreSecond \/ Enable
  \/ Free \/ Disable \/ WriteLow

ToneNext == ToneCalls \/ ToneInCall \/ TIMER2_COMPA_vect

ToneSpec == ToneInit /\ [][ToneNext]_tone_vars

\* The processor runs, and the timer keeps interrupting it while enabled.
ToneFairSpec == ToneSpec /\ WF_tone_vars(ToneInCall) /\ WF_tone_vars(TIMER2_COMPA_vect)

-----------------------------------------------------------------------------
(***************************************************************************)
(* Properties.                                                             *)
(***************************************************************************)

\* A pin on which no tone is wanted is low and is not being toggled, once
\* the call that ended the tone has returned.
SilentPins ==
  tone_pc = "sketch" /\ ~raced =>
    \A p \in Pins \ {wanted} : ~level[p] /\ ~(OCIE2A /\ timer2_pin = p)

\* While one pin plays, a tone on another changes nothing: the pin toggled
\* is the one in tone_pins.  When tone() turns the interrupt on, the timer is
\* in the mode toneBegin sets and is entered as the pin's, so that noTone()
\* will find it ("if we're already using the pin, the timer should be
\* configured").
OwnerSounds ==
  /\ ToneTypeOK
  /\ OCIE2A /\ tone_pc # "disable" /\ ~raced => tone_pin = timer2_pin
  /\ tone_pc = "enable" /\ ~raced => CTC /\ tone_pin = arg

\* A limited tone has toggled its pin exactly as often as was asked when it
\* ends, although the count is stored while an interrupt may come.
TogglesTrue == [][ToneOver /\ ~raced' => toggles = 0]_tone_vars

\* The toggles are true, and a limited tone ends, raced or not, unless the
\* sketch sets another tone.
DurationTrue ==
  /\ TogglesTrue
  /\ OCIE2A /\ ~Negative(timer2_toggle_count) ~> ~OCIE2A \/ tone_pc = "enable"
=============================================================================
