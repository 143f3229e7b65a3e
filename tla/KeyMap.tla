------------------------------- MODULE KeyMap -------------------------------
(***************************************************************************)
(* KeyboardHost::_mapKey: from the HID usage code of a key and the shift   *)
(* modifier to a character.  Characters are their ASCII codes.             *)
(***************************************************************************)
EXTENDS Integers, Sequences

Maps == {"None", "US_English", "other"}

Both(c) == <<c, c>>
Blank(n) == [i \in 1..n |-> Both(0)]

\* The table, from HID_KEYBOARD_SC_ERROR_ROLLOVER (code 1) to
\* HID_KEYBOARD_SC_KEYPAD_EQUAL_SIGN (code 103).
m_usKeyMap ==
  Blank(3)
  \o [i \in 1..26 |-> <<96 + i, 64 + i>>]
  \o <<<<49, 33>>, <<50, 64>>, <<51, 35>>, <<52, 36>>, <<53, 37>>,
       <<54, 94>>, <<55, 38>>, <<56, 38>>, <<57, 40>>, <<48, 41>>>>
  \o <<Both(10), Both(33), Both(10), Both(11), Both(32)>>
  \o <<<<45, 95>>, <<61, 43>>, <<91, 123>>, <<93, 125>>, <<92, 124>>, <<96, 126>>,
       <<59, 58>>, <<39, 34>>, <<96, 126>>, <<44, 60>>, <<46, 62>>, <<47, 63>>>>
  \o Blank(19) \o <<Both(177)>> \o Blank(7)
  \o <<Both(47), Both(42), Both(45), Both(43), Both(10)>>
  \o [i \in 1..9 |-> Both(48 + i)] \o <<Both(48), Both(46)>>
  \o <<<<92, 124>>>> \o Blank(2) \o <<Both(61)>>

\* The row of a key: C rows count from 0, those of a sequence from 1.
Row(key) == key - 1

\* Mutant: one code too many is mapped.
OutOfRange_late(key) == key > Len(m_usKeyMap) + 1 \/ key = 0

OutOfRange(key) == key > Len(m_usKeyMap) \/ key = 0

\* The descriptor of a key is zero before the call.
_mapKey(m_map, p_key, shift) ==
  [raw |-> p_key,
   value |-> CASE m_map = "None" -> p_key
               [] m_map = "US_English" /\ ~OutOfRange(p_key) ->
                    IF Row(p_key) + 1 \in 1..Len(m_usKeyMap)
                    THEN m_usKeyMap[Row(p_key) + 1][IF shift THEN 2 ELSE 1]
                    ELSE -1      \* what follows the table in flash
               [] OTHER -> 0,
   error |-> m_map = "other"]

-----------------------------------------------------------------------------
(***************************************************************************)
(* The reference: what a US keyboard has on its keys by their HID usage    *)
(* codes, for the codes that have an ASCII character.                      *)
(***************************************************************************)
Letter == 4..29
Digit == 30..39
Symbol == (45..56) \ {50}
Keypad == 84..99
Printing == Letter \cup Digit \cup Symbol \cup Keypad \cup {44, 103}
Control == {40, 41, 42, 43, 76}

DigitShifted == <<33, 64, 35, 36, 37, 94, 38, 42, 40, 41>>
SymbolTyped == [i \in Symbol |->
  CASE i = 45 -> <<45, 95>> [] i = 46 -> <<61, 43>> [] i = 47 -> <<91, 123>>
    [] i = 48 -> <<93, 125>> [] i = 49 -> <<92, 124>> [] i = 51 -> <<59, 58>>
    [] i = 52 -> <<39, 34>> [] i = 53 -> <<96, 126>> [] i = 54 -> <<44, 60>>
    [] i = 55 -> <<46, 62>> [] i = 56 -> <<47, 63>>]

Typed(key, shifted) ==
  CASE key \in Letter -> (IF shifted THEN 65 ELSE 97) + key - 4
    [] key \in Digit -> IF shifted THEN DigitShifted[key - 29] ELSE 48 + ((key - 29) % 10)
    [] key \in Symbol -> SymbolTyped[key][IF shifted THEN 2 ELSE 1]
    [] key \in 89..97 -> 48 + key - 88
    [] key \in 84..88 -> <<47, 42, 45, 43, 10>>[key - 83]
    [] key = 98 -> 48
    [] key = 99 -> 46
    [] key = 44 -> 32
    [] key = 103 -> 61
    [] key \in Control -> CASE key = 40 -> 10 [] key = 41 -> 27 [] key = 42 -> 8
                            [] key = 43 -> 9 [] key = 76 -> 127
=============================================================================
