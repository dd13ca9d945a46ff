--------------------------------- MODULE Kbd ---------------------------------
(***************************************************************************)
(* The keyboard driver (kernel/kbd.c and the tables of inc/kbd.h): a       *)
(* keyboard that sends make and break codes, some behind an E0 prefix, and *)
(* kbdgetc, which takes one byte per call and keeps the modifiers.         *)
(*                                                                         *)
(* Keys stand for their class in the tables: a letter, a digit, Enter, a   *)
(* key pad digit and the arrow that shares its code behind E0.             *)
(***************************************************************************)
EXTENDS Sequences, FiniteSets, Naturals

CONSTANTS
  Keys,      \* the keys that are used
  MaxWire    \* bound of the model: bytes that wait for kbdgetc

KbdAssumption == MaxWire \in Nat

VARIABLES
  down,    \* the keys that are down
  caps,    \* whether Caps Lock has sent an odd number of make codes
  wire,    \* bytes sent: [code, prefix, release], with prefix for E0 itself
  shift,   \* the modifiers of kbdgetc
  out,     \* what kbdgetc returned for the last make code it took
  expect   \* what the keys held and Caps Lock call for, for the last one sent

vars == <<down, caps, wire, shift, out, expect>>

Letter == "a"
Modifiers == [lshift |-> "SHIFT", rshift |-> "SHIFT", lctl |-> "CTL", rctl |-> "CTL",
              lalt |-> "ALT", ralt |-> "ALT"]
Extended == {"rctl", "ralt", "up"}
\* The code of an extended key is that of another one, behind E0.
Code == [rctl |-> "lctl", ralt |-> "lalt", up |-> "8pad"]

ModOf(k) == IF k \in DOMAIN Modifiers THEN {Modifiers[k]} ELSE {}
CodeOf(k) == IF k \in Extended THEN Code[k] ELSE k

\* The key that a code means, with or without the bit 0x80 for E0.
KeyOf(code, ext) ==
  IF ~ext THEN code
  ELSE IF \E k \in Extended : Code[k] = code THEN CHOOSE k \in Extended : Code[k] = code
  ELSE "none"

\* The tables: shiftcode, togglecode and the three maps.
ShiftCode(k) == ModOf(k)
ToggleCode(k) == IF k = "caps" THEN {"CAPSLOCK"} ELSE {}
NormalMap(k) == CASE k = Letter -> "lower" [] k = "1" -> "digit" [] k = "enter" -> "\n"
                  [] k = "8pad" -> "8" [] k = "up" -> "KEY_UP" [] OTHER -> "NO"
ShiftMap(k) == CASE k = Letter -> "upper" [] k = "1" -> "sign" [] k = "enter" -> "\n"
                 [] k = "8pad" -> "8" [] k = "up" -> "KEY_UP" [] OTHER -> "NO"
CtlMap(k) == CASE k = Letter -> "control" [] k = "enter" -> "\r" [] k = "up" -> "KEY_UP"
               [] OTHER -> "NO"

Init ==
  /\ down = {} /\ caps = FALSE /\ wire = <<>> /\ shift = {}
  /\ out = "NO" /\ expect = "NO"

-----------------------------------------------------------------------------
(* The keyboard *)

Bytes(k, release) ==
  (IF k \in Extended THEN <<[code |-> "E0", release |-> FALSE]>> ELSE <<>>)
    \o <<[code |-> CodeOf(k), release |-> release]>>

\* What a key means when the keys in D are down.
Meaning(k, D, cap) ==
  LET mods == UNION {ModOf(j) : j \in D}
      c == IF "CTL" \in mods THEN CtlMap(k)
           ELSE IF "SHIFT" \in mods THEN ShiftMap(k) ELSE NormalMap(k)
  IN IF k # Letter \/ ~cap THEN c
     ELSE CASE c = "lower" -> "upper" [] c = "upper" -> "lower" [] OTHER -> c

\* One key of a modifier at a time.
Press(k) ==
  /\ k \notin down /\ Len(wire) < MaxWire
  /\ \A j \in down : ModOf(j) \cap ModOf(k) = {}
  /\ down' = down \cup {k}
  /\ caps' = (caps # (k = "caps"))
  /\ wire' = wire \o Bytes(k, FALSE)
  /\ expect' = Meaning(k, down', caps')
  /\ UNCHANGED <<shift, out>>

\* A key that is held repeats its make code, Caps Lock too.
Repeat(k) ==
  /\ k \in down /\ Len(wire) < MaxWire
  /\ caps' = (caps # (k = "caps"))
  /\ wire' = wire \o Bytes(k, FALSE)
  /\ expect' = Meaning(k, down, caps')
  /\ UNCHANGED <<down, shift, out>>

Release(k) ==
  /\ k \in down /\ Len(wire) < MaxWire
  /\ down' = down \ {k}
  /\ wire' = wire \o Bytes(k, TRUE)
  /\ UNCHANGED <<caps, shift, out, expect>>

-----------------------------------------------------------------------------
(* kbdgetc *)

\* Mutant of Capital: Caps Lock does not undo Shift.
CapitalOnly(c) == IF c = "lower" THEN "upper" ELSE c

\* What Caps Lock makes of a character.
Capital(c) == CASE c = "lower" -> "upper" [] c = "upper" -> "lower" [] OTHER -> c

\* The E0 prefix is used up.
Unescaped(s) == s \ {"E0ESC"}

Kbdgetc ==
  LET b == Head(wire)
      k == KeyOf(b.code, "E0ESC" \in shift)
      base == Unescaped(shift)
      on == base \cup ShiftCode(k)
      now == (on \ ToggleCode(k)) \cup (ToggleCode(k) \ on)
      map == IF "CTL" \in now THEN CtlMap(k) ELSE IF "SHIFT" \in now THEN ShiftMap(k)
             ELSE NormalMap(k)
  IN
  /\ wire # <<>>
  /\ wire' = Tail(wire)
  /\ \/ b.code = "E0" /\ shift' = shift \cup {"E0ESC"} /\ UNCHANGED out
     \/ b.code # "E0" /\ b.release /\ shift' = base \ ShiftCode(k) /\ UNCHANGED out
     \/ /\ b.code # "E0" /\ ~b.release
        /\ shift' = now
        /\ out' = IF "CAPSLOCK" \in now THEN Capital(map) ELSE map
  /\ UNCHANGED <<down, caps, expect>>

Next == Kbdgetc \/ \E k \in Keys : Press(k) \/ Repeat(k) \/ Release(k)

Spec == Init /\ [][Next]_vars

-----------------------------------------------------------------------------
(* Properties *)

\* If the two keys of a modifier are never down together, kbdgetc returns for
\* a key what the keys held and the state of Caps Lock call for, which every
\* make code of that key changes, those it repeats while it is held included.
CharacterRight == wire = <<>> => out = expect
=============================================================================
