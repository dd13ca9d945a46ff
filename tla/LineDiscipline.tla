--------------------------- MODULE LineDiscipline ---------------------------
(***************************************************************************)
(* What the console promises its readers: a line can be edited until it is *)
(* ended, and then is read, in order and once.                             *)
(***************************************************************************)
EXTENDS Naturals, Sequences

CONSTANTS Chars, NL, EOT, Capacity

VARIABLES ready, line

Terminal == {NL, EOT}

Init == ready = <<>> /\ line = <<>>

\* A character is added to the line; an end of line, an end of file or a full
\* buffer makes it ready.
Type(c) ==
  /\ Len(ready) + Len(line) < Capacity
  /\ IF c \in Terminal \/ Len(ready) + Len(line) + 1 = Capacity
     THEN ready' = ready \o line \o <<c>> /\ line' = <<>>
     ELSE line' = Append(line, c) /\ UNCHANGED ready

\* The last character, or the whole line, is taken back.
Erase == line # <<>> /\ line' = SubSeq(line, 1, Len(line) - 1) /\ UNCHANGED ready
KillLine == line' = <<>> /\ UNCHANGED ready

\* A reader takes characters of one line; an end of file is taken alone.
Take(k) ==
  /\ k \in 1..Len(ready)
  /\ \A i \in 1..k - 1 : ready[i] \notin Terminal
  /\ k > 1 => ready[k] # EOT
  /\ ready' = SubSeq(ready, k + 1, Len(ready))
  /\ UNCHANGED line

Next == (\E c \in Chars : Type(c)) \/ Erase \/ KillLine \/ \E k \in 1..Capacity : Take(k)

Spec == Init /\ [][Next]_<<ready, line>>
=============================================================================
