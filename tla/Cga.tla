-------------------------------- MODULE Cga --------------------------------
(***************************************************************************)
(* The screen (cgaputc of kernel/console.c), of ROWS used rows of COLS     *)
(* cells, checked against a tape that never scrolls: absolute cell number  *)
(* |-> character, with a cursor of its own.                                *)
(***************************************************************************)
EXTENDS Integers

CONSTANTS
  Glyphs, Newline, Backspace,   \* what consputc is called with
  COLS, ROWS,                   \* 80 and 24
  StartPos,                     \* where the firmware left the cursor
  MaxPuts                       \* bound of the model: characters put out

VARIABLES crt, pos, panicked, tape, head, scrolled, puts

vars == <<crt, pos, panicked, tape, head, scrolled, puts>>

Blank == "blank"
Cells == 0..(ROWS + 1) * COLS - 1

Init ==
  /\ crt = [i \in Cells |-> Blank] /\ pos \in StartPos /\ panicked = FALSE
  /\ tape = [i \in 0..(ROWS + MaxPuts + 2) * COLS |-> Blank]
  /\ head = pos /\ scrolled = 0 /\ puts = 0

-----------------------------------------------------------------------------

\* The first part of cgaputc: where the cursor goes.
Moved(c, p) ==
  CASE c = Newline -> p + COLS - (p % COLS)
    [] c = Backspace -> IF p > 0 THEN p - 1 ELSE p
    [] OTHER -> p + 1

\* Mutant of Scroll: the row that comes in is not cleared.
ScrollDirty(screen, p) ==
  [i \in Cells |-> IF i < (ROWS - 1) * COLS THEN screen[i + COLS] ELSE screen[i]]

\* All rows but the first move up; what is behind the cursor is cleared.
Scroll(screen, p) ==
  [i \in Cells |-> CASE i \in p - COLS..ROWS * COLS - 1 -> Blank
                     [] i \notin p - COLS..ROWS * COLS - 1 /\ i < (ROWS - 1) * COLS -> screen[i + COLS]
                     [] OTHER -> screen[i]]

Full(p) == p \div COLS >= ROWS

\* consputc of one character while the kernel runs.
Cgaputc(c) ==
  LET p == Moved(c, pos)
      screen == IF c \in Glyphs THEN [crt EXCEPT ![pos] = c] ELSE crt
      at == IF Full(p) THEN p - COLS ELSE p
  IN
  /\ ~panicked
  /\ panicked' = (p > (ROWS + 1) * COLS)
  /\ pos' = IF panicked' THEN pos ELSE at
  /\ crt' = IF panicked' THEN screen
            ELSE [(IF Full(p) THEN Scroll(screen, p) ELSE screen) EXCEPT ![at] = Blank]
  /\ scrolled' = scrolled + IF Full(p) THEN 1 ELSE 0

\* The tape: a newline goes to the next multiple of COLS, a backspace rubs out
\* the character before the cursor unless that one has left the screen.
TapePut(c) ==
  LET h == CASE c = Newline -> (head \div COLS + 1) * COLS
             [] c = Backspace -> IF head > scrolled * COLS THEN head - 1 ELSE head
             [] OTHER -> head + 1
  IN
  /\ head' = h
  /\ tape' = IF c \in Glyphs THEN [tape EXCEPT ![head] = c] ELSE [tape EXCEPT ![h] = Blank]

Put(c) == puts < MaxPuts /\ Cgaputc(c) /\ TapePut(c) /\ puts' = puts + 1

Next == \E c \in Glyphs \cup {Newline, Backspace} : Put(c)

Spec == Init /\ [][Next]_vars

-----------------------------------------------------------------------------

\* The screen is the window of the tape that ends with the cursor's row or
\* below it: scrolling loses no row, and no rubbed out character comes back.
ScreenIsTape ==
  ~panicked =>
    /\ pos = head - scrolled * COLS
    /\ \A i \in 0..ROWS * COLS - 1 : crt[i] = tape[i + scrolled * COLS]
=============================================================================
