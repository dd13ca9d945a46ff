------------------------------ MODULE Console ------------------------------
(***************************************************************************)
(* The console's input (kernel/console.c): consoleintr, which edits a ring *)
(* of INPUT_BUF bytes with three indices that only count up, consoleread,  *)
(* which sleeps for a line, and the console's inode lock, which            *)
(* concurrent_readi holds around it, also while it sleeps.                 *)
(*                                                                         *)
(* The indices are unsigned integers and wrap around at Wrap. What happens *)
(* between two sleeps is a critical section of cons.lock, hence one action.*)
(* An interrupt may bring several characters: each of them is one step.    *)
(***************************************************************************)
EXTENDS Integers, Sequences, FiniteSets

CONSTANTS
  Procs,
  Chars, NL, EOT,    \* the characters typed; NL and EOT (control-D) are two
  INPUT_BUF,
  Wrap,              \* 2^32, a multiple of INPUT_BUF
  MaxRead,           \* bound of the model: bytes asked for
  None

ConsoleAssumption ==
  /\ {NL, EOT} \subseteq Chars /\ NL # EOT /\ None \notin Procs
  /\ INPUT_BUF \in Nat \ {0} /\ Wrap \in Nat \ {0} /\ Wrap % INPUT_BUF = 0
  /\ MaxRead \in Nat \ {0}

VARIABLES
  buf, r, w, e,      \* input
  ilock,             \* who holds the lock of the console's inode
  pc, n, target,     \* consoleread's locals
  killed

vars == <<buf, r, w, e, ilock, pc, n, target, killed>>

Init ==
  /\ buf = [i \in 0..INPUT_BUF - 1 |-> NL]
  /\ r = 0 /\ w = 0 /\ e = 0
  /\ ilock = None
  /\ pc = [p \in Procs |-> "idle"]
  /\ n = [p \in Procs |-> 0] /\ target = [p \in Procs |-> 0]
  /\ killed = {}

Minus(a, b) == (a - b) % Wrap
At(i) == buf[i % INPUT_BUF]

-----------------------------------------------------------------------------
(* consoleintr *)

\* Mutant of Wakeup: the readers sleep on another channel.
WakeupNot == pc

Wakeup == [p \in Procs |-> IF pc[p] = "sleep" THEN "loop" ELSE pc[p]]

Room == Minus(e, r) < INPUT_BUF

\* The default case: the character is stored, and a whole line is released.
Type(c) ==
  LET e1 == (e + 1) % Wrap IN
  /\ Room
  /\ buf' = [buf EXCEPT ![e % INPUT_BUF] = c]
  /\ e' = e1
  /\ IF c \in {NL, EOT} \/ e1 = (r + INPUT_BUF) % Wrap
     THEN w' = e1 /\ pc' = Wakeup
     ELSE UNCHANGED <<w, pc>>
  /\ UNCHANGED <<r, ilock, n, target, killed>>

\* Backspace.
Erase ==
  /\ e # w
  /\ e' = Minus(e, 1)
  /\ UNCHANGED <<buf, r, w, ilock, pc, n, target, killed>>

\* Control-U erases back to w or to the end of a line.
KillLine ==
  LET Back == {k \in 0..Minus(e, w) :
                 \A i \in 1..k : At(Minus(e, i)) # NL}
  IN
  /\ e # w
  /\ e' = Minus(e, CHOOSE k \in Back : \A j \in Back : j <= k)
  /\ UNCHANGED <<buf, r, w, ilock, pc, n, target, killed>>

-----------------------------------------------------------------------------
(* consoleread *)

\* The bytes that the loop takes before it sleeps or leaves: up to n of what
\* is ready, ended by the first NL or EOT.
Taken(p) ==
  LET avail == Minus(w, r)
      most == IF n[p] < avail THEN n[p] ELSE avail
      stops == {k \in 1..most : At(r + k - 1) \in {NL, EOT}}
  IN IF stops = {} THEN most ELSE CHOOSE k \in stops : \A j \in stops : k <= j

\* Mutant of PutBack: the end of file is always used up.
PutBackNot(p, k) == FALSE

\* An end of file behind other bytes is left for the next read.
PutBack(p, k) == At(r + k - 1) = EOT /\ n[p] - (k - 1) < target[p]

\* concurrent_readi locks the inode and calls consoleread.
Read(p, bytes) ==
  /\ pc[p] = "idle" /\ ilock = None
  /\ ilock' = p
  /\ n' = [n EXCEPT ![p] = bytes] /\ target' = [target EXCEPT ![p] = bytes]
  /\ pc' = [pc EXCEPT ![p] = "loop"]
  /\ UNCHANGED <<buf, r, w, e, killed>>

Return(p) ==
  /\ ilock' = None
  /\ pc' = [pc EXCEPT ![p] = "idle"]
  /\ n' = [n EXCEPT ![p] = 0] /\ target' = [target EXCEPT ![p] = 0]

\* The loop of consoleread with nothing ready: killed, or asleep.
ReadWait(p) ==
  /\ pc[p] = "loop" /\ r = w
  /\ IF p \in killed THEN Return(p)
     ELSE pc' = [pc EXCEPT ![p] = "sleep"] /\ UNCHANGED <<ilock, n, target>>
  /\ UNCHANGED <<buf, r, w, e, killed>>

\* The loop with bytes ready, until it returns or has taken them all.
ReadBytes(p) ==
  LET k == Taken(p)
      last == At(r + k - 1)
  IN
  /\ pc[p] = "loop" /\ r # w
  /\ r' = (r + k - IF PutBack(p, k) THEN 1 ELSE 0) % Wrap
  /\ IF last \in {NL, EOT} \/ k = n[p] THEN Return(p)
     ELSE n' = [n EXCEPT ![p] = @ - k] /\ UNCHANGED <<ilock, target, pc>>
  /\ UNCHANGED <<buf, w, e, killed>>

\* kill marks the process and makes it runnable if it sleeps.
Kill(p) ==
  /\ p \notin killed
  /\ killed' = killed \cup {p}
  /\ pc' = [pc EXCEPT ![p] = IF @ = "sleep" THEN "loop" ELSE @]
  /\ UNCHANGED <<buf, r, w, e, ilock, n, target>>

Next ==
  \/ \E c \in Chars : Type(c)
  \/ Erase \/ KillLine
  \/ \E p \in Procs :
       \/ \E bytes \in 1..MaxRead : Read(p, bytes)
       \/ ReadWait(p) \/ ReadBytes(p) \/ Kill(p)

Spec == Init /\ [][Next]_vars

-----------------------------------------------------------------------------
(* Properties *)

Slice(from, to) == [i \in 1..Minus(to, from) |-> At(from + i - 1)]

LD == INSTANCE LineDiscipline WITH
  Capacity <- INPUT_BUF, ready <- Slice(r, w), line <- Slice(w, e)

\* The ring with its wrapping indices is a line that can be edited and then
\* read: nothing is lost, repeated or changed once it is ready, a line never
\* outgrows the buffer, and an end of file is read by itself.
LineSpec == LD!Spec

\* A reader gets its line, or its death, if lines keep being typed.
ReadReturns == \A p \in Procs : pc[p] # "idle" ~> pc[p] = "idle"
=============================================================================
