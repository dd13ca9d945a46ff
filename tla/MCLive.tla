-------------------------------- MODULE MCLive --------------------------------
(***************************************************************************)
(* What must eventually happen, for TLC: a write to a pipe, a disk request  *)
(* and a read of the console come to an end.  A behaviour exercises the     *)
(* part it starts with.                                                     *)
(*                                                                         *)
(* The scheduler starves nobody (Proc's RunnableRuns), so a process that    *)
(* can go on in the kernel does; the disk answers.                          *)
(* Beyond that, somebody is assumed to go on reading the pipe, and somebody *)
(* to end lines at the keyboard; nothing else obliges a program to call.    *)
(***************************************************************************)
EXTENDS Integers

VARIABLES part,
  buf, head, tail, end, running, killed, pc, len, left, op, via, out, ops, panicked,   \* pipe
  blockno, valid, dirty, data, refcnt, locked, lru, idequeue, disk, acked, bpc, want,  \* buffers
  mine, reboots, bpanicked,
  cbuf, r, w, e, ilock, cpc, asked, target, ckilled                                    \* console

Piping == <<buf, head, tail, end, running, killed, pc, len, left, op, via, out, ops, panicked>>
Buffers == <<blockno, valid, dirty, data, refcnt, locked, lru, idequeue, disk, acked, bpc,
             want, mine, reboots, bpanicked>>
Reading == <<cbuf, r, w, e, ilock, cpc, asked, target, ckilled>>
vars == <<part, Piping, Buffers, Reading>>

\* One process writes, also more than the pipe holds; those it forks read.
Trio == {"a", "b", "c"}
Lengths == {1, 3}
P == INSTANCE Pipe WITH
  Procs <- Trio, First <- "a", Size <- 2, Fds <- {0, 1}, Lens <- Lengths, MaxOps <- 3,
  Calls <- [p \in Trio |-> IF p = "a" THEN {"fork", "write"} ELSE {"read"}]

\* A buffer for each process and more blocks, so that reads never stop.
Pair == {"a", "b"}
B == INSTANCE Bcache WITH
  Procs <- Pair, Blocks <- 1..3, Bufs <- 1..2, NoBlock <- 0, MaxVersion <- 1,
  MaxReboots <- 0, Devices <- {"ide"}, device <- "ide", pc <- bpc, panicked <- bpanicked

\* Two readers, a ring of two bytes, indices that wrap at four.
Readers == {"p", "q"}
C == INSTANCE Console WITH
  Chars <- {"x", "NL", "EOT"}, NL <- "NL", EOT <- "EOT", None <- "none", Procs <- Readers,
  INPUT_BUF <- 2, Wrap <- 4, MaxRead <- 2,
  buf <- cbuf, pc <- cpc, n <- asked, killed <- ckilled

ASSUME P!PipeAssumption /\ C!ConsoleAssumption

Init ==
  /\ part \in {"pipe", "buffers", "console"}
  /\ P!Init /\ B!Init /\ C!Init

InPipe == part = "pipe" /\ UNCHANGED <<part, Buffers, Reading>>
InBuffers == part = "buffers" /\ UNCHANGED <<part, Piping, Reading>>
InConsole == part = "console" /\ UNCHANGED <<part, Piping, Buffers>>

Next ==
  \/ InPipe /\ P!Next
  \/ InBuffers /\ B!Next
  \/ InConsole /\ C!Next

\* Calls under way go on, and processes that have the pipe's read end read.
PipeStep(p) ==
  \/ P!ReadEmpty(p) \/ P!ReadCopy(p) \/ P!WriteFull(p) \/ P!WriteBroken(p) \/ P!WriteCopy(p)
  \/ \E l \in Lengths : P!ReadCall(p, P!ReadFd, l)

\* Who has a buffer gets on with it and gives it back.
BufferStep(p) ==
  B!Iderw(p) \/ B!IderwWoken(p) \/ B!Releasesleep(p) \/ B!Brelse(p) \/ B!Acquiresleep(p)

Fairness ==
  /\ \A p \in Trio : WF_vars(InPipe /\ PipeStep(p))
  /\ \A p \in Pair : WF_vars(InBuffers /\ BufferStep(p))
  /\ WF_vars(InBuffers /\ B!Ideintr)
  /\ WF_vars(InConsole /\ C!Type("NL"))
  /\ \A p \in Readers : WF_vars(InConsole /\ (C!ReadWait(p) \/ C!ReadBytes(p)))

Spec == Init /\ [][Next]_vars /\ Fairness

--------------------------------------------------------------------------------
\* A write longer than the pipe completes when others read (filewrite, fileread).
WriteCompletes == P!WriteCompletes
\* Every disk request is served (iderw, ideintr).
RequestServed == B!RequestServed
\* Every read of the console returns (consoleread, consoleintr).
ReadReturns == C!ReadReturns
================================================================================
