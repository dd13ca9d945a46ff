-------------------------------- MODULE MCFiles --------------------------------
(***************************************************************************)
(* Open files and pipes for TLC.  The table of open files and one pipe have *)
(* state of their own; a behaviour exercises the part it starts with.       *)
(***************************************************************************)
EXTENDS Ftable, TLC

CONSTANTS
  a, b, c,   \* processes of a pipe, a the one that made it
  x, y       \* processes of a pipe, x the one that made it

\* Inodes are numbers so that NULL is not one of them.
OneInode == {11}
TwoInodes == {11, 12}

VARIABLES part,
  buf, head, tail, end, prunning, killed, ppc, len, left, op, via, out, ops, ppanicked
pipe == <<buf, head, tail, end, prunning, killed, ppc, len, left, op, via, out, ops, ppanicked>>

Trio == {a, b, c}
Pair == {x, y}
Ends == {0, 1}
Lengths == {1, 3}     \* below and above the size of the buffer
Io == [r \in Trio |-> {"read", "write", "fork"}]
Every == [r \in Pair |-> {"read", "write", "close", "dup", "fork", "kill"}]

\* Three processes read and write; the descriptors stay as fork has made them.
P == INSTANCE Pipe WITH
  Procs <- Trio, First <- a, Size <- 2, Fds <- Ends, Lens <- Lengths, MaxOps <- 3,
  Calls <- Io, running <- prunning, pc <- ppc, panicked <- ppanicked

\* Two processes make every call.
E == INSTANCE Pipe WITH
  Procs <- Pair, First <- x, Size <- 2, Fds <- Ends, Lens <- Lengths, MaxOps <- 2,
  Calls <- Every, running <- prunning, pc <- ppc, panicked <- ppanicked

ASSUME P!PipeAssumption /\ E!PipeAssumption

InTable == part = "table" /\ Next /\ UNCHANGED <<part, pipe>>

FilesInit ==
  /\ part \in {"table", "pipe", "ends"}
  /\ Init
  /\ IF part = "ends" THEN E!Init ELSE P!Init

FilesNext ==
  \/ InTable
  \/ part = "pipe" /\ P!Next /\ UNCHANGED <<part, vars>>
  \/ part = "ends" /\ E!Next /\ UNCHANGED <<part, vars>>

FilesSpec == FilesInit /\ [][FilesNext]_<<part, vars, pipe>>
TableSpec == FilesInit /\ part = "table" /\ [][InTable]_<<part, vars, pipe>>

Sym == Permutations(Trio \ {a})

--------------------------------------------------------------------------------
\* Nobody sleeps over data or room, also after dup, close and kill (fileread, filewrite).
NoLostWakeup == (part = "pipe" => P!NoLostWakeup) /\ (part = "ends" => E!NoLostWakeup)
\* The ring buffer implements a bounded queue (fileread, filewrite).
FifoSpec == P!FifoSpec
\* End of file is reported only when no write descriptor is left (fileread).
EofTruth == [][part = "ends" => E!EofStep]_<<part, pipe>>
================================================================================
