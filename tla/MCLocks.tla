-------------------------------- MODULE MCLocks --------------------------------
(***************************************************************************)
(* Spin locks with the interrupt flag, and sys_sleep, for TLC.  A behaviour *)
(* exercises the part it starts with.                                       *)
(***************************************************************************)
EXTENDS Spinlock, TLC, Integers

CONSTANT Sleepers

VARIABLES part, ticks, sst, ticks0, n, killed, result, elapsed, lag

Ticking == <<ticks, sst, ticks0, n, killed, result, elapsed, lag>>

\* A counter of eight values; -3 asks for five ticks, as unsigned numbers have it.
S == INSTANCE SysSleep WITH
  Procs <- Sleepers, WORD <- 8, Requests <- {-3, 0, 1, 4}, MaxLag <- 1, st <- sst

ASSUME S!WordAssumption

BothInit ==
  /\ part \in {"locks", "ticks"}
  /\ IF part = "ticks" THEN TRUE ELSE ticks = 0
  /\ Init /\ S!Init

BothNext ==
  \/ part = "locks" /\ Next /\ UNCHANGED <<part, Ticking>>
  \/ part = "ticks" /\ S!Next /\ UNCHANGED <<part, vars>>

BothSpec == BothInit /\ [][BothNext]_<<part, vars, Ticking>>

Sym == Permutations(Procs) \cup Permutations(Sleepers)

--------------------------------------------------------------------------------
\* A sleep lasts as long as was asked for and no longer (sys_sleep, kill).
SleepExact == S!SleepExact
================================================================================
