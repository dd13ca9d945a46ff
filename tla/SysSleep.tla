------------------------------- MODULE SysSleep -------------------------------
(***************************************************************************)
(* sys_sleep (kernel/sysproc.c) against the timer interrupt, which counts   *)
(* ticks in an unsigned word that wraps, and against kill.  tickslock makes *)
(* the test and the sleep one step, and the increment and the wakeup        *)
(* another.  A negative argument is converted to unsigned by the comparison.*)
(***************************************************************************)
EXTENDS Integers, FiniteSets

CONSTANTS
  Procs,
  WORD,      \* values of a tick counter (2^32 in the code)
  Requests,  \* arguments of sleep
  MaxLag     \* bound: ticks that pass before a process that was woken runs

WordAssumption ==
  /\ IsFiniteSet(Procs) /\ WORD \in Nat \ {0} /\ MaxLag \in Nat
  /\ \A n \in Requests : n \in Int /\ (n % WORD) + MaxLag < WORD

VARIABLES
  ticks,
  st,       \* "user", "asleep" on &ticks, "woken", or "gone" (it exited)
  ticks0,   \* the counter when the call began
  n,        \* the argument, as the comparison reads it
  killed,
  result,   \* what the last call returned
  elapsed,  \* ticks since the call began, which the code does not count
  lag       \* ticks since the process was woken

vars == <<ticks, st, ticks0, n, killed, result, elapsed, lag>>

Init ==
  /\ ticks \in 0..(WORD - 1)
  /\ st = [p \in Procs |-> "user"]
  /\ ticks0 = [p \in Procs |-> 0] /\ n = [p \in Procs |-> 0]
  /\ killed = [p \in Procs |-> FALSE]
  /\ result = [p \in Procs |-> "none"]
  /\ elapsed = [p \in Procs |-> 0] /\ lag = [p \in Procs |-> 0]

\* Mutant: a comparison that does not survive the wrap.
RemainsEarly(t0, k) == ticks < (t0 + k) % WORD
Remains(t0, k) == (ticks - t0) % WORD < k

Return(p, r) == st' = [st EXCEPT ![p] = "user"] /\ result' = [result EXCEPT ![p] = r]

\* One turn of the loop, under tickslock.
Loop(p, t0, k) ==
  \/ ~Remains(t0, k) /\ Return(p, "slept")
  \/ Remains(t0, k) /\ killed[p] /\ Return(p, "killed")
  \/ /\ Remains(t0, k) /\ ~killed[p]
     /\ st' = [st EXCEPT ![p] = "asleep"] /\ UNCHANGED result

Sleep(p, arg) ==
  /\ st[p] = "user" /\ ~killed[p]
  /\ ticks0' = [ticks0 EXCEPT ![p] = ticks]
  /\ n' = [n EXCEPT ![p] = arg % WORD]
  /\ elapsed' = [elapsed EXCEPT ![p] = 0]
  /\ lag' = [lag EXCEPT ![p] = 0]
  /\ Loop(p, ticks, arg % WORD)
  /\ UNCHANGED <<ticks, killed>>

Wake(p) ==
  /\ st[p] = "woken"
  /\ Loop(p, ticks0[p], n[p])
  /\ lag' = [lag EXCEPT ![p] = 0]
  /\ UNCHANGED <<ticks, ticks0, n, killed, elapsed>>

Woken(S) == [p \in Procs |-> IF p \in S /\ st[p] = "asleep" THEN "woken" ELSE st[p]]

\* Counted up to a bound past every request.
Aged == [p \in Procs |-> IF st[p] \in {"asleep", "woken"} /\ elapsed[p] < 2 * WORD
                         THEN elapsed[p] + 1 ELSE elapsed[p]]

Tick ==
  /\ \A p \in Procs : st[p] = "woken" => lag[p] < MaxLag
  /\ ticks' = (ticks + 1) % WORD
  /\ st' = Woken(Procs)
  /\ elapsed' = Aged
  /\ lag' = [p \in Procs |-> IF st[p] = "woken" THEN lag[p] + 1 ELSE lag[p]]
  /\ UNCHANGED <<ticks0, n, killed, result>>

Kill(p) ==
  /\ st[p] # "gone" /\ ~killed[p]
  /\ killed' = [killed EXCEPT ![p] = TRUE]
  /\ st' = Woken({p})
  /\ UNCHANGED <<ticks, ticks0, n, result, elapsed, lag>>

\* trap exits a killed process on its way to user mode.
Leave(p) ==
  /\ st[p] = "user" /\ killed[p]
  /\ st' = [st EXCEPT ![p] = "gone"]
  /\ UNCHANGED <<ticks, ticks0, n, killed, result, elapsed, lag>>

Next ==
  \/ Tick
  \/ \E p \in Procs : Wake(p) \/ Kill(p) \/ Leave(p) \/ \E arg \in Requests : Sleep(p, arg)

Spec == Init /\ [][Next]_vars

--------------------------------------------------------------------------------
\* A sleep lasts as long as was asked for: it returns 0 only after that many
\* ticks, wherever the counter was and although it wraps, and nobody sleeps on
\* once its time is over, or once it was killed.
SleepExact ==
  \A p \in Procs :
    /\ st[p] = "user" /\ result[p] = "slept" => elapsed[p] >= n[p]
    /\ st[p] = "asleep" => elapsed[p] < n[p] /\ ~killed[p]
================================================================================
