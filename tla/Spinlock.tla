------------------------------- MODULE Spinlock -------------------------------
(***************************************************************************)
(* Spin locks and the interrupt flag on the one processor (spinlock.c),     *)
(* with what switches threads under a lock: sched, yield, sleep, forkret    *)
(* and the scheduler (proc.c).  pushcli and popcli nest per processor, but  *)
(* the flag to restore belongs to a thread.  A system call runs with        *)
(* interrupts on (a trap gate), a handler with interrupts off until iret.   *)
(* The one other lock stands for idelock, tickslock, cons.lock, a pipe's    *)
(* lock..., which are taken before ptable.lock.  A system call gives its    *)
(* locks back before it returns, but for one: fileread of a pipe, when its  *)
(* process is killed in the middle of copying (file.c:191).                 *)
(***************************************************************************)
EXTENDS Integers, FiniteSets

CONSTANTS Procs, Sched   \* processes, and the scheduler's own thread
ASSUME ThreadsAssumption == IsFiniteSet(Procs) /\ Sched \notin Procs

Threads == Procs \cup {Sched}
Locks == {"ptable", "other"}
Contexts == {"kernel", "handler"}

VARIABLES
  iflag,          \* the processor's interrupt flag
  ncli, intena,   \* of struct cpu
  locked,         \* the locks taken; lk->cpu is the one processor
  cur,            \* the thread that runs
  ctx,            \* "user", "kernel", "handler", or "new" before forkret
  over,           \* the context a handler interrupted
  own,            \* the locks each context of each thread took
  saved,          \* sched's local copy of intena
  st,             \* "run", "ready", "asleep"
  again,          \* sleep has still to take its lock again
  panicked        \* the panic that was reached, or "no"

cpu == <<iflag, ncli, intena, locked>>
vars == <<cpu, cur, ctx, over, own, saved, st, again, panicked>>

Init ==
  /\ iflag = TRUE /\ ncli = 0 /\ intena = FALSE /\ locked = {}
  /\ cur = Sched
  /\ ctx = [t \in Threads |-> IF t = Sched THEN "kernel" ELSE "new"]
  /\ over = [t \in Threads |-> "user"]
  /\ own = [t \in Threads |-> [c \in Contexts |-> {}]]
  /\ saved = [t \in Threads |-> FALSE]
  /\ st = [t \in Threads |-> IF t = Sched THEN "run" ELSE "ready"]
  /\ again = [t \in Threads |-> FALSE]
  /\ panicked = "no"

Panic(message) == panicked' = message /\ UNCHANGED <<cpu, cur, ctx, over, own, saved, st, again>>

Running == panicked = "no"

Mine == own[cur][ctx[cur]]
InKernel == Running /\ ctx[cur] \in Contexts
Took(S) == own' = [own EXCEPT ![cur][ctx[cur]] = S]

--------------------------------------------------------------------------------
(* acquire, release *)

pushcli ==
  /\ iflag' = FALSE /\ ncli' = ncli + 1
  /\ intena' = IF ncli = 0 THEN iflag ELSE intena

popcliAtOnce == ncli' = ncli - 1 /\ iflag' = intena /\ UNCHANGED intena  \* mutant: does not nest
popcli ==
  /\ ncli' = ncli - 1 /\ UNCHANGED intena
  /\ iflag' = (ncli = 1 /\ intena)

\* A context takes "other" before ptable.lock, and after sleep takes it again.
Wants(l) ==
  /\ l \notin Mine
  /\ l = "other" => Mine = {}
  /\ again[cur] /\ ctx[cur] = "kernel" => l = "other"

Acquire(l) ==
  /\ InKernel /\ Wants(l) /\ (cur = Sched => ctx[cur] = "handler")
  /\ IF l \in locked THEN Panic("acquire")
     ELSE /\ pushcli /\ locked' = locked \cup {l} /\ Took(Mine \cup {l})
          /\ again' = [again EXCEPT ![cur] = @ /\ ctx[cur] = "handler"]
          /\ UNCHANGED <<cur, ctx, over, saved, st, panicked>>

Release(l) ==
  /\ InKernel /\ l \in Mine /\ (cur = Sched => ctx[cur] = "handler")
  /\ IF l \notin locked \/ iflag \/ ncli = 0 THEN Panic("release, popcli")
     ELSE /\ popcli /\ locked' = locked \ {l} /\ Took(Mine \ {l})
          /\ UNCHANGED <<cur, ctx, over, saved, st, again, panicked>>

--------------------------------------------------------------------------------
(* Entering and leaving the kernel *)

Syscall ==
  /\ Running /\ ctx[cur] = "user"
  /\ ctx' = [ctx EXCEPT ![cur] = "kernel"]
  /\ UNCHANGED <<cpu, cur, over, own, saved, st, again, panicked>>

SyscallDone ==
  /\ InKernel /\ ctx[cur] = "kernel" /\ cur # Sched /\ Mine = {} /\ ~again[cur]
  /\ ctx' = [ctx EXCEPT ![cur] = "user"] /\ iflag' = TRUE
  /\ UNCHANGED <<ncli, intena, locked, cur, over, own, saved, st, again, panicked>>

Interrupt ==
  /\ Running /\ iflag /\ ctx[cur] \in {"user", "kernel"}
  /\ over' = [over EXCEPT ![cur] = ctx[cur]]
  /\ ctx' = [ctx EXCEPT ![cur] = "handler"]
  /\ iflag' = FALSE
  /\ UNCHANGED <<ncli, intena, locked, cur, own, saved, st, again, panicked>>

Iret ==
  /\ InKernel /\ ctx[cur] = "handler" /\ Mine = {}
  /\ ctx' = [ctx EXCEPT ![cur] = over[cur]]
  /\ over' = [over EXCEPT ![cur] = "user"]
  /\ iflag' = TRUE
  /\ UNCHANGED <<ncli, intena, locked, cur, own, saved, st, again, panicked>>

--------------------------------------------------------------------------------
(* Switching threads *)

\* sched with ptable.lock in lk, with ncli at n; s is the new state.
\* Who sleeps with another lock than ptable.lock takes it again afterwards.
SchedTo(lk, n, s, caller) ==
  IF "ptable" \notin lk \/ n # 1 THEN Panic(caller)
  ELSE /\ saved' = [saved EXCEPT ![cur] = IF ncli = 0 THEN iflag ELSE intena]
       /\ intena' = saved'[cur] /\ ncli' = n /\ iflag' = FALSE /\ locked' = lk
       /\ own' = [own EXCEPT ![cur][ctx[cur]] = {"ptable"}]
       /\ st' = [st EXCEPT ![cur] = s]
       /\ again' = [again EXCEPT ![cur] = @ \/ (s = "asleep" /\ Mine = {"other"})]
       /\ cur' = Sched
       /\ UNCHANGED <<ctx, over, panicked>>

\* The timer's handler, which may have interrupted a process inside sleep.
Yield ==
  /\ InKernel /\ cur # Sched /\ ctx[cur] = "handler" /\ Mine = {}
  /\ SchedTo(locked \cup {"ptable"}, ncli + 1, "ready", "yield")

Sleep ==
  /\ InKernel /\ ctx[cur] = "kernel" /\ cur # Sched /\ Mine = {"other"}
  /\ SchedTo((locked \cup {"ptable"}) \ {"other"}, ncli, "asleep", "sleep")

\* wait sleeps with ptable.lock itself, and goes on with it.
SleepInWait ==
  /\ InKernel /\ ctx[cur] = "kernel" /\ cur # Sched /\ Mine = {"ptable"} /\ ~again[cur]
  /\ SchedTo(locked, ncli, "asleep", "sleep")

\* The killed reader of a pipe returns with its lock, and trap has it exit at
\* once: sched finds two locks taken.  Interrupts are off all the way; the locks
\* that exit takes and releases in between leave nothing behind.
KilledReader ==
  /\ InKernel /\ ctx[cur] = "kernel" /\ cur # Sched /\ Mine = {"other"}
  /\ SchedTo(locked \cup {"ptable"}, ncli + 1, "zombie", "exit after fileread")

Wakeup(p) ==
  /\ InKernel /\ "ptable" \in Mine /\ st[p] = "asleep"
  /\ st' = [st EXCEPT ![p] = "ready"]
  /\ UNCHANGED <<cpu, cur, ctx, over, own, saved, again, panicked>>

\* The scheduler takes ptable.lock with interrupts on and scans.
ScanBegin ==
  /\ Running /\ cur = Sched /\ ctx[cur] = "kernel" /\ "ptable" \notin locked
  /\ intena' = TRUE /\ ncli' = 1 /\ iflag' = FALSE /\ locked' = locked \cup {"ptable"}
  /\ UNCHANGED <<cur, ctx, over, own, saved, st, again, panicked>>

ScanEnd ==   \* release, and the sti that follows
  /\ Running /\ cur = Sched /\ ctx[cur] = "kernel" /\ "ptable" \in locked
  /\ ncli' = ncli - 1 /\ iflag' = TRUE /\ locked' = locked \ {"ptable"}
  /\ UNCHANGED <<intena, cur, ctx, over, own, saved, st, again, panicked>>

RestoredNot(p) == intena    \* mutant: sched does not restore intena
Restored(p) == saved[p]

\* swtch to p, which goes on behind sched: it still holds ptable.lock.
Dispatch(p) ==
  /\ Running /\ cur = Sched /\ ctx[cur] = "kernel" /\ "ptable" \in locked
  /\ st[p] = "ready" /\ ctx[p] # "new"
  /\ cur' = p /\ st' = [st EXCEPT ![p] = "run"]
  /\ intena' = Restored(p)
  /\ UNCHANGED <<iflag, ncli, locked, ctx, over, own, saved, again, panicked>>

\* The first time, swtch leads to forkret, which releases the lock; then trapret.
DispatchNew(p) ==
  /\ Running /\ cur = Sched /\ ctx[cur] = "kernel" /\ "ptable" \in locked
  /\ st[p] = "ready" /\ ctx[p] = "new"
  /\ cur' = p /\ st' = [st EXCEPT ![p] = "run"]
  /\ ctx' = [ctx EXCEPT ![p] = "user"]
  /\ locked' = locked \ {"ptable"} /\ ncli' = ncli - 1 /\ iflag' = TRUE
  /\ UNCHANGED <<intena, over, own, saved, again, panicked>>

\* panic never returns.
Halted == ~Running /\ UNCHANGED vars

Next ==
  \/ \E l \in Locks : Acquire(l) \/ Release(l)
  \/ Syscall \/ SyscallDone \/ Interrupt \/ Iret
  \/ Yield \/ Sleep \/ SleepInWait \/ KilledReader \/ ScanBegin \/ ScanEnd \/ Halted
  \/ \E p \in Procs : Wakeup(p) \/ Dispatch(p) \/ DispatchNew(p)

Spec == Init /\ [][Next]_vars

--------------------------------------------------------------------------------
\* Interrupts are off as long as any lock is held: no handler can spin for a lock
\* that the code it interrupted holds (acquire's pushcli, release's popcli).
HeldMeansOff == locked # {} => ~iflag

\* "It takes two popcli to undo two pushcli": without locks, interrupts are on in
\* a system call and off in a handler, whoever ran in between and with whatever
\* flag it entered sched ("intena is a property of this kernel thread").
FlagRestored ==
  InKernel /\ Mine = {} /\ (cur = Sched => locked = {}) => iflag = (ctx[cur] = "kernel")

\* Of the panics of acquire, release, popcli and sched only one can be reached,
\* that of sched in the exit of a reader which was killed while it copied.
OnlyReaderPanics == panicked \in {"no", "exit after fileread"}
================================================================================
