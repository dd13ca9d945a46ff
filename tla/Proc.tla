-------------------------------- MODULE Proc --------------------------------
(***************************************************************************)
(* The process table of the xk kernel (kernel/proc.c): allocproc, fork,    *)
(* exit, wait, sleep, wakeup, kill, yield and the scheduler, with the      *)
(* killed checks of kernel/trap.c and the loop of sys_sleep.               *)
(*                                                                         *)
(* xk runs on one CPU.  System calls run with interrupts on (their gate is *)
(* a trap gate), so the timer may preempt a process anywhere in the kernel *)
(* except where it holds a spinlock.  One action is therefore one critical *)
(* section of ptable.lock, with the process-local work around it, and the  *)
(* timer may strike between any two of them.  Inside sleep() a process is  *)
(* switched out, and back in, while the lock is held: the locations        *)
(* "wait_woken" and "sleep_woken" are where it resumes, and the timer      *)
(* cannot strike there.                                                    *)
(***************************************************************************)
EXTENDS Naturals

CONSTANTS
  NPROC,      \* slots of the process table
  MaxPid,     \* bound of the model: the last pid allocproc hands out
  NullReads,  \* values exit() may read as the pid of a null parent
  KillPids,   \* the arguments that programs give to kill
  InitCalls,  \* the system calls that the first program makes
  UserCalls   \* the system calls that the other programs make; they may exit

Calls == {"fork_alloc", "wait_scan", "kill", "sleep_loop", "exit"}

ASSUME NprocAssumption == NPROC \in Nat \ {0}
ASSUME MaxPidAssumption == MaxPid \in Nat \ {0}
ASSUME NullReadsAssumption == NullReads # {} /\ NullReads \subseteq Nat
ASSUME KillPidsAssumption == KillPids \subseteq Nat
ASSUME InitCallsAssumption == InitCalls \subseteq Calls
ASSUME UserCallsAssumption == UserCalls \subseteq Calls

Procs == 1..NPROC
None == 0                \* the null struct proc pointer, and no channel
Initproc == 1            \* initproc: userinit runs on an empty table
Ticks == NPROC + 1       \* the channel &ticks

VARIABLES
  state,     \* ptable.proc[i].state
  pid,       \* ptable.proc[i].pid
  parent,    \* ptable.proc[i].parent
  killed,    \* ptable.proc[i].killed
  chan,      \* ptable.proc[i].chan
  nextpid,
  cpu,       \* mycpu()->proc
  scan,      \* the slot at which scheduler() goes on looking
  panicked,  \* console.c: panic() was called
  pc,        \* where each process is, in user code or in a system call
  child,     \* fork's p
  idx,       \* wait's i in its first loop
  has        \* wait's hasActiveChildren

table == <<state, pid, parent, killed, chan, nextpid>>
locals == <<pc, child, idx, has>>
vars == <<table, cpu, scan, panicked, locals>>

States == {"UNUSED", "EMBRYO", "SLEEPING", "RUNNABLE", "RUNNING", "ZOMBIE"}
Locations == {"user", "fork_alloc", "fork_setup", "fork_publish", "kill",
              "wait_scan", "wait_reap", "wait_woken",
              "sleep_loop", "sleep_woken"}

-----------------------------------------------------------------------------
\* After userinit: one process, in the first slot, ready to run initcode.
Init ==
  /\ state = [p \in Procs |-> IF p = Initproc THEN "RUNNABLE" ELSE "UNUSED"]
  /\ pid = [p \in Procs |-> IF p = Initproc THEN 1 ELSE 0]
  /\ parent = [p \in Procs |-> None]
  /\ killed = [p \in Procs |-> FALSE]
  /\ chan = [p \in Procs |-> None]
  /\ nextpid = 2
  /\ cpu = None
  /\ scan = 1
  /\ panicked = FALSE
  /\ pc = [p \in Procs |-> "user"]
  /\ child = [p \in Procs |-> None]
  /\ idx = [p \in Procs |-> 1]
  /\ has = [p \in Procs |-> FALSE]

\* Only the process on the CPU takes steps, and none does after a panic.
Running(p) == ~panicked /\ cpu = p

\* The slot that a scan of the table in index order meets first.
First(S) == {s \in S : \A t \in S : s <= t}

Goto(p, loc) == pc' = [pc EXCEPT ![p] = loc]

\* The process states st after wakeup1(ch).
Wakeup1(st, ch) ==
  [q \in Procs |-> IF st[q] = "SLEEPING" /\ chan[q] = ch THEN "RUNNABLE" ELSE st[q]]

\* trap(): a system call begins only if the caller has not been killed.
\* exit() is the action Exit.
Syscall(p, call) ==
  /\ Running(p) /\ pc[p] = "user" /\ ~killed[p]
  /\ call # "exit"
  /\ call \in IF p = Initproc THEN InitCalls ELSE UserCalls
  /\ Goto(p, call)
  /\ UNCHANGED <<table, cpu, scan, panicked, child, idx, has>>

-----------------------------------------------------------------------------
(* fork *)

\* The slots that allocproc's scan accepts.
FreeSlots == {s \in Procs : state[s] = "UNUSED"}

\* allocproc's critical section.  A full table, or the model's bound on
\* pids, makes fork return -1.
ForkAlloc(p) ==
  /\ Running(p) /\ pc[p] = "fork_alloc"
  /\ IF FreeSlots = {} \/ nextpid > MaxPid
     THEN /\ Goto(p, "user")
          /\ UNCHANGED <<table, child>>
     ELSE \E s \in First(FreeSlots) :
          /\ state' = [state EXCEPT ![s] = "EMBRYO"]
          /\ pid' = [pid EXCEPT ![s] = nextpid]
          /\ killed' = [killed EXCEPT ![s] = FALSE]
          /\ nextpid' = nextpid + 1
          /\ child' = [child EXCEPT ![p] = s]
          /\ Goto(p, "fork_setup")
          /\ UNCHANGED <<parent, chan>>
  /\ UNCHANGED <<cpu, scan, panicked, idx, has>>

\* Without the lock: the kernel stack, the address space, the trap frame.
\* When kalloc has no page for the stack, fork gives the slot back (its pid
\* stays) and returns -1; when vspaceinit has none, fork's assertion panics.
ForkSetup(p) ==
  /\ Running(p) /\ pc[p] = "fork_setup"
  /\ \/ /\ Goto(p, "fork_publish")
        /\ UNCHANGED <<state, child, panicked>>
     \/ /\ state' = [state EXCEPT ![child[p]] = "UNUSED"]
        /\ child' = [child EXCEPT ![p] = None]
        /\ Goto(p, "user")
        /\ UNCHANGED panicked
     \/ /\ panicked' = TRUE
        /\ UNCHANGED <<state, child, pc>>
  /\ UNCHANGED <<pid, parent, killed, chan, nextpid, cpu, scan, idx, has>>

\* fork's last critical section: the child may run, and has a parent.
ForkPublish(p) ==
  /\ Running(p) /\ pc[p] = "fork_publish"
  /\ state' = [state EXCEPT ![child[p]] = "RUNNABLE"]
  /\ parent' = [parent EXCEPT ![child[p]] = p]
  /\ child' = [child EXCEPT ![p] = None]
  /\ pc' = [pc EXCEPT ![p] = "user", ![child[p]] = "user"]
  /\ UNCHANGED <<pid, killed, chan, nextpid, cpu, scan, panicked, idx, has>>

-----------------------------------------------------------------------------
(* exit *)

\* Mutant of Adopted: only the children that have exited.
AdoptedZombies(p, nullpid) ==
  {c \in Procs : (IF parent[c] = None THEN nullpid ELSE pid[parent[c]]) = pid[p]
              /\ state[c] = "ZOMBIE"}

\* The slots that exit() hands to init: those whose parent has the caller's
\* pid.  For a null parent the code reads the word at the address of
\* ((struct proc *)0)->pid, which holds program text (nullpid).
Adopted(p, nullpid) ==
  {c \in Procs : (IF parent[c] = None THEN nullpid ELSE pid[parent[c]]) = pid[p]}

\* Mutant of ExitFrom: the parent is not woken.
ExitFromUnseen(p, st) ==
  \E nullpid \in NullReads :
    LET adopted == Adopted(p, nullpid)
        woken == IF adopted # {} THEN Wakeup1(st, Initproc) ELSE st
    IN /\ parent' = [c \in Procs |-> IF c \in adopted THEN Initproc ELSE parent[c]]
       /\ state' = [woken EXCEPT ![p] = "ZOMBIE"]
       /\ cpu' = None
       /\ UNCHANGED <<pid, killed, chan, nextpid, scan, panicked, locals>>

\* exit() by p when the process states are st: adopt, wake init if it is
\* asleep, wake the parent, become a zombie, leave the CPU.
ExitFrom(p, st) ==
  \E nullpid \in NullReads :
    LET adopted == Adopted(p, nullpid)
        woken == IF adopted # {} THEN Wakeup1(st, Initproc) ELSE st
    IN /\ parent' = [c \in Procs |-> IF c \in adopted THEN Initproc ELSE parent[c]]
       /\ state' = [Wakeup1(woken, parent'[p]) EXCEPT ![p] = "ZOMBIE"]
       /\ cpu' = None
       /\ UNCHANGED <<pid, killed, chan, nextpid, scan, panicked, locals>>

\* sys_exit, or the exit that trap() forces on a killed process.
Exit(p) ==
  /\ Running(p) /\ pc[p] = "user"
  /\ p = Initproc => killed[p] \/ "exit" \in InitCalls
  /\ ExitFrom(p, state)

-----------------------------------------------------------------------------
(* wait *)

FoundAnyway(p) == TRUE

\* Whether wait's first loop has found a child, the slot it looks at included.
ScanFound(p) == has[p] \/ (parent[idx[p]] = p /\ state[idx[p]] # "UNUSED")

\* The slot to look at next; a later wait begins at the first slot again.
ScanNext(p) == IF idx[p] = NPROC THEN 1 ELSE idx[p] + 1

\* One turn of the loop that looks for children; the lock is taken anew for
\* each slot.  After the last slot, no child found means return -1.
WaitScan(p) ==
  /\ Running(p) /\ pc[p] = "wait_scan"
  /\ idx' = [idx EXCEPT ![p] = ScanNext(p)]
  /\ IF idx[p] = NPROC
     THEN /\ has' = [has EXCEPT ![p] = FALSE]
          /\ Goto(p, IF ScanFound(p) THEN "wait_reap" ELSE "user")
     ELSE /\ has' = [has EXCEPT ![p] = ScanFound(p)]
          /\ UNCHANGED pc
  /\ UNCHANGED <<table, cpu, scan, panicked, child>>

\* Mutant of ZombieChildren: the parent is not compared.
AnyZombies(p) == {c \in Procs : c # p /\ state[c] = "ZOMBIE"}

\* The slots that wait's second loop accepts.
ZombieChildren(p) == {c \in Procs : parent[c] = p /\ state[c] = "ZOMBIE"}

\* The process states when p goes to sleep on ch: sleep() up to sched().
\* The caller holds ptable.lock, or takes it before it drops its own lock.
SleepOn(p, ch) ==
  /\ state' = [state EXCEPT ![p] = "SLEEPING"]
  /\ chan' = [chan EXCEPT ![p] = ch]
  /\ cpu' = None

\* The second loop of wait, one turn per critical section: reap the first
\* zombie child and return its pid, or sleep on oneself and look again.
WaitReap(p) ==
  /\ Running(p) /\ pc[p] \in {"wait_reap", "wait_woken"}
  /\ IF ZombieChildren(p) # {}
     THEN \E c \in First(ZombieChildren(p)) :
          /\ state' = [state EXCEPT ![c] = "UNUSED"]
          /\ parent' = [parent EXCEPT ![c] = None]
          /\ pid' = [pid EXCEPT ![c] = 0]
          /\ killed' = [killed EXCEPT ![c] = FALSE]
          /\ chan' = [chan EXCEPT ![p] = None]
          /\ Goto(p, "user")
          /\ UNCHANGED cpu
     ELSE /\ SleepOn(p, p)
          /\ Goto(p, "wait_woken")
          /\ UNCHANGED <<parent, pid, killed>>
  /\ UNCHANGED <<nextpid, scan, panicked, child, idx, has>>

-----------------------------------------------------------------------------
(* sys_sleep and kill *)

\* The loop of sys_sleep under tickslock: return when the time is up or the
\* caller is killed, else sleep on &ticks.  Whether the time is up is left
\* open here.
SleepLoop(p) ==
  /\ Running(p) /\ pc[p] = "sleep_loop"
  /\ \/ /\ Goto(p, "user")
        /\ UNCHANGED <<state, chan, cpu>>
     \/ /\ ~killed[p]
        /\ SleepOn(p, Ticks)
        /\ Goto(p, "sleep_woken")
  /\ UNCHANGED <<pid, parent, killed, nextpid, scan, panicked, child, idx, has>>

\* sleep() resumes: it clears the channel and drops ptable.lock.
SleepWoken(p) ==
  /\ Running(p) /\ pc[p] = "sleep_woken"
  /\ chan' = [chan EXCEPT ![p] = None]
  /\ Goto(p, "sleep_loop")
  /\ UNCHANGED <<state, pid, parent, killed, nextpid, cpu, scan, panicked, child, idx, has>>

\* kill(k): the first slot with that pid, whatever its state.
Kill(p, k) ==
  LET targets == {q \in Procs : pid[q] = k} IN
  /\ Running(p) /\ pc[p] = "kill"
  /\ IF targets = {}
     THEN UNCHANGED <<killed, state>>
     ELSE \E q \in First(targets) :
          /\ killed' = [killed EXCEPT ![q] = TRUE]
          /\ state' = [state EXCEPT ![q] = IF @ = "SLEEPING" THEN "RUNNABLE" ELSE @]
  /\ Goto(p, "user")
  /\ UNCHANGED <<pid, parent, chan, nextpid, cpu, scan, panicked, child, idx, has>>

-----------------------------------------------------------------------------
(* the timer interrupt and the scheduler *)

\* The timer strikes while p runs: sleepers on &ticks wake up, then p exits
\* if it was killed and is in user code, and yields otherwise.
Timer(p) ==
  LET st == Wakeup1(state, Ticks) IN
  /\ Running(p) /\ pc[p] \notin {"wait_woken", "sleep_woken"}
  /\ IF pc[p] = "user" /\ killed[p]
     THEN ExitFrom(p, st)
     ELSE /\ state' = [st EXCEPT ![p] = "RUNNABLE"]
          /\ cpu' = None
          /\ UNCHANGED <<pid, parent, killed, chan, nextpid, scan, panicked, locals>>

\* The timer strikes while the scheduler idles between two scans.
TimerIdle ==
  /\ ~panicked /\ cpu = None /\ scan = 1
  /\ state' = Wakeup1(state, Ticks)
  /\ UNCHANGED <<pid, parent, killed, chan, nextpid, cpu, scan, panicked, locals>>

Candidates == {p \in Procs : p >= scan /\ state[p] = "RUNNABLE"}

\* Mutant of Dispatch: every scan begins at the first slot.
DispatchFromFirst ==
  /\ ~panicked /\ cpu = None /\ Candidates # {}
  /\ \E p \in First(Candidates) :
     /\ cpu' = p
     /\ state' = [state EXCEPT ![p] = "RUNNING"]
     /\ scan' = 1
  /\ UNCHANGED <<pid, parent, killed, chan, nextpid, panicked, locals>>

\* scheduler(): switch to the next RUNNABLE slot of the scan, or begin anew.
Dispatch ==
  /\ ~panicked /\ cpu = None /\ Candidates # {}
  /\ \E p \in First(Candidates) :
     /\ cpu' = p
     /\ state' = [state EXCEPT ![p] = "RUNNING"]
     /\ scan' = p + 1
  /\ UNCHANGED <<pid, parent, killed, chan, nextpid, panicked, locals>>

Rescan ==
  /\ ~panicked /\ cpu = None /\ Candidates = {} /\ scan # 1
  /\ scan' = 1
  /\ UNCHANGED <<table, cpu, panicked, locals>>

\* panic() spins for ever.
Frozen == panicked /\ UNCHANGED vars

-----------------------------------------------------------------------------
\* What a process does in the kernel once it is there.
KernelStep(p) ==
  \/ ForkAlloc(p) \/ ForkSetup(p) \/ ForkPublish(p)
  \/ WaitScan(p) \/ WaitReap(p)
  \/ SleepLoop(p) \/ SleepWoken(p)
  \/ \E k \in KillPids : Kill(p, k)

Next ==
  \/ \E p \in Procs : \/ \E call \in Calls : Syscall(p, call)
                      \/ KernelStep(p)
                      \/ Exit(p)
                      \/ Timer(p)
  \/ TimerIdle \/ Dispatch \/ Rescan \/ Frozen

Spec == Init /\ [][Next]_vars

\* The scheduler loops for ever; the timer keeps ticking; between two ticks
\* the CPU executes instructions, so a process that is switched in again and
\* again gets through its kernel code and out of user code when killed; the
\* first program calls wait again and again (user/init.c).
Fairness ==
  /\ WF_vars(Dispatch \/ Rescan)
  /\ \A p \in Procs : /\ WF_vars(Timer(p))
                      /\ SF_vars(KernelStep(p))
                      /\ SF_vars(killed[p] /\ Exit(p))
  /\ SF_vars(Syscall(Initproc, "wait_scan"))

FairSpec == Spec /\ Fairness
-----------------------------------------------------------------------------
(* Properties *)

TypeOK ==
  /\ state \in [Procs -> States]
  /\ pid \in [Procs -> Nat]
  /\ parent \in [Procs -> Procs \cup {None}]
  /\ killed \in [Procs -> BOOLEAN]
  /\ chan \in [Procs -> Procs \cup {None, Ticks}]
  /\ nextpid \in Nat
  /\ cpu \in Procs \cup {None}
  /\ scan \in 1..(NPROC + 1)
  /\ panicked \in BOOLEAN
  /\ pc \in [Procs -> Locations]
  /\ child \in [Procs -> Procs \cup {None}]
  /\ idx \in [Procs -> Procs]
  /\ has \in [Procs -> BOOLEAN]

Live(p) == state[p] \in {"SLEEPING", "RUNNABLE", "RUNNING", "ZOMBIE"}
InFork(p) == pc[p] \in {"fork_setup", "fork_publish"}
InWait(p) == pc[p] \in {"wait_reap", "wait_woken"}
Children(p) == {c \in Procs \ {p} : parent[c] = p /\ state[c] # "UNUSED"}

\* Two slots in use never have the same pid, so that exit(), which finds its
\* children by comparing pids (proc.c:207), and kill(), which stops at the
\* first match (proc.c:428), act on the process that was meant.
PidsUnique ==
  \A p, q \in Procs :
    state[p] # "UNUSED" /\ state[q] # "UNUSED" /\ pid[p] = pid[q] => p = q

\* The parent pointer of a process never dangles: its parent is a process
\* that has not exited, or it is init.  wait() frees a slot (proc.c:248)
\* while other slots may still point to it; exit() must have moved them all.
ParentAlive ==
  \A c \in Procs :
    Live(c) /\ parent[c] \notin {None, Initproc} =>
      state[parent[c]] \in {"SLEEPING", "RUNNABLE", "RUNNING"}

\* No wakeup is lost between exit() and wait(): a process that sleeps in
\* wait (proc.c:260) has no child that has already exited.
NoLostWakeup ==
  \A p \in Procs :
    state[p] = "SLEEPING" /\ pc[p] = "wait_woken" => ZombieChildren(p) = {}

\* Only a process with a child sleeps in wait: the decision at proc.c:240,
\* taken from a scan that drops the lock between slots, is never stale.
WaiterHasChild ==
  \A p \in Procs :
    state[p] = "SLEEPING" /\ pc[p] = "wait_woken" => Children(p) # {}

\* A slot taken by allocproc belongs to the one process that is forking into
\* it: no other fork takes it, and nobody frees it or runs it meanwhile.
EmbryoOwned ==
  /\ \A s \in Procs : state[s] = "EMBRYO" <=>
        \E p \in Procs : InFork(p) /\ child[p] = s
  /\ \A p, q \in Procs :
        InFork(p) /\ InFork(q) /\ child[p] = child[q] => p = q

\* A slot leaves the table only when its process can no longer run on the
\* stack and the page table that wait() frees (proc.c:249-250): from ZOMBIE,
\* and by the parent, or from EMBRYO by the fork that failed.
FreedStep ==
  \A c \in Procs :
    state[c] # "UNUSED" /\ state'[c] = "UNUSED" =>
      /\ cpu # c
      /\ \/ state[c] = "ZOMBIE" /\ parent[c] = cpu
         \/ state[c] = "EMBRYO" /\ child[cpu] = c
\* Every step frees slots only so (wait, fork).
FreedByOwner == [][FreedStep]_vars

\* The scheduler starves nobody: its scan goes on after the slot that ran
\* last (proc.c:286), so every RUNNABLE process gets the CPU.
RunnableRuns ==
  \A p \in Procs : state[p] = "RUNNABLE" ~> state[p] = "RUNNING" \/ panicked

\* A zombie that init has to reap is reaped: its slot and its memory come
\* back ("The child's data structures must still be reclaimed", lab2.md:167).
OrphanReaped ==
  \A c \in Procs :
    state[c] = "ZOMBIE" /\ parent[c] = Initproc ~> state[c] = "UNUSED" \/ panicked
=============================================================================
