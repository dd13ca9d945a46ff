---------------------------- MODULE SpinlockProofs ----------------------------
(***************************************************************************)
(* Invariance proofs for Spinlock, for any number of processes.            *)
(***************************************************************************)
EXTENDS Spinlock, TLAPS

Flags ==
  /\ iflag \in BOOLEAN /\ intena \in BOOLEAN /\ locked \in SUBSET Locks
  /\ cur \in Threads
  /\ ctx \in [Threads -> {"user", "kernel", "handler", "new"}]
  /\ over \in [Threads -> {"user", "kernel"}]
  /\ own \in [Threads -> [Contexts -> SUBSET Locks]]
  /\ saved \in [Threads -> BOOLEAN]

\* ncli counts the locks taken.
Counted == ncli = (IF "ptable" \in locked THEN 1 ELSE 0) + (IF "other" \in locked THEN 1 ELSE 0)

\* A context that is not a thread's current one holds nothing.
OthersEmpty == \A t \in Threads : \A c \in Contexts : c # ctx[t] => own[t][c] = {}

\* The thread that runs: the locks taken are its own, and the flag, or what
\* popcli will make of it, is the one its context began with.
RunInv ==
  /\ cur # Sched => ctx[cur] # "new"
  /\ cur # Sched \/ ctx[cur] = "handler" =>
       /\ ctx[cur] = "user" => locked = {}
       /\ ctx[cur] \in Contexts => locked = Mine
       /\ locked # {} => (intena <=> ctx[cur] = "kernel")
  /\ locked = {} => (iflag <=> ctx[cur] # "handler")
  /\ locked # {} => ~iflag

\* The scheduler's thread holds no lock but ptable.lock, which it passes on.
SchedInv ==
  /\ ctx[Sched] \in Contexts
  /\ ctx[Sched] = "handler" => cur = Sched /\ over[Sched] = "kernel"
  /\ ctx[Sched] = "kernel" => own[Sched]["kernel"] = {}
  /\ cur = Sched /\ ctx[Sched] = "kernel" => locked \subseteq {"ptable"}

\* A thread that waits to run stands behind sched with ptable.lock, and has kept
\* its flag; or it has never run.
WaitInv ==
  \A t \in Procs : t # cur =>
    /\ ctx[t] # "user"
    /\ ctx[t] \in Contexts => own[t][ctx[t]] = {"ptable"} /\ (saved[t] <=> ctx[t] = "kernel")

IInv == Flags /\ Counted /\ OthersEmpty /\ RunInv /\ SchedInv /\ WaitInv /\ OnlyReaderPanics

\* The invariant holds when the scheduler starts.
LEMMA InitIInv == Init => IInv
<1> SUFFICES ASSUME Init PROVE IInv
  OBVIOUS
<1> USE ThreadsAssumption DEF Init, Threads, Locks, Contexts
<1>1. Flags
  BY DEF Flags
<1>2. Counted /\ OthersEmpty /\ SchedInv /\ WaitInv /\ OnlyReaderPanics
  BY DEF Counted, OthersEmpty, SchedInv, WaitInv, OnlyReaderPanics
<1>3. RunInv
  BY DEF RunInv
<1> QED  BY <1>1, <1>2, <1>3 DEF IInv

\* acquire takes a lock that is free, since the locks taken are the thread's own.
LEMMA AcquireKeeps ==
  ASSUME IInv, NEW l \in Locks, Acquire(l) PROVE IInv'
<1> USE ThreadsAssumption DEF Threads, Locks, Contexts, Mine, InKernel
<1>a. /\ l \notin locked /\ locked = Mine
      /\ ctx[cur] \in Contexts /\ (cur = Sched => ctx[cur] = "handler")
      /\ pushcli /\ locked' = locked \cup {l} /\ Took(Mine \cup {l})
      /\ UNCHANGED <<cur, ctx, over, saved, st, panicked>>
  BY DEF IInv, RunInv, Acquire, Wants
<1>b. intena' \in BOOLEAN /\ (intena' <=> ctx[cur] = "kernel")
  <2>1. CASE ncli = 0
    <3>1. locked = {}
      BY <2>1 DEF IInv, Flags, Counted
    <3>2. iflag \in BOOLEAN /\ (iflag <=> ctx[cur] = "kernel")
      BY <1>a, <3>1 DEF IInv, Flags, RunInv
    <3> QED  BY <1>a, <2>1, <3>2, Zenon DEF pushcli
  <2>2. CASE ncli # 0
    <3>1. locked # {}
      BY <2>2 DEF IInv, Flags, Counted
    <3>2. intena' = intena
      BY <1>a, <2>2 DEF pushcli
    <3> QED  BY <1>a, <3>1, <3>2 DEF IInv, Flags, RunInv, Acquire
  <2> QED  BY <2>1, <2>2
<1>1. Flags'
  BY <1>a, <1>b DEF IInv, Flags, pushcli, Took
<1>2. Counted'
  BY <1>a DEF IInv, Flags, Counted, pushcli, Took
<1>3. OthersEmpty'
  BY <1>a DEF IInv, Flags, OthersEmpty, pushcli, Took
<1>4. RunInv'
  BY <1>a, <1>b DEF IInv, Flags, RunInv, pushcli, Took
<1>5. SchedInv'
  BY <1>a DEF IInv, Flags, SchedInv, pushcli, Took
<1>6. WaitInv'
  BY <1>a DEF IInv, Flags, WaitInv, pushcli, Took
<1>7. OnlyReaderPanics'
  BY <1>a DEF IInv, OnlyReaderPanics
<1> QED  BY <1>1, <1>2, <1>3, <1>4, <1>5, <1>6, <1>7 DEF IInv

\* The last release restores the flag of the context.
LEMMA ReleaseKeeps ==
  ASSUME IInv, NEW l \in Locks, Release(l) PROVE IInv'
<1> USE ThreadsAssumption DEF Threads, Locks, Contexts, Mine, InKernel
<1>a. /\ locked = Mine /\ l \in locked
      /\ ctx[cur] \in Contexts /\ (cur = Sched => ctx[cur] = "handler")
  BY DEF IInv, RunInv, Release
<1>b. ~iflag /\ ncli # 0
  BY <1>a DEF IInv, Flags, Counted, RunInv
<1>c. /\ popcli /\ locked' = locked \ {l} /\ Took(Mine \ {l})
      /\ UNCHANGED <<cur, ctx, over, saved, st, again, panicked>>
  BY <1>a, <1>b DEF Release
<1>d. /\ iflag' \in BOOLEAN
      /\ locked' = {} => (iflag' <=> ctx[cur] = "kernel")
      /\ locked' # {} => ~iflag'
  <2>1. locked' = {} <=> ncli = 1
    BY <1>a, <1>c DEF IInv, Flags, Counted
  <2>2. intena <=> ctx[cur] = "kernel"
    BY <1>a, <1>c DEF IInv, RunInv, Release
  <2> QED  BY <1>a, <1>c, <2>1, <2>2, Zenon DEF popcli
<1>1. Flags'
  BY <1>a, <1>c, <1>d DEF IInv, Flags, popcli, Took
<1>2. Counted'
  BY <1>a, <1>b, <1>c DEF IInv, Flags, Counted, popcli, Took
<1>3. OthersEmpty'
  BY <1>a, <1>b, <1>c DEF IInv, Flags, OthersEmpty, popcli, Took
<1>4. RunInv'
  BY <1>a, <1>c, <1>d DEF IInv, Flags, RunInv, popcli, Took
<1>5. SchedInv'
  BY <1>a, <1>b, <1>c DEF IInv, Flags, SchedInv, popcli, Took
<1>6. WaitInv'
  BY <1>a, <1>b, <1>c DEF IInv, Flags, WaitInv, popcli, Took
<1>7. OnlyReaderPanics'
  BY <1>a, <1>c DEF IInv, OnlyReaderPanics
<1> QED  BY <1>1, <1>2, <1>3, <1>4, <1>5, <1>6, <1>7 DEF IInv

\* A system call starts with interrupts on and no lock.
LEMMA SyscallKeeps ==
  ASSUME IInv, Syscall PROVE IInv'
<1> USE ThreadsAssumption DEF Threads, Locks, Contexts, Mine, InKernel
<1>1. Flags'
  BY DEF IInv, Flags, Syscall, cpu
<1>2. Counted'
  BY DEF IInv, Flags, Counted, Syscall, cpu
<1>3. OthersEmpty'
  BY DEF IInv, Flags, OthersEmpty, Syscall, cpu
<1>4. RunInv'
  BY DEF IInv, Flags, OthersEmpty, RunInv, Syscall, cpu
<1>5. SchedInv'
  BY DEF IInv, Flags, SchedInv, Syscall, cpu
<1>6. WaitInv'
  BY DEF IInv, Flags, WaitInv, Syscall, cpu
<1>7. OnlyReaderPanics'
  BY DEF IInv, OnlyReaderPanics, Flags, Syscall, cpu
<1> QED  BY <1>1, <1>2, <1>3, <1>4, <1>5, <1>6, <1>7 DEF IInv

\* It ends so too.
LEMMA SyscallDoneKeeps ==
  ASSUME IInv, SyscallDone PROVE IInv'
<1> USE ThreadsAssumption DEF Threads, Locks, Contexts, Mine, InKernel
<1>1. Flags'
  BY DEF IInv, Flags, SyscallDone
<1>2. Counted'
  BY DEF IInv, Flags, Counted, SyscallDone
<1>3. OthersEmpty'
  BY DEF IInv, Flags, OthersEmpty, SyscallDone
<1>4. RunInv'
  BY DEF IInv, Flags, RunInv, SyscallDone
<1>5. SchedInv'
  BY DEF IInv, Flags, SchedInv, SyscallDone
<1>6. WaitInv'
  BY DEF IInv, Flags, WaitInv, SyscallDone
<1>7. OnlyReaderPanics'
  BY DEF IInv, OnlyReaderPanics, Flags, SyscallDone
<1> QED  BY <1>1, <1>2, <1>3, <1>4, <1>5, <1>6, <1>7 DEF IInv

\* An interrupt finds no lock taken, and its handler runs with the flag off.
LEMMA InterruptKeeps ==
  ASSUME IInv, Interrupt PROVE IInv'
<1> USE ThreadsAssumption DEF Threads, Locks, Contexts, Mine, InKernel
<1>1. Flags'
  BY DEF IInv, Flags, Interrupt
<1>2. Counted'
  BY DEF IInv, Flags, Counted, Interrupt
<1>3. OthersEmpty'
  BY DEF IInv, Flags, OthersEmpty, RunInv, SchedInv, Interrupt
<1>4. RunInv'
  BY DEF IInv, Flags, OthersEmpty, RunInv, Interrupt
<1>5. SchedInv'
  BY DEF IInv, Flags, SchedInv, Interrupt
<1>6. WaitInv'
  BY DEF IInv, Flags, WaitInv, Interrupt
<1>7. OnlyReaderPanics'
  BY DEF IInv, OnlyReaderPanics, Flags, Interrupt
<1> QED  BY <1>1, <1>2, <1>3, <1>4, <1>5, <1>6, <1>7 DEF IInv

\* A handler returns to a context that holds no lock.
LEMMA IretKeeps ==
  ASSUME IInv, Iret PROVE IInv'
<1> USE ThreadsAssumption DEF Threads, Locks, Contexts, Mine, InKernel
<1>1. Flags'
  BY DEF IInv, Flags, Iret
<1>2. Counted'
  BY DEF IInv, Flags, Counted, Iret
<1>3. OthersEmpty'
  BY DEF IInv, Flags, OthersEmpty, Iret
<1>4. RunInv'
  <2>1. locked = {} /\ cur' = cur /\ ctx'[cur] = over[cur] /\ iflag' = TRUE /\ locked' = {}
    BY DEF IInv, Flags, RunInv, Iret
  <2>2. cur = Sched => over[cur] = "kernel"
    BY DEF IInv, SchedInv, Iret
  <2>3. over[cur] \in {"user", "kernel"}
    BY DEF IInv, Flags
  <2>4. own'[cur]["kernel"] = {}
    BY DEF IInv, Flags, OthersEmpty, Iret
  <2> QED  BY <2>1, <2>2, <2>3, <2>4 DEF RunInv
<1>5. SchedInv'
  BY DEF IInv, Flags, OthersEmpty, RunInv, SchedInv, Iret
<1>6. WaitInv'
  BY DEF IInv, Flags, WaitInv, Iret
<1>7. OnlyReaderPanics'
  BY DEF IInv, OnlyReaderPanics, Flags, Iret
<1> QED  BY <1>1, <1>2, <1>3, <1>4, <1>5, <1>6, <1>7 DEF IInv

\* yield leaves with ptable.lock alone, and with the handler's flag kept in saved.
LEMMA YieldKeeps ==
  ASSUME IInv, Yield PROVE IInv'
<1> USE ThreadsAssumption DEF Threads, Locks, Contexts, Mine, InKernel
<1>a. locked = {} /\ ncli = 0 /\ iflag = FALSE /\ ctx[cur] = "handler" /\ cur \in Procs
  BY DEF IInv, Flags, Counted, RunInv, Yield
<1>b. /\ saved' = [saved EXCEPT ![cur] = FALSE] /\ intena' = FALSE
      /\ ncli' = 1 /\ iflag' = FALSE /\ locked' = {"ptable"} /\ cur' = Sched
      /\ own' = [own EXCEPT ![cur][ctx[cur]] = {"ptable"}]
      /\ UNCHANGED <<ctx, over, panicked>>
  <2>1. locked \cup {"ptable"} = {"ptable"}
    BY <1>a
  <2>2. (IF ncli = 0 THEN iflag ELSE intena) = FALSE
    BY <1>a
  <2> QED  BY <1>a, <2>1, <2>2 DEF IInv, Flags, Yield, SchedTo
<1>1. Flags'
  BY <1>a, <1>b DEF IInv, Flags
<1>2. Counted'
  BY <1>a, <1>b DEF IInv, Flags, Counted
<1>3. OthersEmpty'
  BY <1>a, <1>b DEF IInv, Flags, OthersEmpty
<1>4. RunInv'
  BY <1>a, <1>b DEF IInv, Flags, RunInv, SchedInv
<1>5. SchedInv'
  BY <1>a, <1>b DEF IInv, Flags, SchedInv
<1>6. WaitInv'
  BY <1>a, <1>b DEF IInv, Flags, WaitInv
<1>7. OnlyReaderPanics'
  BY <1>b DEF IInv, OnlyReaderPanics
<1> QED  BY <1>1, <1>2, <1>3, <1>4, <1>5, <1>6, <1>7 DEF IInv

\* sleep gives its lock up for ptable.lock, and leaves with the system call's flag.
LEMMA SleepKeeps ==
  ASSUME IInv, Sleep PROVE IInv'
<1> USE ThreadsAssumption DEF Threads, Locks, Contexts, Mine, InKernel
<1>a. locked = {"other"} /\ ncli = 1 /\ intena = TRUE /\ ctx[cur] = "kernel" /\ cur \in Procs
  BY DEF IInv, Flags, Counted, RunInv, Sleep
<1>b. /\ saved' = [saved EXCEPT ![cur] = TRUE] /\ intena' = TRUE
      /\ ncli' = 1 /\ iflag' = FALSE /\ locked' = {"ptable"} /\ cur' = Sched
      /\ own' = [own EXCEPT ![cur][ctx[cur]] = {"ptable"}]
      /\ UNCHANGED <<ctx, over, panicked>>
  <2>1. (locked \cup {"ptable"}) \ {"other"} = {"ptable"}
    BY <1>a
  <2>2. (IF ncli = 0 THEN iflag ELSE intena) = TRUE
    BY <1>a
  <2> QED  BY <1>a, <2>1, <2>2 DEF IInv, Flags, Sleep, SchedTo
<1>1. Flags'
  BY <1>a, <1>b DEF IInv, Flags
<1>2. Counted'
  BY <1>a, <1>b DEF IInv, Flags, Counted
<1>3. OthersEmpty'
  BY <1>a, <1>b DEF IInv, Flags, OthersEmpty
<1>4. RunInv'
  BY <1>a, <1>b DEF IInv, Flags, RunInv, SchedInv
<1>5. SchedInv'
  BY <1>a, <1>b DEF IInv, Flags, SchedInv
<1>6. WaitInv'
  BY <1>a, <1>b DEF IInv, Flags, WaitInv
<1>7. OnlyReaderPanics'
  BY <1>b DEF IInv, OnlyReaderPanics
<1> QED  BY <1>1, <1>2, <1>3, <1>4, <1>5, <1>6, <1>7 DEF IInv

\* wait leaves with ptable.lock, which it has already.
LEMMA SleepInWaitKeeps ==
  ASSUME IInv, SleepInWait PROVE IInv'
<1> USE ThreadsAssumption DEF Threads, Locks, Contexts, Mine, InKernel
<1>a. locked = {"ptable"} /\ ncli = 1 /\ intena = TRUE /\ ctx[cur] = "kernel" /\ cur \in Procs
  BY DEF IInv, Flags, Counted, RunInv, SleepInWait
<1>b. /\ saved' = [saved EXCEPT ![cur] = TRUE] /\ intena' = TRUE
      /\ ncli' = 1 /\ iflag' = FALSE /\ locked' = {"ptable"} /\ cur' = Sched
      /\ own' = [own EXCEPT ![cur][ctx[cur]] = {"ptable"}]
      /\ UNCHANGED <<ctx, over, panicked>>
  <2>1. (IF ncli = 0 THEN iflag ELSE intena) = TRUE
    BY <1>a
  <2> QED  BY <1>a, <2>1 DEF IInv, Flags, SleepInWait, SchedTo
<1>1. Flags'
  BY <1>a, <1>b DEF IInv, Flags
<1>2. Counted'
  BY <1>a, <1>b DEF IInv, Flags, Counted
<1>3. OthersEmpty'
  BY <1>a, <1>b DEF IInv, Flags, OthersEmpty
<1>4. RunInv'
  BY <1>a, <1>b DEF IInv, Flags, RunInv, SchedInv
<1>5. SchedInv'
  BY <1>a, <1>b DEF IInv, Flags, SchedInv
<1>6. WaitInv'
  BY <1>a, <1>b DEF IInv, Flags, WaitInv
<1>7. OnlyReaderPanics'
  BY <1>b DEF IInv, OnlyReaderPanics
<1> QED  BY <1>1, <1>2, <1>3, <1>4, <1>5, <1>6, <1>7 DEF IInv

\* The killed reader's exit panics, and changes nothing before.
LEMMA KilledReaderKeeps ==
  ASSUME IInv, KilledReader PROVE IInv'
<1> USE ThreadsAssumption DEF Threads, Locks, Contexts, Mine, InKernel
<1>1. ncli = 1
  <2>1. locked = {"other"}
    BY DEF IInv, RunInv, KilledReader
  <2> QED  BY <2>1 DEF IInv, Counted
<1>2. /\ panicked' = "exit after fileread"
      /\ UNCHANGED <<iflag, ncli, intena, locked, cur, ctx, over, own, saved>>
  <2>1. ncli + 1 # 1
    BY <1>1
  <2>2. SchedTo(locked \cup {"ptable"}, ncli + 1, "zombie", "exit after fileread")
    BY DEF KilledReader
  <2>3. Panic("exit after fileread")
    BY <2>1, <2>2, Zenon DEF SchedTo
  <2> QED  BY <2>3, Zenon DEF Panic, cpu
<1>3. OnlyReaderPanics'
  BY <1>2 DEF OnlyReaderPanics
<1> QED  BY <1>2, <1>3 DEF IInv, Flags, Counted, OthersEmpty, RunInv, SchedInv, WaitInv

\* A machine that has panicked stays as it is.
LEMMA HaltedKeeps ==
  ASSUME IInv, Halted PROVE IInv'
BY DEF Halted, IInv, OnlyReaderPanics, Flags, Counted, OthersEmpty, RunInv, SchedInv, WaitInv,
  Mine, vars, cpu

\* The scheduler takes ptable.lock.
LEMMA ScanBeginKeeps ==
  ASSUME IInv, ScanBegin PROVE IInv'
<1> USE ThreadsAssumption DEF Threads, Locks, Contexts, Mine, InKernel
<1>1. Flags'
  BY DEF IInv, Flags, ScanBegin
<1>2. Counted'
  BY DEF IInv, Flags, Counted, SchedInv, ScanBegin
<1>3. OthersEmpty'
  BY DEF IInv, Flags, OthersEmpty, ScanBegin
<1>4. RunInv'
  BY DEF IInv, Flags, RunInv, ScanBegin
<1>5. SchedInv'
  BY DEF IInv, Flags, SchedInv, ScanBegin
<1>6. WaitInv'
  BY DEF IInv, Flags, WaitInv, ScanBegin
<1>7. OnlyReaderPanics'
  BY DEF IInv, OnlyReaderPanics, Flags, ScanBegin
<1> QED  BY <1>1, <1>2, <1>3, <1>4, <1>5, <1>6, <1>7 DEF IInv

\* The scheduler releases it.
LEMMA ScanEndKeeps ==
  ASSUME IInv, ScanEnd PROVE IInv'
<1> USE ThreadsAssumption DEF Threads, Locks, Contexts, Mine, InKernel
<1>1. Flags'
  BY DEF IInv, Flags, ScanEnd
<1>2. Counted'
  BY DEF IInv, Flags, Counted, ScanEnd
<1>3. OthersEmpty'
  BY DEF IInv, Flags, OthersEmpty, ScanEnd
<1>4. RunInv'
  BY DEF IInv, Flags, RunInv, SchedInv, ScanEnd
<1>5. SchedInv'
  BY DEF IInv, Flags, SchedInv, ScanEnd
<1>6. WaitInv'
  BY DEF IInv, Flags, WaitInv, ScanEnd
<1>7. OnlyReaderPanics'
  BY DEF IInv, OnlyReaderPanics, Flags, ScanEnd
<1> QED  BY <1>1, <1>2, <1>3, <1>4, <1>5, <1>6, <1>7 DEF IInv

\* wakeup changes only the states of processes.
LEMMA WakeupKeeps ==
  ASSUME IInv, NEW p \in Procs, Wakeup(p) PROVE IInv'
<1> USE ThreadsAssumption DEF Threads, Locks, Contexts, Mine, InKernel
<1>1. Flags'
  BY DEF IInv, Flags, Wakeup, cpu
<1>2. Counted'
  BY DEF IInv, Flags, Counted, Wakeup, cpu
<1>3. OthersEmpty'
  BY DEF IInv, Flags, OthersEmpty, Wakeup, cpu
<1>4. RunInv'
  BY DEF IInv, Flags, RunInv, Wakeup, cpu
<1>5. SchedInv'
  BY DEF IInv, Flags, SchedInv, Wakeup, cpu
<1>6. WaitInv'
  BY DEF IInv, Flags, WaitInv, Wakeup, cpu
<1>7. OnlyReaderPanics'
  BY DEF IInv, OnlyReaderPanics, Flags, Wakeup, cpu
<1> QED  BY <1>1, <1>2, <1>3, <1>4, <1>5, <1>6, <1>7 DEF IInv

\* The scheduler passes ptable.lock to a process, which restores its own flag.
LEMMA DispatchKeeps ==
  ASSUME IInv, NEW p \in Procs, Dispatch(p) PROVE IInv'
<1> USE ThreadsAssumption DEF Threads, Locks, Contexts, Mine, InKernel
<1>a. cur = Sched /\ p # cur /\ ctx[p] # "new" /\ "ptable" \in locked /\ ctx[cur] = "kernel"
  BY DEF Dispatch
<1>b. ctx[p] \in Contexts /\ locked = {"ptable"} /\ ~iflag
  <2>1. ctx[p] \in Contexts
    BY <1>a DEF IInv, Flags, WaitInv
  <2>2. locked \subseteq {"ptable"}
    BY <1>a DEF IInv, SchedInv
  <2>3. ~iflag
    BY <1>a DEF IInv, RunInv
  <2> QED  BY <1>a, <2>1, <2>2, <2>3
<1>c. own[p][ctx[p]] = {"ptable"} /\ (saved[p] <=> ctx[p] = "kernel")
  BY <1>a, <1>b DEF IInv, WaitInv
<1>d. /\ cur' = p /\ intena' = saved[p] /\ ctx[Sched] = "kernel"
      /\ UNCHANGED <<iflag, ncli, locked, ctx, over, own, saved, panicked>>
  BY <1>a DEF Dispatch, Restored
<1>1. Flags'
  BY <1>a, <1>b, <1>c, <1>d DEF IInv, Flags
<1>2. Counted'
  BY <1>a, <1>b, <1>c, <1>d DEF IInv, Flags, Counted
<1>3. OthersEmpty'
  BY <1>a, <1>b, <1>c, <1>d DEF IInv, Flags, OthersEmpty
<1>4. RunInv'
  BY <1>a, <1>b, <1>c, <1>d DEF IInv, Flags, RunInv
<1>5. SchedInv'
  BY <1>a, <1>b, <1>c, <1>d DEF IInv, Flags, SchedInv
<1>6. WaitInv'
  BY <1>a, <1>b, <1>c, <1>d DEF IInv, Flags, WaitInv
<1>7. OnlyReaderPanics'
  BY <1>d DEF IInv, OnlyReaderPanics
<1> QED  BY <1>1, <1>2, <1>3, <1>4, <1>5, <1>6, <1>7 DEF IInv

\* A new process releases ptable.lock in forkret and enters user mode.
LEMMA DispatchNewKeeps ==
  ASSUME IInv, NEW p \in Procs, DispatchNew(p) PROVE IInv'
<1> USE ThreadsAssumption DEF Threads, Locks, Contexts, Mine, InKernel
<1>1. Flags'
  BY DEF IInv, Flags, DispatchNew
<1>2. Counted'
  BY DEF IInv, Flags, Counted, DispatchNew
<1>3. OthersEmpty'
  BY DEF IInv, Flags, OthersEmpty, DispatchNew
<1>4. RunInv'
  BY DEF IInv, Flags, RunInv, SchedInv, DispatchNew
<1>5. SchedInv'
  BY DEF IInv, Flags, SchedInv, DispatchNew
<1>6. WaitInv'
  BY DEF IInv, Flags, WaitInv, DispatchNew
<1>7. OnlyReaderPanics'
  BY DEF IInv, OnlyReaderPanics, Flags, DispatchNew
<1> QED  BY <1>1, <1>2, <1>3, <1>4, <1>5, <1>6, <1>7 DEF IInv

\* Every step of the kernel, and a step that changes nothing, keeps the invariant.
LEMMA NextKeeps == IInv /\ [Next]_vars => IInv'
<1> SUFFICES ASSUME IInv, [Next]_vars PROVE IInv'
  OBVIOUS
<1>1. CASE \E l \in Locks : Acquire(l) \/ Release(l)
  BY <1>1, AcquireKeeps, ReleaseKeeps
<1>2. CASE Syscall \/ SyscallDone \/ Interrupt \/ Iret
  BY <1>2, SyscallKeeps, SyscallDoneKeeps, InterruptKeeps, IretKeeps
<1>3. CASE Yield \/ Sleep \/ ScanBegin \/ ScanEnd
  BY <1>3, YieldKeeps, SleepKeeps, ScanBeginKeeps, ScanEndKeeps
<1>4. CASE SleepInWait \/ KilledReader \/ Halted
  BY <1>4, SleepInWaitKeeps, KilledReaderKeeps, HaltedKeeps
<1>5. CASE \E p \in Procs : Wakeup(p) \/ Dispatch(p) \/ DispatchNew(p)
  BY <1>5, WakeupKeeps, DispatchKeeps, DispatchNewKeeps
<1>6. CASE UNCHANGED vars
  BY <1>6 DEF IInv, OnlyReaderPanics, Flags, Counted, OthersEmpty, RunInv, SchedInv, WaitInv, Mine, vars, cpu
<1> QED  BY <1>1, <1>2, <1>3, <1>4, <1>5, <1>6 DEF Next

\* IInv is an invariant of acquire, release, sched and what calls them.
LEMMA Invariant == Spec => []IInv
BY InitIInv, NextKeeps, PTL DEF Spec

\* Whatever the processes do, interrupts are off while a lock is held: no handler
\* spins for a lock that the code under it holds (acquire, release, sched).
THEOREM InterruptsOffWhileHeld == Spec => []HeldMeansOff
<1>1. IInv => HeldMeansOff
  BY DEF IInv, RunInv, HeldMeansOff
<1> QED  BY <1>1, Invariant, PTL

\* For any number of processes, a kernel thread that holds no lock runs with the
\* interrupt flag its context began with, however often sched switched away.
THEOREM FlagIsRestored == Spec => []FlagRestored
<1>1. IInv => FlagRestored
  BY ThreadsAssumption DEF IInv, Flags, OthersEmpty, RunInv, SchedInv, FlagRestored, InKernel,
     Mine, Contexts, Threads
<1> QED  BY <1>1, Invariant, PTL

\* For any number of processes, the only panic of acquire, release, popcli or sched
\* that can be reached is the one in the exit of a killed reader, which returned
\* from fileread with the pipe's lock: all other code keeps the rules of spinlock.c.
THEOREM LockPanics == Spec => []OnlyReaderPanics
<1>1. IInv => OnlyReaderPanics
  BY DEF IInv
<1> QED  BY <1>1, Invariant, PTL

================================================================================
