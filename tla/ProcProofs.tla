----------------------------- MODULE ProcProofs -----------------------------
(***************************************************************************)
(* Invariance proofs for Proc, for every size of the process table, every  *)
(* bound on pids and every program.                                        *)
(***************************************************************************)
EXTENDS Proc, TLAPS

Active(p) == state[p] \in {"SLEEPING", "RUNNABLE", "RUNNING"}

\* mycpu()->proc is the one RUNNING process, and init is never freed.
CpuInv ==
  /\ \A p \in Procs : state[p] = "RUNNING" <=> cpu = p
  /\ Live(Initproc)

\* Where a process can be in each state, and what it sleeps on.
LocInv ==
  \A p \in Procs :
    /\ ~Active(p) => pc[p] = "user"
    /\ state[p] = "SLEEPING" => pc[p] \in {"wait_woken", "sleep_woken"}
    /\ pc[p] = "wait_woken" => chan[p] = p
    /\ pc[p] = "sleep_woken" => chan[p] = Ticks

\* The slots being forked into, and who forks into them.
ForkInv ==
  /\ \A p \in Procs : InFork(p) => child[p] \in Procs /\ state[child[p]] = "EMBRYO"
  /\ \A s \in Procs : state[s] = "EMBRYO" => \E p \in Procs : InFork(p) /\ child[p] = s
  /\ \A p, q \in Procs : InFork(p) /\ InFork(q) /\ child[p] = child[q] => p = q

\* Pids are handed out in increasing order.
PidInv ==
  /\ \A p \in Procs : pid[p] < nextpid
  /\ \A p \in Procs : state[p] # "UNUSED" => pid[p] > 0
  /\ nextpid <= MaxPid + 1
  /\ PidsUnique

\* Parent pointers lead to init or from a process to an active process.
ParentInv ==
  /\ \A c \in Procs : parent[c] \notin {None, Initproc} => Live(c) /\ Active(parent[c])
  /\ parent[Initproc] \in {None, Initproc}

IInv == TypeOK /\ CpuInv /\ LocInv /\ ForkInv /\ PidInv /\ ParentInv /\ NoLostWakeup

\* No program has, at the address exit() reads for a null parent, the pid of a
\* process of this run.
NullSafe == NullReads \cap (1..MaxPid) = {}

\* Who may rely on having a child: a process whose scan has found one, until
\* wait returns.  Nobody but the process itself takes a child from it.
WaitInv ==
  /\ parent[Initproc] = None
  /\ \A c \in Procs : (~Live(c) => parent[c] = None) /\ parent[c] # c
  /\ \A p \in Procs :
       /\ has[p] => pc[p] = "wait_scan"
       /\ has[p] \/ InWait(p) => \E c \in Procs : parent[c] = p /\ state[c] # "UNUSED"

\* The slots, the null pointer and the channel &ticks are told apart.
LEMMA ProcsFacts ==
  /\ Procs \subseteq Nat
  /\ None \notin Procs /\ Ticks \notin Procs /\ None # Ticks
  /\ Initproc \in Procs
BY NprocAssumption DEF Procs, None, Initproc, Ticks

\* What a wakeup or a kill may do to the process states.
OnlyWakes(st, new) ==
  /\ new \in [Procs -> States]
  /\ \A q \in Procs : new[q] = st[q] \/ (st[q] = "SLEEPING" /\ new[q] = "RUNNABLE")

\* wakeup1 makes every sleeper on its channel RUNNABLE and nobody else.
LEMMA WakeupFacts ==
  ASSUME NEW st \in [Procs -> States], NEW ch
  PROVE  /\ OnlyWakes(st, Wakeup1(st, ch))
         /\ \A q \in Procs : ~(Wakeup1(st, ch)[q] = "SLEEPING" /\ chan[q] = ch)
BY DEF OnlyWakes, Wakeup1, States

\* userinit() leaves a table that satisfies the invariant: init alone, RUNNABLE.
LEMMA InitIInv == Init => IInv
<1> SUFFICES ASSUME Init PROVE IInv
  OBVIOUS
<1> USE NprocAssumption, MaxPidAssumption DEF Init, Procs, None, Initproc, Ticks
<1>1. TypeOK
  <2>1. killed \in [Procs -> BOOLEAN] /\ has \in [Procs -> BOOLEAN] /\ panicked \in BOOLEAN
    BY Zenon
  <2> QED
    BY <2>1 DEF TypeOK, States, Locations
<1>2. CpuInv /\ LocInv
  BY DEF CpuInv, LocInv, Live, Active
<1>3. ForkInv
  BY DEF ForkInv, InFork
<1>4. PidInv
  BY DEF PidInv, PidsUnique
<1>5. ParentInv /\ NoLostWakeup
  BY DEF ParentInv, NoLostWakeup, ZombieChildren
<1> QED
  BY <1>1, <1>2, <1>3, <1>4, <1>5 DEF IInv

\* Entering a system call moves only the program counter of the caller.
LEMMA SyscallIInv ==
  ASSUME IInv, NEW p \in Procs, NEW call \in Calls, Syscall(p, call)
  PROVE  IInv'
<1> USE ProcsFacts DEF Syscall, Goto, Running, table, Calls
<1>1. TypeOK'
  BY DEF IInv, TypeOK, States, Locations
<1>2. CpuInv'
  BY DEF IInv, TypeOK, CpuInv, Live
<1>3. LocInv'
  BY DEF IInv, TypeOK, LocInv, CpuInv, Active
<1>4. ForkInv'
  BY DEF IInv, TypeOK, ForkInv, InFork
<1>5. PidInv'
  BY DEF IInv, TypeOK, PidInv, PidsUnique
<1>6. ParentInv'
  BY DEF IInv, TypeOK, ParentInv, Live, Active
<1>7. NoLostWakeup'
  BY DEF IInv, TypeOK, NoLostWakeup, ZombieChildren
<1> QED
  BY <1>1, <1>2, <1>3, <1>4, <1>5, <1>6, <1>7 DEF IInv

\* allocproc takes the first UNUSED slot and the next pid: the slot gets one owner
\* and its pid is larger than every other.
LEMMA ForkAllocIInv ==
  ASSUME IInv, NEW p \in Procs, ForkAlloc(p)
  PROVE  IInv'
<1> USE ProcsFacts DEF IInv, TypeOK
<1>0. /\ cpu = p /\ pc[p] = "fork_alloc" /\ state[p] = "RUNNING"
      /\ UNCHANGED <<cpu, scan, panicked, parent, chan, idx, has>>
  BY DEF ForkAlloc, Running, CpuInv, table
<1>1. CASE pc' = [pc EXCEPT ![p] = "user"] /\ UNCHANGED <<table, child>>
  <2> USE <1>0, <1>1 DEF table
  <2>1. TypeOK'
    BY DEF States, Locations
  <2>2. CpuInv' /\ LocInv'
    BY DEF CpuInv, LocInv, Live, Active
  <2>3. ForkInv'
    BY DEF ForkInv, InFork
  <2>4. PidInv' /\ ParentInv'
    BY DEF PidInv, PidsUnique, ParentInv, Live, Active
  <2>5. NoLostWakeup'
    BY DEF NoLostWakeup, ZombieChildren
  <2> QED
    BY <2>1, <2>2, <2>3, <2>4, <2>5
<1>2. CASE ~(FreeSlots = {} \/ nextpid > MaxPid)
  <2>1. PICK s \in Procs :
          /\ state[s] = "UNUSED"
          /\ state' = [state EXCEPT ![s] = "EMBRYO"]
          /\ pid' = [pid EXCEPT ![s] = nextpid]
          /\ killed' = [killed EXCEPT ![s] = FALSE]
          /\ nextpid' = nextpid + 1
          /\ child' = [child EXCEPT ![p] = s]
          /\ pc' = [pc EXCEPT ![p] = "fork_setup"]
    BY <1>2 DEF ForkAlloc, First, FreeSlots, Goto
  <2>2. s # p /\ s # Initproc /\ pc[s] = "user"
    BY <1>0, <2>1 DEF CpuInv, LocInv, Live, Active
  <2>3. killed' \in [Procs -> BOOLEAN]
    BY <2>1, Zenon
  <2> USE <1>0, <2>1, <2>2
  <2>4. TypeOK'
    BY <2>3 DEF States, Locations
  <2>5. CpuInv' /\ LocInv'
    BY DEF CpuInv, LocInv, Live, Active
  <2>6. ForkInv'
    BY DEF ForkInv, InFork
  <2>7. PidInv'
    BY <1>2, MaxPidAssumption DEF PidInv, PidsUnique
  <2>8. ParentInv'
    BY DEF ParentInv, Live, Active
  <2>9. NoLostWakeup'
    BY DEF NoLostWakeup, ZombieChildren
  <2> QED
    BY <2>4, <2>5, <2>6, <2>7, <2>8, <2>9
<1> QED
  BY <1>1, <1>2 DEF ForkAlloc, Goto

\* The middle of fork: the embryo stays the forking process's own until it is
\* published or given back.
LEMMA ForkSetupIInv ==
  ASSUME IInv, NEW p \in Procs, ForkSetup(p)
  PROVE  IInv'
<1> USE ProcsFacts DEF IInv, TypeOK
<1>0. /\ cpu = p /\ pc[p] = "fork_setup" /\ state[p] = "RUNNING"
      /\ child[p] \in Procs /\ state[child[p]] = "EMBRYO"
      /\ UNCHANGED <<pid, parent, killed, chan, nextpid, cpu, scan, idx, has>>
  BY DEF ForkSetup, Running, CpuInv, ForkInv, InFork
<1> USE <1>0
<1>1. CASE pc' = [pc EXCEPT ![p] = "fork_publish"] /\ UNCHANGED <<state, child, panicked>>
  <2> USE <1>1
  <2>1. TypeOK' /\ CpuInv' /\ LocInv'
    BY DEF States, Locations, CpuInv, LocInv, Live, Active
  <2>2. ForkInv'
    BY DEF ForkInv, InFork
  <2>3. PidInv' /\ ParentInv' /\ NoLostWakeup'
    BY DEF PidInv, PidsUnique, ParentInv, Live, Active, NoLostWakeup, ZombieChildren
  <2> QED
    BY <2>1, <2>2, <2>3
<1>2. CASE /\ state' = [state EXCEPT ![child[p]] = "UNUSED"]
           /\ child' = [child EXCEPT ![p] = None]
           /\ pc' = [pc EXCEPT ![p] = "user"]
           /\ UNCHANGED panicked
  <2> USE <1>2
  <2>1. child[p] # p /\ child[p] # Initproc /\ pc[child[p]] = "user"
    BY Zenon DEF CpuInv, LocInv, Live, Active
  <2>2. TypeOK'
    BY DEF States, Locations
  <2>3. CpuInv' /\ LocInv'
    BY <2>1 DEF CpuInv, LocInv, Live, Active
  <2>4. ForkInv'
    BY <2>1 DEF ForkInv, InFork
  <2>5. PidInv' /\ ParentInv'
    BY <2>1 DEF PidInv, PidsUnique, ParentInv, Live, Active
  <2>6. NoLostWakeup'
    BY DEF NoLostWakeup, ZombieChildren
  <2> QED
    BY <2>2, <2>3, <2>4, <2>5, <2>6
<1>3. CASE panicked' = TRUE /\ UNCHANGED <<state, child, pc>>
  <2> USE <1>3
  <2>1. TypeOK'
    BY DEF States, Locations
  <2> QED
    BY <2>1 DEF CpuInv, LocInv, ForkInv, InFork, PidInv, PidsUnique, ParentInv,
                Live, Active, NoLostWakeup, ZombieChildren
<1> QED
  BY <1>1, <1>2, <1>3, Zenon DEF ForkSetup, Goto

\* The end of fork: the new process gets a parent that is running.
LEMMA ForkPublishIInv ==
  ASSUME IInv, NEW p \in Procs, ForkPublish(p)
  PROVE  IInv'
<1> USE ProcsFacts DEF IInv, TypeOK
<1>0. /\ cpu = p /\ pc[p] = "fork_publish" /\ state[p] = "RUNNING"
      /\ child[p] \in Procs /\ state[child[p]] = "EMBRYO"
      /\ UNCHANGED <<pid, killed, chan, nextpid, cpu, scan, panicked, idx, has>>
  BY DEF ForkPublish, Running, CpuInv, ForkInv, InFork
<1>1. PICK s \in Procs :
        /\ child[p] = s /\ state[s] = "EMBRYO"
        /\ state' = [state EXCEPT ![s] = "RUNNABLE"]
        /\ parent' = [parent EXCEPT ![s] = p]
        /\ child' = [child EXCEPT ![p] = None]
        /\ pc' = [pc EXCEPT ![p] = "user", ![s] = "user"]
  BY <1>0, Zenon DEF ForkPublish
<1>2. s # p /\ s # Initproc /\ pc[s] = "user"
  BY <1>0, <1>1 DEF CpuInv, LocInv, Live, Active
<1> USE <1>0, <1>1, <1>2
<1>3. TypeOK'
  BY DEF States, Locations
<1>4. CpuInv' /\ LocInv'
  BY DEF CpuInv, LocInv, Live, Active
<1>5. ForkInv'
  BY DEF ForkInv, InFork
<1>6. PidInv'
  BY DEF PidInv, PidsUnique
<1>7. ParentInv'
  BY DEF ParentInv, Live, Active
<1>8. NoLostWakeup'
  BY DEF NoLostWakeup, ZombieChildren
<1> QED
  BY <1>3, <1>4, <1>5, <1>6, <1>7, <1>8

\* The index of wait's first loop stays within ptable.proc.
LEMMA ScanStaysInTable ==
  ASSUME NEW p, idx[p] \in Procs
  PROVE  ScanNext(p) \in Procs
BY NprocAssumption DEF ScanNext, Procs

\* A turn of wait's first loop changes nothing that others look at.
LEMMA WaitScanIInv ==
  ASSUME IInv, NEW p \in Procs, WaitScan(p)
  PROVE  IInv'
<1> USE ProcsFacts DEF IInv, TypeOK
<1>0. /\ cpu = p /\ pc[p] = "wait_scan" /\ state[p] = "RUNNING"
      /\ UNCHANGED <<table, cpu, scan, panicked, child>>
  BY DEF WaitScan, Running, CpuInv
<1>1. PICK loc \in {"wait_reap", "user", "wait_scan"} : pc' = [pc EXCEPT ![p] = loc]
  BY DEF WaitScan, Goto
<1>2. idx' \in [Procs -> Procs]
  <2>1. ScanNext(p) \in Procs
    BY ScanStaysInTable
  <2> QED
    BY <2>1 DEF WaitScan
<1>3. has' \in [Procs -> BOOLEAN]
  <2> DEFINE next == IF idx[p] = NPROC THEN FALSE ELSE ScanFound(p)
  <2>1. has' = [has EXCEPT ![p] = next]
    BY Zenon DEF WaitScan
  <2>2. next \in BOOLEAN
    BY Zenon DEF ScanFound
  <2> QED
    BY <2>1, <2>2, Zenon
<1> USE <1>0, <1>1 DEF table
<1>4. TypeOK'
  BY <1>2, <1>3, Zenon DEF States, Locations
<1>5. CpuInv' /\ LocInv'
  BY DEF CpuInv, LocInv, Live, Active
<1>6. ForkInv'
  BY DEF ForkInv, InFork
<1>7. PidInv' /\ ParentInv'
  BY DEF PidInv, PidsUnique, ParentInv, Live, Active
<1>8. NoLostWakeup'
  BY DEF NoLostWakeup, ZombieChildren
<1> QED
  BY <1>4, <1>5, <1>6, <1>7, <1>8

\* wait reaps a zombie, to which no parent pointer leads, or goes to sleep when
\* it sees no zombie child, under the same lock.
LEMMA WaitReapIInv ==
  ASSUME IInv, NEW p \in Procs, WaitReap(p)
  PROVE  IInv'
<1> USE ProcsFacts DEF IInv, TypeOK
<1>0. /\ cpu = p /\ pc[p] \in {"wait_reap", "wait_woken"} /\ state[p] = "RUNNING"
      /\ UNCHANGED <<nextpid, scan, panicked, child, idx, has>>
  BY DEF WaitReap, Running, CpuInv
<1>1. CASE ZombieChildren(p) # {}
  <2>1. PICK c \in Procs :
          /\ parent[c] = p /\ state[c] = "ZOMBIE"
          /\ state' = [state EXCEPT ![c] = "UNUSED"]
          /\ parent' = [parent EXCEPT ![c] = None]
          /\ pid' = [pid EXCEPT ![c] = 0]
          /\ killed' = [killed EXCEPT ![c] = FALSE]
          /\ chan' = [chan EXCEPT ![p] = None]
          /\ pc' = [pc EXCEPT ![p] = "user"]
          /\ UNCHANGED cpu
    BY <1>1 DEF WaitReap, First, ZombieChildren, Goto
  <2>2. c # p /\ pc[c] = "user"
    BY <1>0, <2>1 DEF CpuInv, LocInv, Live, Active
  <2>3. c # Initproc
    BY <1>0, <2>1 DEF ParentInv
  <2>4. killed' \in [Procs -> BOOLEAN]
    BY <2>1, Zenon
  <2> USE <1>0, <2>1, <2>2, <2>3
  <2>5. TypeOK'
    BY <2>4 DEF States, Locations
  <2>6. CpuInv' /\ LocInv'
    BY DEF CpuInv, LocInv, Live, Active
  <2>7. ForkInv'
    BY DEF ForkInv, InFork
  <2>8. PidInv'
    BY MaxPidAssumption DEF PidInv, PidsUnique
  <2>9. ParentInv'
    BY DEF ParentInv, Live, Active
  <2>10. NoLostWakeup'
    BY DEF NoLostWakeup, ZombieChildren
  <2> QED
    BY <2>5, <2>6, <2>7, <2>8, <2>9, <2>10
<1>2. CASE ZombieChildren(p) = {}
  <2>1. /\ state' = [state EXCEPT ![p] = "SLEEPING"]
        /\ chan' = [chan EXCEPT ![p] = p]
        /\ cpu' = None
        /\ pc' = [pc EXCEPT ![p] = "wait_woken"]
        /\ UNCHANGED <<parent, pid, killed>>
    BY <1>2 DEF WaitReap, SleepOn, Goto
  <2> USE <1>0, <2>1
  <2>2. TypeOK'
    BY DEF States, Locations
  <2>3. CpuInv' /\ LocInv'
    BY DEF CpuInv, LocInv, Live, Active
  <2>4. ForkInv'
    BY DEF ForkInv, InFork
  <2>5. PidInv' /\ ParentInv'
    BY DEF PidInv, PidsUnique, ParentInv, Live, Active
  <2>6. NoLostWakeup'
    BY <1>2 DEF NoLostWakeup, ZombieChildren
  <2> QED
    BY <2>2, <2>3, <2>4, <2>5, <2>6
<1> QED
  BY <1>1, <1>2

\* sys_sleep goes to sleep on &ticks, or returns.
LEMMA SleepLoopIInv ==
  ASSUME IInv, NEW p \in Procs, SleepLoop(p)
  PROVE  IInv'
<1> USE ProcsFacts DEF IInv, TypeOK
<1>0. /\ cpu = p /\ pc[p] = "sleep_loop" /\ state[p] = "RUNNING"
      /\ UNCHANGED <<pid, parent, killed, nextpid, scan, panicked, child, idx, has>>
  BY DEF SleepLoop, Running, CpuInv
<1> USE <1>0
<1>1. CASE pc' = [pc EXCEPT ![p] = "user"] /\ UNCHANGED <<state, chan, cpu>>
  <2> USE <1>1
  <2>1. TypeOK' /\ CpuInv' /\ LocInv'
    BY DEF States, Locations, CpuInv, LocInv, Live, Active
  <2>2. ForkInv'
    BY DEF ForkInv, InFork
  <2>3. PidInv' /\ ParentInv' /\ NoLostWakeup'
    BY DEF PidInv, PidsUnique, ParentInv, Live, Active, NoLostWakeup, ZombieChildren
  <2> QED
    BY <2>1, <2>2, <2>3
<1>2. CASE /\ state' = [state EXCEPT ![p] = "SLEEPING"]
           /\ chan' = [chan EXCEPT ![p] = Ticks]
           /\ cpu' = None
           /\ pc' = [pc EXCEPT ![p] = "sleep_woken"]
  <2> USE <1>2
  <2>1. TypeOK' /\ CpuInv' /\ LocInv'
    BY DEF States, Locations, CpuInv, LocInv, Live, Active
  <2>2. ForkInv'
    BY DEF ForkInv, InFork
  <2>3. PidInv' /\ ParentInv'
    BY DEF PidInv, PidsUnique, ParentInv, Live, Active
  <2>4. NoLostWakeup'
    BY DEF NoLostWakeup, ZombieChildren
  <2> QED
    BY <2>1, <2>2, <2>3, <2>4
<1> QED
  BY <1>1, <1>2 DEF SleepLoop, SleepOn, Goto

\* sleep() returns to the loop of sys_sleep and clears the channel.
LEMMA SleepWokenIInv ==
  ASSUME IInv, NEW p \in Procs, SleepWoken(p)
  PROVE  IInv'
<1> USE ProcsFacts DEF SleepWoken, Goto, Running
<1>1. TypeOK'
  BY DEF IInv, TypeOK, States, Locations
<1>2. CpuInv'
  BY DEF IInv, TypeOK, CpuInv, Live
<1>3. LocInv'
  BY DEF IInv, TypeOK, LocInv, CpuInv, Active
<1>4. ForkInv'
  BY DEF IInv, TypeOK, ForkInv, InFork
<1>5. PidInv'
  BY DEF IInv, TypeOK, PidInv, PidsUnique
<1>6. ParentInv'
  BY DEF IInv, TypeOK, ParentInv, Live, Active
<1>7. NoLostWakeup'
  BY DEF IInv, TypeOK, NoLostWakeup, ZombieChildren
<1> QED
  BY <1>1, <1>2, <1>3, <1>4, <1>5, <1>6, <1>7 DEF IInv

\* A step that only moves processes between SLEEPING, RUNNABLE and RUNNING keeps
\* every conjunct of IInv that is not about the CPU or about program counters.
LEMMA QuietIInv ==
  ASSUME IInv, state' \in [Procs -> States],
         \A q \in Procs :
           \/ state'[q] = state[q]
           \/ state[q] = "SLEEPING" /\ state'[q] = "RUNNABLE"
           \/ state[q] \in {"RUNNABLE", "RUNNING"} /\ state'[q] \in {"RUNNABLE", "RUNNING"},
         \A q \in Procs : /\ InFork(q)' <=> InFork(q)
                          /\ pc'[q] = "wait_woken" => pc[q] = "wait_woken",
         UNCHANGED <<pid, parent, chan, nextpid, child>>
  PROVE  ForkInv' /\ PidInv' /\ ParentInv' /\ NoLostWakeup'
<1> USE ProcsFacts DEF IInv
<1>1. \A q \in Procs : /\ state'[q] = "EMBRYO" <=> state[q] = "EMBRYO"
                       /\ state'[q] = "UNUSED" <=> state[q] = "UNUSED"
                       /\ state'[q] = "ZOMBIE" <=> state[q] = "ZOMBIE"
                       /\ state'[q] = "SLEEPING" => state[q] = "SLEEPING"
  OBVIOUS
<1>2. \A q \in Procs : (Live(q)' <=> Live(q)) /\ (Active(q)' <=> Active(q))
  BY <1>1 DEF TypeOK, States, Live, Active
<1>3. ForkInv'
  <2>1. child' = child
    OBVIOUS
  <2>2. \A p \in Procs : InFork(p) => child[p] \in Procs /\ state'[child[p]] = "EMBRYO"
    BY <1>1, Zenon DEF ForkInv
  <2>3. \A s \in Procs : state'[s] = "EMBRYO" => \E p \in Procs : InFork(p)' /\ child[p] = s
    BY <1>1 DEF ForkInv
  <2>4. \A p, q \in Procs : InFork(p)' /\ InFork(q)' /\ child[p] = child[q] => p = q
    BY DEF ForkInv
  <2> QED
    BY <2>1, <2>2, <2>3, <2>4 DEF ForkInv
<1>4. PidInv'
  BY <1>1 DEF PidInv, PidsUnique
<1>5. ParentInv'
  BY <1>2, Zenon DEF ParentInv, TypeOK
<1>6. NoLostWakeup'
  BY <1>1, Zenon DEF NoLostWakeup, ZombieChildren
<1> QED
  BY <1>3, <1>4, <1>5, <1>6

\* kill sets a flag and wakes its target, whatever the target sleeps on.
LEMMA KillIInv ==
  ASSUME IInv, NEW p \in Procs, NEW k, Kill(p, k)
  PROVE  IInv'
<1> USE ProcsFacts DEF IInv, TypeOK
<1>0. /\ cpu = p /\ pc[p] = "kill" /\ state[p] = "RUNNING"
      /\ pc' = [pc EXCEPT ![p] = "user"]
      /\ UNCHANGED <<pid, parent, chan, nextpid, cpu, scan, panicked, child, idx, has>>
  BY DEF Kill, Running, Goto, CpuInv
<1>1. killed' \in [Procs -> BOOLEAN] /\ OnlyWakes(state, state')
  <2>1. CASE UNCHANGED <<killed, state>>
    BY <2>1 DEF OnlyWakes
  <2>2. CASE \E q \in Procs :
               /\ killed' = [killed EXCEPT ![q] = TRUE]
               /\ state' = [state EXCEPT ![q] = IF @ = "SLEEPING" THEN "RUNNABLE" ELSE @]
    <3>1. PICK q \in Procs :
               /\ killed' = [killed EXCEPT ![q] = TRUE]
               /\ state' = [state EXCEPT ![q] = IF @ = "SLEEPING" THEN "RUNNABLE" ELSE @]
      BY <2>2, Zenon
    <3>2. killed' \in [Procs -> BOOLEAN]
      BY <3>1, Zenon
    <3> QED
      BY <3>1, <3>2 DEF OnlyWakes, States
  <2> QED
    BY <2>1, <2>2 DEF Kill, First
<1> USE <1>0, <1>1 DEF OnlyWakes
<1>2. TypeOK'
  BY Zenon DEF Locations
<1>3. CpuInv' /\ LocInv'
  BY DEF CpuInv, LocInv, Live, Active
<1>4. ForkInv' /\ PidInv' /\ ParentInv' /\ NoLostWakeup'
  <2>1. \A q \in Procs : /\ InFork(q)' <=> InFork(q)
                         /\ pc'[q] = "wait_woken" => pc[q] = "wait_woken"
    BY DEF InFork
  <2> QED
    BY <2>1, QuietIInv, Zenon
<1> QED
  BY <1>2, <1>3, <1>4

\* A tick on an idle CPU only wakes sleepers.
LEMMA TimerIdleIInv ==
  ASSUME IInv, TimerIdle
  PROVE  IInv'
<1> USE ProcsFacts DEF IInv, TypeOK
<1>0. UNCHANGED <<pid, parent, killed, chan, nextpid, cpu, scan, panicked, pc, child, idx, has>>
  BY DEF TimerIdle, locals
<1>1. OnlyWakes(state, state')
  BY WakeupFacts DEF TimerIdle
<1> USE <1>0, <1>1 DEF OnlyWakes
<1>2. TypeOK'
  OBVIOUS
<1>3. CpuInv' /\ LocInv'
  BY DEF CpuInv, LocInv, Live, Active
<1>4. ForkInv' /\ PidInv' /\ ParentInv' /\ NoLostWakeup'
  BY QuietIInv DEF InFork
<1> QED
  BY <1>2, <1>3, <1>4

\* The scheduler gives the free CPU to a RUNNABLE process.
LEMMA DispatchIInv ==
  ASSUME IInv, Dispatch
  PROVE  IInv'
<1> USE ProcsFacts DEF IInv, TypeOK
<1>0. /\ cpu = None
      /\ UNCHANGED <<pid, parent, killed, chan, nextpid, panicked, pc, child, idx, has>>
  BY DEF Dispatch, locals
<1>1. PICK p \in Procs : /\ state[p] = "RUNNABLE"
                         /\ cpu' = p
                         /\ state' = [state EXCEPT ![p] = "RUNNING"]
                         /\ scan' = p + 1
  BY Zenon DEF Dispatch, First, Candidates
<1>2. scan' \in 1..(NPROC + 1)
  BY <1>1, NprocAssumption DEF Procs
<1> USE <1>0, <1>1
<1>3. TypeOK'
  BY <1>2 DEF States
<1>4. CpuInv' /\ LocInv'
  BY DEF CpuInv, LocInv, Live, Active
<1>5. ForkInv' /\ PidInv' /\ ParentInv' /\ NoLostWakeup'
  BY <1>3, QuietIInv DEF InFork
<1> QED
  BY <1>3, <1>4, <1>5

\* A new scan of the scheduler changes nothing else.
LEMMA RescanIInv ==
  ASSUME IInv, Rescan
  PROVE  IInv'
<1>1. UNCHANGED <<table, cpu, panicked, locals>> /\ scan' \in 1..(NPROC + 1)
  BY NprocAssumption DEF Rescan
<1> QED
  BY <1>1 DEF IInv, TypeOK, CpuInv, LocInv, ForkInv, InFork, PidInv, PidsUnique,
              ParentInv, Live, Active, NoLostWakeup, ZombieChildren, table, locals

\* exit() hands every child to init and wakes whoever has to reap a zombie: init
\* when it adopts, and the parent of the process that exits.
LEMMA ExitFromIInv ==
  ASSUME IInv, NEW p \in Procs, cpu = p, pc[p] = "user",
         NEW st, OnlyWakes(state, st), ExitFrom(p, st)
  PROVE  IInv'
<1> USE ProcsFacts DEF IInv, TypeOK
<1>0. state[p] = "RUNNING"
  BY DEF CpuInv
<1>1. PICK nullpid \in NullReads :
        /\ parent' = [c \in Procs |-> IF c \in Adopted(p, nullpid) THEN Initproc ELSE parent[c]]
        /\ state' = [Wakeup1(IF Adopted(p, nullpid) # {} THEN Wakeup1(st, Initproc) ELSE st,
                             parent'[p]) EXCEPT ![p] = "ZOMBIE"]
        /\ cpu' = None
        /\ UNCHANGED <<pid, killed, chan, nextpid, scan, panicked, pc, child, idx, has>>
  BY Zenon DEF ExitFrom, locals
<1> DEFINE adopted == Adopted(p, nullpid)
           woken == IF adopted # {} THEN Wakeup1(st, Initproc) ELSE st
           final == Wakeup1(woken, parent'[p])
<1>2. /\ OnlyWakes(state, woken)
      /\ adopted # {} => \A q \in Procs : ~(woken[q] = "SLEEPING" /\ chan[q] = Initproc)
  BY WakeupFacts DEF OnlyWakes
<1>3. /\ OnlyWakes(state, final)
      /\ \A q \in Procs : ~(final[q] = "SLEEPING" /\ chan[q] = parent'[p])
      /\ \A q \in Procs : final[q] = "SLEEPING" => woken[q] = "SLEEPING"
  BY <1>2, WakeupFacts DEF OnlyWakes
<1>4. adopted \subseteq Procs /\ \A c \in Procs : parent[c] = p => c \in adopted
  BY DEF Adopted
<1>5. /\ state' \in [Procs -> States]
      /\ state'[p] = "ZOMBIE"
      /\ \A q \in Procs \ {p} : state'[q] = final[q]
  BY <1>1, <1>3 DEF OnlyWakes, States
<1>6. parent' \in [Procs -> Procs \cup {None}]
  BY <1>1
<1> HIDE DEF adopted, woken, final
<1>7. TypeOK'
  BY <1>1, <1>5, <1>6
<1>8. CpuInv' /\ LocInv'
  BY <1>0, <1>1, <1>3, <1>5 DEF CpuInv, LocInv, Live, Active, OnlyWakes
<1>9. ForkInv'
  <2>1. \A q \in Procs : state'[q] = "EMBRYO" <=> state[q] = "EMBRYO"
    BY <1>0, <1>3, <1>5 DEF OnlyWakes
  <2>2. child' = child /\ \A q \in Procs : InFork(q)' <=> InFork(q)
    BY <1>1 DEF InFork
  <2>3. \A q \in Procs : InFork(q) => child[q] \in Procs /\ state'[child[q]] = "EMBRYO"
    BY <2>1, Zenon DEF ForkInv
  <2>4. \A s \in Procs : state'[s] = "EMBRYO" => \E q \in Procs : InFork(q)' /\ child[q] = s
    BY <2>1, <2>2 DEF ForkInv
  <2>5. \A q, r \in Procs : InFork(q)' /\ InFork(r)' /\ child[q] = child[r] => q = r
    BY <2>2 DEF ForkInv
  <2> QED
    BY <2>2, <2>3, <2>4, <2>5 DEF ForkInv
<1>10. PidInv'
  BY <1>0, <1>1, <1>3, <1>5 DEF PidInv, PidsUnique, OnlyWakes
<1>11. ParentInv'
  <2>1. \A c \in Procs : parent'[c] = Initproc \/ (parent'[c] = parent[c] /\ parent[c] # p)
    BY <1>1, <1>4 DEF adopted
  <2>2. \A q \in Procs : Live(q) => Live(q)'
    BY <1>0, <1>3, <1>5 DEF Live, OnlyWakes
  <2>3. \A q \in Procs \ {p} : Active(q) => Active(q)'
    BY <1>3, <1>5 DEF Active, OnlyWakes
  <2> QED
    BY <2>1, <2>2, <2>3, Zenon DEF ParentInv
<1>12. NoLostWakeup'
  <2> SUFFICES ASSUME NEW q \in Procs, state'[q] = "SLEEPING", pc[q] = "wait_woken",
                      NEW c \in Procs, parent'[c] = q, state'[c] = "ZOMBIE"
               PROVE  FALSE
    BY <1>1, Zenon DEF NoLostWakeup, ZombieChildren
  <2>1. q # p /\ final[q] = "SLEEPING" /\ woken[q] = "SLEEPING" /\ state[q] = "SLEEPING" /\ chan[q] = q
    BY <1>3, <1>5 DEF OnlyWakes, LocInv
  <2>2. c # p
    BY <2>1, <1>3
  <2>3. state[c] = "ZOMBIE"
    BY <2>2, <1>3, <1>5 DEF OnlyWakes
  <2>4. c \notin adopted
    BY <2>1, <1>1, <1>2 DEF adopted
  <2>5. parent[c] = q
    BY <2>4, <1>1 DEF adopted
  <2> QED
    BY <2>1, <2>3, <2>5 DEF NoLostWakeup, ZombieChildren
<1> QED
  BY <1>7, <1>8, <1>9, <1>10, <1>11, <1>12

\* sys_exit keeps the invariant.
LEMMA ExitIInv ==
  ASSUME IInv, NEW p \in Procs, Exit(p)
  PROVE  IInv'
<1>1. OnlyWakes(state, state)
  BY DEF OnlyWakes, IInv, TypeOK
<1> QED
  BY <1>1, ExitFromIInv DEF Exit, Running

\* A tick makes the running process yield, or exit if it was killed.
LEMMA TimerIInv ==
  ASSUME IInv, NEW p \in Procs, Timer(p)
  PROVE  IInv'
<1> DEFINE st == Wakeup1(state, Ticks)
<1>0. /\ cpu = p /\ state[p] = "RUNNING"
      /\ pc[p] \notin {"wait_woken", "sleep_woken"}
  BY DEF Timer, Running, IInv, CpuInv
<1>1. OnlyWakes(state, st)
  BY WakeupFacts DEF IInv, TypeOK
<1>2. CASE pc[p] = "user" /\ killed[p]
  <2>1. ExitFrom(p, st)
    BY <1>2 DEF Timer
  <2> HIDE DEF st
  <2> QED
    BY <1>0, <1>1, <1>2, <2>1, ExitFromIInv
<1>3. CASE ~(pc[p] = "user" /\ killed[p])
  <2>1. /\ state' = [st EXCEPT ![p] = "RUNNABLE"]
        /\ cpu' = None
        /\ UNCHANGED <<pid, parent, killed, chan, nextpid, scan, panicked, pc, child, idx, has>>
    BY <1>3 DEF Timer, locals
  <2>2. /\ state' \in [Procs -> States]
        /\ state'[p] = "RUNNABLE"
        /\ \A q \in Procs \ {p} : \/ state'[q] = state[q]
                                  \/ state[q] = "SLEEPING" /\ state'[q] = "RUNNABLE"
    BY <1>1, <2>1 DEF OnlyWakes, States
  <2> USE ProcsFacts, <1>0, <2>1, <2>2 DEF IInv, TypeOK
  <2> HIDE DEF st
  <2>3. TypeOK'
    OBVIOUS
  <2>4. CpuInv' /\ LocInv'
    BY DEF CpuInv, LocInv, Live, Active
  <2>5. ForkInv' /\ PidInv' /\ ParentInv' /\ NoLostWakeup'
    BY QuietIInv DEF InFork
  <2> QED
    BY <2>3, <2>4, <2>5, Zenon
<1> QED
  BY <1>2, <1>3, Zenon

\* Every step of the kernel keeps the invariant.
LEMMA NextIInv == IInv /\ [Next]_vars => IInv'
<1> SUFFICES ASSUME IInv, [Next]_vars PROVE IInv'
  OBVIOUS
<1>1. CASE UNCHANGED vars
  BY <1>1 DEF vars, IInv, TypeOK, CpuInv, LocInv, ForkInv, InFork, PidInv, PidsUnique,
              ParentInv, Live, Active, NoLostWakeup, ZombieChildren, table, locals
<1>2. ASSUME NEW p \in Procs, NEW call \in Calls, Syscall(p, call) PROVE IInv'
  BY <1>2, SyscallIInv
<1>3. ASSUME NEW p \in Procs, KernelStep(p) PROVE IInv'
  BY <1>3, ForkAllocIInv, ForkSetupIInv, ForkPublishIInv, WaitScanIInv, WaitReapIInv,
     SleepLoopIInv, SleepWokenIInv, KillIInv DEF KernelStep
<1>4. ASSUME NEW p \in Procs, Exit(p) \/ Timer(p) PROVE IInv'
  BY <1>4, ExitIInv, TimerIInv
<1>5. CASE TimerIdle \/ Dispatch \/ Rescan
  BY <1>5, TimerIdleIInv, DispatchIInv, RescanIInv
<1> QED
  BY <1>1, <1>2, <1>3, <1>4, <1>5 DEF Next, Frozen

\* The strengthened invariant holds in every reachable state, for every table
\* size, pid bound and null-pointer read.
THEOREM Invariance == Spec => []IInv
BY InitIInv, NextIInv, PTL DEF Spec

\* Every field of the process table keeps its type (struct proc, inc/proc.h).
THEOREM TypeCorrect == Spec => []TypeOK
<1>1. IInv => TypeOK
  BY DEF IInv
<1> QED
  BY <1>1, Invariance, PTL

\* No wakeup is lost between exit() and wait(): a process that sleeps in wait has
\* no zombie child (proc.c:216 against proc.c:260).
THEOREM WakeupsNotLost == Spec => []NoLostWakeup
<1>1. IInv => NoLostWakeup
  BY DEF IInv
<1> QED
  BY <1>1, Invariance, PTL

\* A parent pointer never leads to a freed slot or to a zombie other than init
\* (the adoption loop of exit(), proc.c:206).
THEOREM ParentsAlive == Spec => []ParentAlive
<1>1. IInv => ParentAlive
  BY DEF IInv, ParentInv, ParentAlive, Active
<1> QED
  BY <1>1, Invariance, PTL

\* Slots in use have distinct pids (allocproc, proc.c:63).
THEOREM UniquePids == Spec => []PidsUnique
<1>1. IInv => PidsUnique
  BY DEF IInv, PidInv
<1> QED
  BY <1>1, Invariance, PTL

\* The slot a fork sets up without the lock belongs to that fork alone
\* (proc.c:60 to proc.c:186).
THEOREM EmbryosOwned == Spec => []EmbryoOwned
<1>1. IInv => EmbryoOwned
  BY ProcsFacts DEF IInv, ForkInv, EmbryoOwned
<1> QED
  BY <1>1, Invariance, PTL

\* A step that frees a slot is wait() by the parent of a zombie, or fork giving
\* back its own embryo.
LEMMA OnlyOwnerFrees ==
  ASSUME IInv, Next, NEW c \in Procs, state[c] # "UNUSED", state'[c] = "UNUSED"
  PROVE  /\ cpu # c
         /\ \/ state[c] = "ZOMBIE" /\ parent[c] = cpu
            \/ state[c] = "EMBRYO" /\ child[cpu] = c
<1> USE ProcsFacts DEF IInv, TypeOK
<1>1. state \in [Procs -> States]
  OBVIOUS
<1>2. ASSUME NEW p \in Procs, ForkSetup(p) PROVE state[c] = "EMBRYO" /\ child[cpu] = c
  BY <1>1, <1>2 DEF ForkSetup, ForkInv, InFork, Running
<1>3. ASSUME NEW p \in Procs, WaitReap(p) PROVE state[c] = "ZOMBIE" /\ parent[c] = cpu
  <2>1. CASE ZombieChildren(p) = {}
    BY <1>1, <1>3, <2>1 DEF WaitReap, SleepOn
  <2>2. CASE ZombieChildren(p) # {}
    <3>1. PICK z \in ZombieChildren(p) : state' = [state EXCEPT ![z] = "UNUSED"]
      BY <1>3, <2>2 DEF WaitReap, First
    <3> QED
      BY <1>1, <1>3, <3>1 DEF ZombieChildren, WaitReap, Running
  <2> QED
    BY <2>1, <2>2
<1>4. ASSUME NEW p \in Procs, NEW st, OnlyWakes(state, st), ExitFrom(p, st) PROVE FALSE
  <2>1. PICK ad, w : /\ w = (IF ad # {} THEN Wakeup1(st, Initproc) ELSE st)
                     /\ state' = [Wakeup1(w, parent'[p]) EXCEPT ![p] = "ZOMBIE"]
    BY <1>4, Zenon DEF ExitFrom
  <2>2. OnlyWakes(state, w)
    BY <1>4, <2>1, WakeupFacts DEF OnlyWakes
  <2>3. OnlyWakes(state, Wakeup1(w, parent'[p]))
    BY <2>2, WakeupFacts DEF OnlyWakes
  <2> QED
    BY <2>1, <2>3 DEF OnlyWakes
<1>5. ASSUME NEW p \in Procs, Exit(p) PROVE FALSE
  BY <1>1, <1>4, <1>5 DEF Exit, OnlyWakes
<1>6. ASSUME NEW p \in Procs, Timer(p) PROVE FALSE
  <2>1. OnlyWakes(state, Wakeup1(state, Ticks))
    BY <1>1, WakeupFacts
  <2>2. ~ExitFrom(p, Wakeup1(state, Ticks))
    BY <1>4, <2>1
  <2>3. state' = [Wakeup1(state, Ticks) EXCEPT ![p] = "RUNNABLE"]
    BY <1>6, <2>2 DEF Timer
  <2> QED
    BY <2>1, <2>3 DEF OnlyWakes
<1>7. ASSUME TimerIdle PROVE FALSE
  BY <1>1, <1>7, WakeupFacts DEF TimerIdle, OnlyWakes
<1>8. ASSUME NEW p \in Procs, NEW k, Kill(p, k) PROVE FALSE
  BY <1>1, <1>8 DEF Kill, First
<1>9. ASSUME NEW p \in Procs, ForkAlloc(p) PROVE FALSE
  BY <1>1, <1>9 DEF ForkAlloc, First, table
<1>10. ASSUME NEW p \in Procs, ForkPublish(p) PROVE FALSE
  BY <1>1, <1>10 DEF ForkPublish
<1>11. ASSUME NEW p \in Procs,
              SleepLoop(p) \/ SleepWoken(p) \/ WaitScan(p) \/ \E call \in Calls : Syscall(p, call)
       PROVE  FALSE
  BY <1>1, <1>11 DEF SleepLoop, SleepWoken, WaitScan, Syscall, SleepOn, table
<1>12. ASSUME Dispatch \/ Rescan \/ Frozen PROVE FALSE
  BY <1>1, <1>12 DEF Dispatch, Rescan, Frozen, First, vars, table
<1>13. (state[c] = "ZOMBIE" /\ parent[c] = cpu) \/ (state[c] = "EMBRYO" /\ child[cpu] = c)
  BY <1>2, <1>3, <1>5, <1>6, <1>7, <1>8, <1>9, <1>10, <1>11, <1>12 DEF Next, KernelStep
<1> QED
  BY <1>13 DEF CpuInv

\* A slot, with its kernel stack and page table, is never freed under a process
\* that may still run on it (proc.c:248 and proc.c:70).
THEOREM OwnerFrees == Spec => FreedByOwner
<1>1. IInv /\ [Next]_vars => [FreedStep]_vars
  BY OnlyOwnerFrees DEF FreedStep
<1> QED
  BY <1>1, Invariance, PTL DEF Spec, FreedByOwner

\* When the word read through a null parent is no pid, comparing pids finds exactly
\* the caller's children (proc.c:207).
LEMMA AdoptedChildren ==
  ASSUME NullSafe, IInv, NEW p \in Procs, state[p] = "RUNNING", NEW nullpid \in NullReads
  PROVE  Adopted(p, nullpid) = {c \in Procs : parent[c] = p}
<1> USE ProcsFacts, NullReadsAssumption, MaxPidAssumption DEF IInv, TypeOK
<1>1. pid[p] \in 1..MaxPid
  BY DEF PidInv
<1>2. nullpid # pid[p]
  BY <1>1 DEF NullSafe
<1>3. \A c \in Procs : parent[c] # None => state[parent[c]] # "UNUSED"
  BY DEF ParentInv, Active, CpuInv, Live
<1>4. ASSUME NEW c \in Procs, parent[c] # None
      PROVE  pid[parent[c]] = pid[p] <=> parent[c] = p
  <2>1. parent[c] \in Procs
    BY <1>4
  <2> QED
    BY <1>3, <1>4, <2>1, Zenon DEF PidInv, PidsUnique
<1> QED
  BY <1>2, <1>4, Zenon DEF Adopted

\* exit() takes children only from the process that exits.
LEMMA ExitFromWaitInv ==
  ASSUME NullSafe, IInv, WaitInv, NEW p \in Procs, cpu = p, pc[p] = "user",
         NEW st, OnlyWakes(state, st), ExitFrom(p, st)
  PROVE  WaitInv'
<1> USE ProcsFacts DEF IInv, TypeOK
<1>0. state[p] = "RUNNING"
  BY DEF CpuInv
<1>1. PICK nullpid \in NullReads :
        /\ parent' = [c \in Procs |-> IF c \in Adopted(p, nullpid) THEN Initproc ELSE parent[c]]
        /\ state' = [Wakeup1(IF Adopted(p, nullpid) # {} THEN Wakeup1(st, Initproc) ELSE st,
                             parent'[p]) EXCEPT ![p] = "ZOMBIE"]
        /\ pc' = pc /\ has' = has
  BY Zenon DEF ExitFrom, locals
<1> DEFINE woken == IF Adopted(p, nullpid) # {} THEN Wakeup1(st, Initproc) ELSE st
<1>2. OnlyWakes(state, woken)
  BY WakeupFacts DEF OnlyWakes
<1>3. OnlyWakes(state, Wakeup1(woken, parent'[p]))
  BY <1>2, WakeupFacts DEF OnlyWakes
<1>4. \A c \in Procs : /\ state'[c] = "UNUSED" => state[c] = "UNUSED"
                       /\ ~Live(c)' => ~Live(c)
  BY <1>0, <1>1, <1>3 DEF OnlyWakes, Live
<1> HIDE DEF woken
<1>5. \A c \in Procs : parent'[c] = IF parent[c] = p THEN Initproc ELSE parent[c]
  BY <1>0, <1>1, AdoptedChildren
<1>6. \A q \in Procs : has[q] \/ InWait(q) => q # p
  BY DEF WaitInv, InWait
<1> QED
  BY <1>1, <1>4, <1>5, <1>6 DEF WaitInv, InWait

\* No step takes the last child from a process inside wait but its own reaping.
LEMMA NextWaitInv ==
  ASSUME NullSafe, IInv, WaitInv, [Next]_vars
  PROVE  WaitInv'
<1> USE ProcsFacts DEF IInv, TypeOK
<1>1. CASE UNCHANGED vars
  BY <1>1 DEF vars, table, locals, WaitInv, Live, InWait
<1>2. ASSUME NEW p \in Procs, NEW call \in Calls, Syscall(p, call) PROVE WaitInv'
  BY <1>2 DEF Syscall, Goto, table, WaitInv, Live, InWait, Calls
<1>3. ASSUME NEW p \in Procs, ForkAlloc(p) PROVE WaitInv'
  <2>1. parent' = parent /\ has' = has /\ pc[p] = "fork_alloc" /\ pc' \in [Procs -> Locations]
        /\ pc'[p] \in {"user", "fork_setup"} /\ \A q \in Procs \ {p} : pc'[q] = pc[q]
    BY <1>3 DEF ForkAlloc, Goto, table, Locations
  <2>2. \A c \in Procs : state'[c] = state[c] \/ (state[c] = "UNUSED" /\ state'[c] = "EMBRYO")
    BY <1>3 DEF ForkAlloc, First, FreeSlots, table
  <2> QED
    BY <2>1, <2>2 DEF WaitInv, Live, InWait
<1>4. ASSUME NEW p \in Procs, ForkSetup(p) PROVE WaitInv'
  <2>1. parent' = parent /\ has' = has /\ pc[p] = "fork_setup"
        /\ pc'[p] \in {"user", "fork_setup", "fork_publish"} /\ \A q \in Procs \ {p} : pc'[q] = pc[q]
    BY <1>4 DEF ForkSetup, Goto
  <2>2. \A c \in Procs : state'[c] = state[c] \/ (state[c] = "EMBRYO" /\ state'[c] = "UNUSED")
    BY <1>4 DEF ForkSetup, ForkInv, InFork
  <2>3. \A c \in Procs : ~Live(c)' => ~Live(c)
    BY <2>2 DEF Live
  <2>4. \A c \in Procs : state[c] = "EMBRYO" => parent[c] = None
    BY DEF WaitInv, Live
  <2> QED
    BY <2>1, <2>2, <2>3, <2>4 DEF WaitInv, InWait
<1>5. ASSUME NEW p \in Procs, ForkPublish(p) PROVE WaitInv'
  <2>1. PICK s \in Procs : /\ state[s] = "EMBRYO" /\ s # p /\ s # Initproc
                           /\ state' = [state EXCEPT ![s] = "RUNNABLE"]
                           /\ parent' = [parent EXCEPT ![s] = p]
                           /\ pc' = [pc EXCEPT ![p] = "user", ![s] = "user"]
    BY <1>5, Zenon DEF ForkPublish, ForkInv, InFork, Running, CpuInv, Live
  <2>2. has' = has /\ pc[p] = "fork_publish" /\ pc[s] = "user" /\ parent[s] = None
    BY <1>5, <2>1 DEF ForkPublish, LocInv, Active, WaitInv, Live
  <2>3. \A c \in Procs : ~Live(c)' => c # s /\ ~Live(c)
    BY <2>1 DEF Live
  <2> QED
    BY <2>1, <2>2, <2>3 DEF WaitInv, InWait
<1>6. ASSUME NEW p \in Procs, WaitScan(p) PROVE WaitInv'
  <2> DEFINE found == ScanFound(p)
             last == idx[p] = NPROC
  <2>1. /\ parent' = parent /\ state' = state /\ pc[p] = "wait_scan"
        /\ has' = [has EXCEPT ![p] = IF last THEN FALSE ELSE found]
        /\ pc' = [pc EXCEPT ![p] = IF last THEN IF found THEN "wait_reap" ELSE "user"
                                   ELSE "wait_scan"]
    <3>1. CASE last
      BY <1>6, <3>1 DEF WaitScan, Goto, table
    <3>2. CASE ~last
      <4>1. pc' = pc /\ has' = [has EXCEPT ![p] = found]
        BY <1>6, <3>2 DEF WaitScan
      <4> HIDE DEF found
      <4> QED
        BY <1>6, <3>2, <4>1 DEF WaitScan, table
    <3> QED
      BY <3>1, <3>2, Zenon
  <2>2. found => \E c \in Procs : parent[c] = p /\ state[c] # "UNUSED"
    BY Zenon DEF WaitInv, ScanFound
  <2>3. /\ has'[p] => found /\ pc'[p] = "wait_scan"
        /\ pc'[p] \in {"wait_reap", "wait_woken"} => found
        /\ \A q \in Procs \ {p} : has'[q] = has[q] /\ pc'[q] = pc[q]
    BY <2>1
  <2> HIDE DEF found, last
  <2> QED
    BY <2>1, <2>2, <2>3 DEF WaitInv, InWait, Live
<1>7. ASSUME NEW p \in Procs, WaitReap(p) PROVE WaitInv'
  <2>1. CASE ZombieChildren(p) = {}
    BY <1>7, <2>1 DEF WaitReap, SleepOn, Goto, WaitInv, Live, InWait, CpuInv, Running
  <2>2. CASE ZombieChildren(p) # {}
    <3>1. PICK z \in ZombieChildren(p) : /\ state' = [state EXCEPT ![z] = "UNUSED"]
                                         /\ parent' = [parent EXCEPT ![z] = None]
                                         /\ pc' = [pc EXCEPT ![p] = "user"]
      BY <1>7, <2>2 DEF WaitReap, First, Goto
    <3>2. z \in Procs /\ parent[z] = p /\ has' = has /\ ~has[p]
      BY <1>7, <3>1 DEF ZombieChildren, WaitReap, WaitInv
    <3>3. \A c \in Procs : ~Live(c)' => c = z \/ ~Live(c)
      BY <3>1 DEF Live
    <3> QED
      BY <3>1, <3>2, <3>3 DEF WaitInv, InWait
  <2> QED
    BY <2>1, <2>2
<1>8. ASSUME NEW p \in Procs, SleepLoop(p) \/ SleepWoken(p) PROVE WaitInv'
  <2>1. parent' = parent /\ has' = has /\ pc[p] \in {"sleep_loop", "sleep_woken"}
        /\ pc'[p] \in {"user", "sleep_loop", "sleep_woken"} /\ \A q \in Procs \ {p} : pc'[q] = pc[q]
    BY <1>8 DEF SleepLoop, SleepWoken, Goto
  <2>2. \A c \in Procs : state'[c] = state[c] \/ (c = p /\ state'[c] = "SLEEPING")
    BY <1>8 DEF SleepLoop, SleepWoken, SleepOn
  <2>3. \A c \in Procs : (~Live(c)' => ~Live(c)) /\ (state'[c] = "UNUSED" => state[c] = "UNUSED")
    BY <2>2 DEF Live
  <2> QED
    BY <2>1, <2>3 DEF WaitInv, InWait
<1>9. ASSUME NEW p \in Procs, NEW k, Kill(p, k) PROVE WaitInv'
  <2>1. parent' = parent /\ has' = has /\ pc[p] = "kill" /\ pc' = [pc EXCEPT ![p] = "user"]
    BY <1>9 DEF Kill, Goto
  <2>2. \A c \in Procs : state'[c] = state[c] \/ (state[c] = "SLEEPING" /\ state'[c] = "RUNNABLE")
    BY <1>9 DEF Kill, First
  <2>3. \A c \in Procs : (~Live(c)' => ~Live(c)) /\ (state'[c] = "UNUSED" => state[c] = "UNUSED")
    BY <2>2 DEF Live
  <2> QED
    BY <2>1, <2>3 DEF WaitInv, InWait
<1>10. ASSUME NEW p \in Procs, Exit(p) PROVE WaitInv'
  BY <1>10, ExitFromWaitInv DEF Exit, Running, OnlyWakes
<1>11. ASSUME NEW p \in Procs, Timer(p) PROVE WaitInv'
  <2> DEFINE st == Wakeup1(state, Ticks)
  <2>1. OnlyWakes(state, st)
    BY WakeupFacts
  <2>2. cpu = p /\ state[p] = "RUNNING"
    BY <1>11 DEF Timer, Running, CpuInv
  <2>3. CASE pc[p] = "user" /\ killed[p]
    <3>1. ExitFrom(p, st)
      BY <1>11, <2>3 DEF Timer
    <3> HIDE DEF st
    <3> QED
      BY <2>1, <2>2, <2>3, <3>1, ExitFromWaitInv
  <2>4. CASE ~(pc[p] = "user" /\ killed[p])
    <3>1. state' = [st EXCEPT ![p] = "RUNNABLE"] /\ parent' = parent /\ has' = has /\ pc' = pc
      BY <1>11, <2>4 DEF Timer, locals
    <3>2. \A c \in Procs : (~Live(c)' => ~Live(c)) /\ (state'[c] = "UNUSED" => state[c] = "UNUSED")
      BY <2>1, <2>2, <3>1 DEF OnlyWakes, Live
    <3> QED
      BY <3>1, <3>2 DEF WaitInv, InWait
  <2> QED
    BY <2>3, <2>4
<1>12. CASE TimerIdle \/ Dispatch \/ Rescan \/ Frozen
  <2>1. parent' = parent /\ has' = has /\ pc' = pc
    BY <1>12 DEF TimerIdle, Dispatch, Rescan, Frozen, table, locals, vars
  <2>2. \A c \in Procs : \/ state'[c] = state[c]
                         \/ state[c] \in {"SLEEPING", "RUNNABLE"} /\ state'[c] \in {"RUNNABLE", "RUNNING"}
    <3>1. CASE TimerIdle
      BY <3>1, WakeupFacts DEF TimerIdle, OnlyWakes
    <3>2. CASE Dispatch
      BY <3>2 DEF Dispatch, First, Candidates
    <3>3. CASE Rescan \/ Frozen
      BY <3>3 DEF Rescan, Frozen, table, vars
    <3> QED
      BY <1>12, <3>1, <3>2, <3>3
  <2>3. \A c \in Procs : (~Live(c)' => ~Live(c)) /\ (state'[c] = "UNUSED" => state[c] = "UNUSED")
    BY <2>2 DEF Live
  <2> QED
    BY <2>1, <2>3 DEF WaitInv, InWait
<1> QED
  BY <1>1, <1>2, <1>3, <1>4, <1>5, <1>6, <1>7, <1>8, <1>9, <1>10, <1>11, <1>12 DEF Next, KernelStep

\* If no program has a pid at the address exit() reads for a null parent, then only
\* a process with a child sleeps in wait (proc.c:240 and proc.c:260).
THEOREM WaitersHaveChildren ==
  ASSUME NullSafe
  PROVE  Spec => []WaiterHasChild
<1>1. Init => WaitInv
  BY ProcsFacts DEF Init, WaitInv, Live, InWait
<1>2. IInv /\ WaitInv /\ [Next]_vars => WaitInv'
  BY NextWaitInv
<1>3. WaitInv => WaiterHasChild
  BY DEF WaitInv, WaiterHasChild, InWait, Children
<1> QED
  BY <1>1, <1>2, <1>3, Invariance, PTL DEF Spec

=============================================================================
