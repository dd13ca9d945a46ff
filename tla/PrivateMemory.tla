---------------------------- MODULE PrivateMemory ----------------------------
(***************************************************************************)
(* What the address spaces of xk promise to programs, without frames, page *)
(* tables or sharing: every process has a memory of its own, fork gives    *)
(* the child a complete copy of it, and only the process itself changes it.*)
(***************************************************************************)
EXTENDS Naturals

CONSTANTS
  Procs,     \* process slots
  Regions,   \* parts of a memory
  Values,    \* what a part can hold
  Program,   \* the part that holds a program when it starts
  Unmapped,  \* in place of a value: nothing is there
  Nobody     \* in place of a process: the CPU is idle

VARIABLES
  alive,     \* the processes that run programs
  running,   \* the one on the CPU
  space,     \* the memory of each process, by region
  reliable   \* FALSE once the kernel has gone on without the page it needed

vars == <<alive, running, space, reliable>>

Memories == [Regions -> Values \cup {Unmapped}]
NoMemory == [r \in Regions |-> Unmapped]

Init ==
  /\ \E p \in Procs, m \in Memories :
       /\ alive = {p}
       /\ space = [q \in Procs |-> IF q = p THEN m ELSE NoMemory]
  /\ running = Nobody
  /\ reliable = TRUE

Write(p, r, v) ==
  /\ space[p][r] # Unmapped
  /\ space' = [space EXCEPT ![p][r] = v]
  /\ UNCHANGED <<alive, running>>

Fork(p, c) ==
  /\ c \notin alive
  /\ alive' = alive \cup {c}
  /\ space' = [space EXCEPT ![c] = space[p]]
  /\ UNCHANGED running

Exit(p) ==
  /\ alive' = alive \ {p}
  /\ running' = Nobody
  /\ space' = [space EXCEPT ![p] = NoMemory]

\* New memory is zero.
Grow(p, r) ==
  /\ space[p][r] = Unmapped
  /\ space' = [space EXCEPT ![p][r] = 0]
  /\ UNCHANGED <<alive, running>>

\* A new program sees nothing of the old one.
Exec(p) ==
  /\ \E v \in Values : space' = [space EXCEPT ![p] = [NoMemory EXCEPT ![Program] = v]]
  /\ UNCHANGED <<alive, running>>

Switch ==
  /\ running' \in alive
  /\ UNCHANGED <<alive, space>>

Step(p) ==
  \/ \E r \in Regions, v \in Values : Write(p, r, v)
  \/ \E c \in Procs : Fork(p, c)
  \/ Exit(p)
  \/ \E r \in Regions : Grow(p, r)
  \/ Exec(p)

Next ==
  \/ /\ UNCHANGED reliable
     /\ Switch \/ \E p \in alive : p = running /\ Step(p)
  \/ ~reliable'

Spec == Init /\ [][Next]_vars
=============================================================================
