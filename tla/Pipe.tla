-------------------------------- MODULE Pipe --------------------------------
(***************************************************************************)
(* One pipe (kernel/file.c, fileread and filewrite): readers and writers   *)
(* that block with sleep and wakeup over a ring buffer, the descriptors    *)
(* that lead to the pipe, and kill.                                        *)
(*                                                                         *)
(* The pipe's lock is held from its acquisition to a sleep or the return,  *)
(* so a turn of a read or write up to there is one action.  A sleeper that *)
(* is woken takes the lock again and repeats its test.  Ftable shows that  *)
(* the slot's reference count is the number of descriptors; here it is     *)
(* defined as that number.                                                 *)
(*                                                                         *)
(* head and tail are ints that only grow, and an index is one of them      *)
(* modulo Size: the model is of the first 2^31 bytes that go through the   *)
(* pipe, after which the code's ints overflow.                             *)
(***************************************************************************)
EXTENDS Naturals, Integers, Sequences, FiniteSets

CONSTANTS
  Procs,   \* processes
  First,   \* the process that has called pipe
  Size,    \* sizeof(pipe_buffer.buf)
  Fds,     \* descriptor numbers; pipe has returned 0 and 1
  Lens,    \* lengths of reads and writes
  MaxOps,  \* bound of the model: the number of writes
  Calls    \* the calls that the programs make, for each process

PipeAssumption ==
  /\ First \in Procs /\ Size \in Nat \ {0} /\ MaxOps \in Nat
  /\ {0, 1} \subseteq Fds /\ Fds \subseteq Nat /\ Lens \subseteq Nat \ {0}

ReadFd == 0

VARIABLES
  buf, head, tail,  \* struct pipe
  end,       \* which end of the pipe each descriptor is, or "none"
  running,   \* the processes that exist
  killed,
  pc,        \* "user", in a call, or asleep in one
  len, left, \* the length of the call, and what remains of a write
  op,        \* the number of the write under way; it stands for its bytes
  via,       \* the end through which the call was made
  out,       \* the bytes that the last successful read copied
  ops,       \* writes so far
  panicked

ring == <<buf, head, tail>>
locals == <<len, left, op, via>>
vars == <<ring, end, running, killed, pc, locals, out, ops, panicked>>

Init ==
  /\ buf = [i \in 0..(Size - 1) |-> 0] /\ head = 0 /\ tail = 0
  /\ end = [p \in Procs |-> [fd \in Fds |->
              IF p # First THEN "none" ELSE IF fd = 0 THEN "r"
              ELSE IF fd = 1 THEN "w" ELSE "none"]]
  /\ running = {First}
  /\ killed = [p \in Procs |-> FALSE]
  /\ pc = [p \in Procs |-> "user"]
  /\ len = [p \in Procs |-> 0] /\ left = [p \in Procs |-> 0]
  /\ op = [p \in Procs |-> 0] /\ via = [p \in Procs |-> "none"]
  /\ out = <<>> /\ ops = 0 /\ panicked = FALSE

At(p, loc) == ~panicked /\ p \in running /\ pc[p] = loc
Ref == Cardinality({u \in Procs \X Fds : end[u[1]][u[2]] # "none"})

\* wakeup on the channel read_fd or write_fd: the sleepers there run again.
Woken(loc, asleep, again) ==
  [q \in Procs |-> IF loc[q] = asleep THEN again ELSE loc[q]]
WakeReaders(loc) == Woken(loc, "read_sleep", "read")

\* Mutant of WakeWriters: the wrong channel.
WakeWrong(loc) == WakeReaders(loc)

WakeWriters(loc) == Woken(loc, "write_sleep", "write")

\* The call of p returns: others are at loc, the locals are gone.
Return(p, loc) ==
  /\ pc' = [loc EXCEPT ![p] = "user"]
  /\ len' = [len EXCEPT ![p] = 0] /\ left' = [left EXCEPT ![p] = 0]
  /\ op' = [op EXCEPT ![p] = 0] /\ via' = [via EXCEPT ![p] = "none"]

-----------------------------------------------------------------------------
(* read *)

\* fileread up to the lock.  Only the number that pipe returned may be read: any
\* other descriptor of the pipe is refused, which changes nothing.
ReadCall(p, fd, n) ==
  /\ At(p, "user") /\ ~killed[p] /\ "read" \in Calls[p] /\ end[p][fd] # "none"
  /\ fd = ReadFd
  /\ pc' = [pc EXCEPT ![p] = "read"]
  /\ len' = [len EXCEPT ![p] = n]
  /\ via' = [via EXCEPT ![p] = end[p][fd]]
  /\ UNCHANGED <<ring, end, running, killed, left, op, out, ops, panicked>>

\* Mutant of ReadEmpty: one other descriptor still counts as end of file.
ReadEmptyEarly(p) ==
  /\ At(p, "read") /\ head = tail
  /\ IF killed[p] \/ Ref <= 2 THEN Return(p, pc)
     ELSE pc' = [WakeWriters(pc) EXCEPT ![p] = "read_sleep"] /\ UNCHANGED locals
  /\ UNCHANGED <<ring, end, running, killed, out, ops, panicked>>

\* An empty pipe: killed, end of file, or sleep.
ReadEmpty(p) ==
  /\ At(p, "read") /\ head = tail
  /\ IF killed[p] \/ Ref = 1 THEN Return(p, pc)
     ELSE pc' = [WakeWriters(pc) EXCEPT ![p] = "read_sleep"] /\ UNCHANGED locals
  /\ UNCHANGED <<ring, end, running, killed, out, ops, panicked>>

Smaller(a, b) == IF a < b THEN a ELSE b

\* Mutant of Copied: the index runs from the tail.
CopiedFromTail(k) == [i \in 1..k |-> buf[(tail + i - 1) % Size]]

Copied(k) == [i \in 1..k |-> buf[(head + i - 1) % Size]]

\* Mutant of ReadCopy: writers are not woken.
ReadCopySilent(p) ==
  LET k == Smaller(len[p], tail - head) IN
  /\ At(p, "read") /\ head # tail
  /\ out' = Copied(k) /\ head' = head + k
  /\ Return(p, pc)
  /\ UNCHANGED <<buf, tail, end, running, killed, ops, panicked>>

\* The copying loop.  A reader killed by then returns with the pipe's lock
\* held and interrupts off, exits, and sched panics.
ReadCopy(p) ==
  LET k == Smaller(len[p], tail - head) IN
  /\ At(p, "read") /\ head # tail
  /\ IF killed[p]
     THEN panicked' = TRUE /\ UNCHANGED <<head, out, pc, locals>>
     ELSE /\ out' = Copied(k) /\ head' = head + k
          /\ Return(p, WakeWriters(pc))
          /\ UNCHANGED panicked
  /\ UNCHANGED <<buf, tail, end, running, killed, ops>>

-----------------------------------------------------------------------------
(* write *)

\* filewrite up to the lock: any descriptor of the pipe will do.
WriteCall(p, fd, n) ==
  /\ At(p, "user") /\ ~killed[p] /\ "write" \in Calls[p] /\ end[p][fd] # "none"
  /\ ops < MaxOps
  /\ ops' = ops + 1
  /\ op' = [op EXCEPT ![p] = ops + 1]
  /\ len' = [len EXCEPT ![p] = n] /\ left' = [left EXCEPT ![p] = n]
  /\ via' = [via EXCEPT ![p] = end[p][fd]]
  /\ pc' = [pc EXCEPT ![p] = "write"]
  /\ UNCHANGED <<ring, end, running, killed, out, panicked>>

Room == Size - (tail - head)

\* A full pipe: sleep, whoever is there to read, killed or not.
WriteFull(p) ==
  /\ At(p, "write") /\ Room = 0
  /\ pc' = [WakeReaders(pc) EXCEPT ![p] = "write_sleep"]
  /\ UNCHANGED <<ring, end, running, killed, locals, out, ops, panicked>>

\* No other descriptor is left.
WriteBroken(p) ==
  /\ At(p, "write") /\ Room > 0 /\ Ref = 1
  /\ Return(p, pc)
  /\ UNCHANGED <<ring, end, running, killed, out, ops, panicked>>

\* Bytes are copied until all are written, or the buffer is full and the
\* writer sleeps; readers are woken in both cases.
WriteCopy(p) ==
  LET k == Smaller(left[p], Room) IN
  /\ At(p, "write") /\ Room > 0 /\ Ref # 1
  /\ buf' = [i \in DOMAIN buf |->
               IF \E j \in 0..(k - 1) : (tail + j) % Size = i THEN op[p] ELSE buf[i]]
  /\ tail' = tail + k
  /\ IF k = left[p] THEN Return(p, WakeReaders(pc))
     ELSE /\ pc' = [WakeReaders(pc) EXCEPT ![p] = "write_sleep"]
          /\ left' = [left EXCEPT ![p] = @ - k]
          /\ UNCHANGED <<len, op, via>>
  /\ UNCHANGED <<head, end, running, killed, out, ops, panicked>>

-----------------------------------------------------------------------------
(* descriptors and processes *)

\* fileclose wakes nobody.
Close(p, fd) ==
  /\ At(p, "user") /\ (killed[p] \/ "close" \in Calls[p]) /\ end[p][fd] # "none"
  /\ end' = [end EXCEPT ![p][fd] = "none"]
  /\ UNCHANGED <<ring, running, killed, pc, locals, out, ops, panicked>>

\* filedup, into the lowest free descriptor.
Dup(p, fd, to) ==
  /\ At(p, "user") /\ ~killed[p] /\ "dup" \in Calls[p]
  /\ end[p][fd] # "none" /\ end[p][to] = "none"
  /\ \A lower \in Fds : lower < to => end[p][lower] # "none"
  /\ end' = [end EXCEPT ![p][to] = end[p][fd]]
  /\ UNCHANGED <<ring, running, killed, pc, locals, out, ops, panicked>>

Fork(p, c) ==
  /\ At(p, "user") /\ ~killed[p] /\ "fork" \in Calls[p] /\ c \notin running
  /\ running' = running \cup {c}
  /\ end' = [end EXCEPT ![c] = end[p]]
  /\ UNCHANGED <<ring, killed, pc, locals, out, ops, panicked>>

\* kill marks the process and makes a sleeper run again.
Kill(p, q) ==
  /\ At(p, "user") /\ ~killed[p] /\ "kill" \in Calls[p] /\ q \in running /\ p # q
  /\ killed' = [killed EXCEPT ![q] = TRUE]
  /\ pc' = [pc EXCEPT ![q] = CASE @ = "read_sleep" -> "read"
                               [] @ = "write_sleep" -> "write"
                               [] OTHER -> @]
  /\ UNCHANGED <<ring, end, running, locals, out, ops, panicked>>

Next ==
  \E p \in Procs :
    \/ \E fd \in Fds, n \in Lens : ReadCall(p, fd, n) \/ WriteCall(p, fd, n)
    \/ ReadEmpty(p) \/ ReadCopy(p)
    \/ WriteFull(p) \/ WriteBroken(p) \/ WriteCopy(p)
    \/ \E fd \in Fds : Close(p, fd) \/ \E to \in Fds : Dup(p, fd, to)
    \/ \E q \in Procs : Fork(p, q) \/ Kill(p, q)

Spec == Init /\ [][Next]_vars

-----------------------------------------------------------------------------
(* Properties *)

\* Nobody sleeps over work that is there: a sleeping reader's pipe is empty,
\* a sleeping writer's is full.  Several readers and writers are woken at
\* once, and those that lose the race sleep again after testing again.
NoLostWakeup ==
  \A p \in Procs : /\ pc[p] = "read_sleep" => tail = head
                   /\ pc[p] = "write_sleep" => Room = 0

\* The bytes in the ring and what readers are given behave like a queue.
Queue == INSTANCE Fifo WITH
           Bytes <- 1..MaxOps, Capacity <- Size,
           queue <- Copied(tail - head), out <- out
FifoSpec == Queue!Spec

\* A read through the read end returns 0 only when nobody can write: no
\* descriptor of the write end is left anywhere.
EofStep ==
  \A p \in Procs :
    (/\ pc[p] = "read" /\ pc'[p] = "user" /\ head' = head
     /\ ~killed[p] /\ via[p] = "r")
      => \A q \in Procs, fd \in Fds : end[q][fd] # "w"
EofTruth == [][EofStep]_vars

\* Once all processes run, and some of them keep reading, a write completes,
\* however much longer than the buffer it is.
WriteCompletes ==
  \A p \in Procs : pc[p] = "write" /\ running = Procs ~> pc[p] = "user"
=============================================================================
