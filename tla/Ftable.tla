------------------------------- MODULE Ftable -------------------------------
(***************************************************************************)
(* Open files (kernel/file.c, kernel/sysfile.c): the table ftable that all *)
(* processes share, the descriptors of each process, and the references    *)
(* to inodes, under open, close, dup, read, pipe, fork and exit.           *)
(*                                                                         *)
(* A critical section (of `lock` in file.c, of ptable.lock in fork) is one *)
(* action.  fileopen and pipe look for a free slot without a lock, one     *)
(* slot per step: the timer may switch to another process in between.      *)
(* What a pipe holds is the subject of Pipe.                               *)
(***************************************************************************)
EXTENDS Integers, FiniteSets

CONSTANTS
  Procs,    \* processes
  First,    \* the process that runs at the beginning
  NFILE,    \* slots of ftable
  NOFILE,   \* descriptors of a process
  Inodes,   \* the files that exist, each under one name
  Openers,  \* processes that call open
  Pipers,   \* processes that call pipe
  Readers,  \* processes that call read
  Statters, \* processes that call fstat
  MaxIref,  \* bound of the model: references to an inode
  MaxRead   \* bound of the model: the position up to which a file is read

ASSUME FtableAssumption ==
  /\ First \in Procs /\ Openers \cup Pipers \cup Readers \cup Statters \subseteq Procs
  /\ {NFILE, NOFILE, MaxIref, MaxRead} \subseteq Nat

Slots == 1..NFILE
Fds == 0..(NOFILE - 1)
NULL == 0               \* the null struct file_info pointer, and no inode

VARIABLES
  ref,       \* ftable[s].ref
  iptr,      \* ftable[s].iptr
  isPipe,    \* ftable[s].isPipe
  pos,       \* ftable[s].offset
  pftable,   \* pftable of every process
  iref,      \* references to the in-memory copy of an inode
  offset,    \* the global variable of file.c
  running,   \* the processes that exist
  pc, at,    \* where each process is, and the index of its loop
  arg,       \* the inode, child or descriptor that a call works on
  got,       \* what concurrent_readi, or pipe's idx, has come to
  panicked

table == <<ref, iptr, isPipe, pos>>
locals == <<pc, at, arg, got>>
vars == <<table, pftable, iref, offset, running, locals, panicked>>

Init ==
  /\ ref = [s \in Slots |-> 0]
  /\ iptr = [s \in Slots |-> NULL]
  /\ isPipe = [s \in Slots |-> FALSE]
  /\ pos = [s \in Slots |-> 0]
  /\ pftable = [p \in Procs |-> [fd \in Fds |-> NULL]]
  /\ iref = [i \in Inodes |-> 0]
  /\ offset = 0
  /\ running = {First}
  /\ pc = [p \in Procs |-> "user"]
  /\ at = [p \in Procs |-> 0]
  /\ arg = [p \in Procs |-> NULL]
  /\ got = [p \in Procs |-> 0]
  /\ panicked = FALSE

At(p, loc) == ~panicked /\ p \in running /\ pc[p] = loc
Goto(p, loc) == pc' = [pc EXCEPT ![p] = loc]

\* A call returns; its locals are gone.
Return(p) ==
  /\ Goto(p, "user")
  /\ at' = [at EXCEPT ![p] = 0]
  /\ arg' = [arg EXCEPT ![p] = NULL]
  /\ got' = [got EXCEPT ![p] = 0]

FreeFds(p) == {fd \in Fds : pftable[p][fd] = NULL}
Lowest(S) == CHOOSE x \in S : \A y \in S : x <= y

-----------------------------------------------------------------------------
(* open *)

\* sys_open: namei finds the inode and takes a reference, which only tells
\* that the file exists.
SysOpen(p, i) ==
  /\ At(p, "user") /\ p \in Openers /\ iref[i] + 1 < MaxIref
  /\ iref' = [iref EXCEPT ![i] = @ + 1]
  /\ arg' = [arg EXCEPT ![p] = i]
  /\ Goto(p, "open_lookup")
  /\ UNCHANGED <<table, pftable, offset, running, at, got, panicked>>

\* fileopen: a second namei; without a free descriptor open fails.
OpenLookup(p) ==
  /\ At(p, "open_lookup")
  /\ iref' = [iref EXCEPT ![arg[p]] = @ + 1]
  /\ IF FreeFds(p) = {} THEN Return(p)
     ELSE /\ Goto(p, "open_scan")
          /\ at' = [at EXCEPT ![p] = 1]
          /\ UNCHANGED <<arg, got>>
  /\ UNCHANGED <<table, pftable, offset, running, panicked>>

\* One turn of the loop over ftable.  At the end of the table open returns
\* the descriptor it did not set.
OpenScan(p) ==
  /\ At(p, "open_scan")
  /\ IF at[p] > NFILE THEN Return(p)
     ELSE IF ref[at[p]] = 0 THEN Goto(p, "open_take") /\ UNCHANGED <<at, arg, got>>
     ELSE at' = [at EXCEPT ![p] = @ + 1] /\ UNCHANGED <<pc, arg, got>>
  /\ UNCHANGED <<table, pftable, iref, offset, running, panicked>>

\* The slot that was free when it was tested is taken.
OpenTake(p) ==
  /\ At(p, "open_take")
  /\ ref' = [ref EXCEPT ![at[p]] = 1]
  /\ iptr' = [iptr EXCEPT ![at[p]] = arg[p]]
  /\ pftable' = [pftable EXCEPT ![p][Lowest(FreeFds(p))] = at[p]]
  /\ Return(p)
  /\ UNCHANGED <<isPipe, pos, iref, offset, running, panicked>>

-----------------------------------------------------------------------------
(* close, dup *)

\* fileclose's early returns: not open, or a file without an inode.
Closable(p, fd) ==
  /\ pftable[p][fd] # NULL
  /\ isPipe[pftable[p][fd]] \/ iptr[pftable[p][fd]] # NULL

\* fileclose: the last reference gives up the inode and resets the slot,
\* all but isPipe.
Fileclose(p, fd) ==
  LET s == pftable[p][fd] IN
  /\ ref' = [ref EXCEPT ![s] = IF @ > 1 THEN @ - 1 ELSE 0]
  /\ iref' = IF ref[s] > 1 \/ isPipe[s] THEN iref ELSE [iref EXCEPT ![iptr[s]] = @ - 1]
  /\ iptr' = IF ref[s] > 1 THEN iptr ELSE [iptr EXCEPT ![s] = NULL]
  /\ pos' = IF ref[s] > 1 THEN pos ELSE [pos EXCEPT ![s] = 0]
  /\ pftable' = [pftable EXCEPT ![p][fd] = NULL]

SysClose(p, fd) ==
  /\ At(p, "user") /\ Closable(p, fd)
  /\ Fileclose(p, fd)
  /\ UNCHANGED <<isPipe, offset, running, locals, panicked>>

Filedup(p, fd) ==
  /\ At(p, "user") /\ Closable(p, fd) /\ FreeFds(p) # {}
  /\ pftable' = [pftable EXCEPT ![p][Lowest(FreeFds(p))] = pftable[p][fd]]
  /\ ref' = [ref EXCEPT ![pftable[p][fd]] = @ + 1]
  /\ UNCHANGED <<iptr, isPipe, pos, iref, offset, running, locals, panicked>>

\* filestat passes the inode pointer of a pipe, which is null, on to locki,
\* which panics.  The other outcomes change nothing.
Filestat(p, fd) ==
  /\ At(p, "user") /\ p \in Statters /\ Closable(p, fd)
  /\ iptr[pftable[p][fd]] = NULL
  /\ panicked' = TRUE
  /\ UNCHANGED <<table, pftable, iref, offset, running, locals>>

-----------------------------------------------------------------------------
(* read, of a file *)

\* concurrent_readi, which may sleep: the count goes to the global offset, and
\* so does the -1 with which readi refuses a position above the file's size.
\* A descriptor opened with O_WRONLY is refused before, and nothing changes.
FilereadBegin(p, fd, n) ==
  LET s == pftable[p][fd] IN
  /\ At(p, "user") /\ p \in Readers
  /\ s # NULL /\ ~isPipe[s] /\ iptr[s] # NULL
  /\ IF n = -1 THEN pos[s] > 0 ELSE pos[s] + n <= MaxRead
  /\ offset' = n
  /\ got' = [got EXCEPT ![p] = n]
  /\ arg' = [arg EXCEPT ![p] = s]
  /\ Goto(p, "read_advance")
  /\ UNCHANGED <<table, pftable, iref, running, at, panicked>>

\* The position moves by whatever offset holds by then.
FilereadAdvance(p) ==
  /\ At(p, "read_advance")
  /\ pos' = [pos EXCEPT ![arg[p]] = @ + offset]
  /\ Goto(p, "read_return")
  /\ UNCHANGED <<ref, iptr, isPipe, pftable, iref, offset, running, at, arg, got, panicked>>

\* return offset, which is read once more after the lock is released.
FilereadReturn(p) ==
  /\ At(p, "read_return")
  /\ Return(p)
  /\ UNCHANGED <<table, pftable, iref, offset, running, panicked>>

-----------------------------------------------------------------------------
(* pipe *)

SysPipe(p) ==
  /\ At(p, "user") /\ p \in Pipers
  /\ at' = [at EXCEPT ![p] = 1]
  /\ got' = [got EXCEPT ![p] = 0]
  /\ Goto(p, "pipe_scan")
  /\ UNCHANGED <<table, pftable, iref, offset, running, arg, panicked>>

\* One turn of the loop over ftable; a free slot becomes a pipe.
PipeScan(p) ==
  /\ At(p, "pipe_scan")
  /\ IF at[p] > NFILE THEN Return(p) /\ UNCHANGED isPipe
     ELSE IF ref[at[p]] = 0
     THEN /\ isPipe' = [isPipe EXCEPT ![at[p]] = TRUE]
          /\ Goto(p, "pipe_fds")
          /\ UNCHANGED <<at, arg, got>>
     ELSE at' = [at EXCEPT ![p] = @ + 1] /\ UNCHANGED <<isPipe, pc, arg, got>>
  /\ UNCHANGED <<ref, iptr, pos, pftable, iref, offset, running, panicked>>

\* One of the two descriptors.  got is idx.
PipeFd(p) ==
  /\ At(p, "pipe_fds") /\ got[p] < 2 /\ FreeFds(p) # {}
  /\ pftable' = [pftable EXCEPT ![p][Lowest(FreeFds(p))] = at[p]]
  /\ ref' = [ref EXCEPT ![at[p]] = @ + 1]
  /\ got' = [got EXCEPT ![p] = @ + 1]
  /\ UNCHANGED <<iptr, isPipe, pos, iref, offset, running, pc, at, arg, panicked>>

\* Without two descriptors pipe calls kfree with an address inside ftable,
\* which is below the end of the kernel: kfree panics.
PipeEnd(p) ==
  /\ At(p, "pipe_fds") /\ (got[p] = 2 \/ FreeFds(p) = {})
  /\ IF got[p] < 2
     THEN ref' = [ref EXCEPT ![at[p]] = 0] /\ panicked' = TRUE
     ELSE UNCHANGED <<ref, panicked>>
  /\ Return(p)
  /\ UNCHANGED <<iptr, isPipe, pos, pftable, iref, offset, running>>

-----------------------------------------------------------------------------
(* fork, exit *)

\* fork up to the copying of the descriptors.  The child does not run yet.
ForkBegin(p, c) ==
  /\ At(p, "user") /\ c \in Procs \ running
  /\ \A q \in running : pc[q] = "fork_copy" => arg[q] # c
  /\ arg' = [arg EXCEPT ![p] = c]
  /\ at' = [at EXCEPT ![p] = 0]
  /\ Goto(p, "fork_copy")
  /\ UNCHANGED <<table, pftable, iref, offset, running, got, panicked>>

\* Mutant of ForkCopy: the reference is not counted.
ForkCopyUncounted(p) ==
  /\ At(p, "fork_copy") /\ at[p] \in Fds
  /\ at' = [at EXCEPT ![p] = @ + 1]
  /\ pftable' = [pftable EXCEPT ![arg[p]][at[p]] = pftable[p][at[p]]]
  /\ UNCHANGED <<ref, iptr, isPipe, pos, iref, offset, running, pc, arg, got, panicked>>

\* One turn of fork's loop, under ptable.lock.
ForkCopy(p) ==
  LET s == pftable[p][at[p]] IN
  /\ At(p, "fork_copy") /\ at[p] \in Fds
  /\ at' = [at EXCEPT ![p] = @ + 1]
  /\ IF s = NULL THEN UNCHANGED <<pftable, ref>>
     ELSE /\ pftable' = [pftable EXCEPT ![arg[p]][at[p]] = s]
          /\ ref' = [ref EXCEPT ![s] = @ + 1]
  /\ UNCHANGED <<iptr, isPipe, pos, iref, offset, running, pc, arg, got, panicked>>

ForkEnd(p) ==
  /\ At(p, "fork_copy") /\ at[p] = NOFILE
  /\ running' = running \cup {arg[p]}
  /\ Return(p)
  /\ UNCHANGED <<table, pftable, iref, offset, panicked>>

ExitBegin(p) ==
  /\ At(p, "user")
  /\ at' = [at EXCEPT ![p] = 0]
  /\ Goto(p, "exit_close")
  /\ UNCHANGED <<table, pftable, iref, offset, running, arg, got, panicked>>

\* One turn of exit's loop.
ExitClose(p) ==
  /\ At(p, "exit_close") /\ at[p] \in Fds
  /\ at' = [at EXCEPT ![p] = @ + 1]
  /\ IF Closable(p, at[p]) THEN Fileclose(p, at[p])
     ELSE UNCHANGED <<ref, iptr, pos, pftable, iref>>
  /\ UNCHANGED <<isPipe, offset, running, pc, arg, got, panicked>>

ExitEnd(p) ==
  /\ At(p, "exit_close") /\ at[p] = NOFILE
  /\ running' = running \ {p}
  /\ Return(p)
  /\ UNCHANGED <<table, pftable, iref, offset, panicked>>

Next ==
  \E p \in Procs :
    \/ \E i \in Inodes : SysOpen(p, i)
    \/ OpenLookup(p) \/ OpenScan(p) \/ OpenTake(p)
    \/ \E fd \in Fds : SysClose(p, fd) \/ Filedup(p, fd) \/ Filestat(p, fd)
    \/ \E fd \in Fds, n \in {-1} \cup 1..MaxRead : FilereadBegin(p, fd, n)
    \/ FilereadAdvance(p) \/ FilereadReturn(p)
    \/ SysPipe(p) \/ PipeScan(p) \/ PipeFd(p) \/ PipeEnd(p)
    \/ \E c \in Procs : ForkBegin(p, c)
    \/ ForkCopy(p) \/ ForkEnd(p)
    \/ ExitBegin(p) \/ ExitClose(p) \/ ExitEnd(p)

Spec == Init /\ [][Next]_vars

-----------------------------------------------------------------------------
(* Properties *)

Users(s) == {u \in Procs \X Fds : pftable[u[1]][u[2]] = s}

\* A slot's reference count is the number of descriptors that lead to it,
\* those of a child that fork has not yet finished included: fileclose frees
\* a slot exactly when its last descriptor goes.
RefCount == panicked \/ \A s \in Slots : ref[s] = Cardinality(Users(s))
=============================================================================
