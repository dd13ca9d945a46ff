------------------------------- MODULE Bcache -------------------------------
(***************************************************************************)
(* The buffer cache (kernel/bio.c), its sleep locks (kernel/sleeplock.c)   *)
(* and the disk queue (kernel/ide.c): processes that read and write blocks *)
(* through a few buffers, the disk's interrupts, failing reads, and the    *)
(* reboot that the crashn system call arms.                                *)
(*                                                                         *)
(* What a block holds is a version number; each write makes a new version. *)
(* A critical section of bcache.lock, of a sleep lock's spinlock or of     *)
(* idelock is one action.                                                  *)
(***************************************************************************)
EXTENDS Naturals, Sequences, FiniteSets

CONSTANTS
  Procs,
  Blocks,       \* block numbers
  Bufs,         \* the buffers of the cache
  NoBlock,      \* what a buffer holds after binit: device 0
  MaxVersion,   \* bound of the model: writes of a block
  MaxReboots,   \* bound of the model
  Devices       \* the disks to consider: that of ide.c, where it may report an
                \* error for a read or not, and the memory of memide.c

ASSUME BcacheAssumption ==
  /\ NoBlock \notin Blocks /\ Bufs # {} /\ IsFiniteSet(Bufs) /\ IsFiniteSet(Procs)
  /\ MaxVersion \in Nat /\ MaxReboots \in Nat /\ Devices \subseteq {"ide", "failing", "memory"}

VARIABLES
  device,    \* the disk that the kernel is linked with
  blockno, valid, dirty, data, refcnt, locked,  \* fields of the buffers
  lru,       \* the list, most recently used first
  idequeue,
  disk,      \* the version of each block on the disk
  acked,     \* the newest version of it a returned bread or bwrite has seen
  pc, want,  \* where each process is, and the block it asked for
  mine,      \* the buffer bget has chosen for it
  reboots,
  panicked

bufs == <<blockno, valid, dirty, data, refcnt, locked, lru>>
vars == <<device, bufs, idequeue, disk, acked, pc, want, mine, reboots, panicked>>

\* A process outside the cache has no buffer: a fixed one stands for that.
NoBuf == CHOOSE b \in Bufs : TRUE

\* The list that binit makes of all buffers, in some order.
Listed ==
  CHOOSE s \in [1..Cardinality(Bufs) -> Bufs] : \A b \in Bufs : \E i \in DOMAIN s : s[i] = b

\* The disk image as it was built.
Image == [k \in Blocks |-> 0]

\* binit.
Init ==
  /\ device \in Devices
  /\ blockno = [b \in Bufs |-> NoBlock]
  /\ valid = [b \in Bufs |-> FALSE] /\ dirty = [b \in Bufs |-> FALSE]
  /\ data = [b \in Bufs |-> 0]
  /\ refcnt = [b \in Bufs |-> 0] /\ locked = [b \in Bufs |-> FALSE]
  /\ lru = Listed
  /\ idequeue = <<>>
  /\ pc = [p \in Procs |-> "idle"] /\ want = [p \in Procs |-> NoBlock]
  /\ mine = [p \in Procs |-> NoBuf]
  /\ disk = Image /\ acked = Image
  /\ reboots = 0 /\ panicked = FALSE

At(p, loc) == ~panicked /\ pc[p] = loc
Goto(p, loc) == pc' = [pc EXCEPT ![p] = loc]

\* wakeup: those asleep at loc over buffer b go on at next.
Wakeup(from, b, loc, next) ==
  [p \in Procs |-> IF from[p] = loc /\ mine[p] = b THEN next ELSE from[p]]

-----------------------------------------------------------------------------
(* bget *)

Cached(k) == {b \in Bufs : blockno[b] = k}

Recyclable == {b \in Bufs : refcnt[b] = 0 /\ ~dirty[b]}

\* The scan from the least recently used end: b is the first of S it meets.
LeastRecent(b, S) ==
  \E i \in 1..Len(lru) : lru[i] = b /\ \A j \in (i + 1)..Len(lru) : lru[j] \notin S

\* Mutant of Recycled: B_VALID stays.
RecycledValid(b) == valid

\* flags = 0 for the recycled buffer.
Recycled(b) == [valid EXCEPT ![b] = FALSE]

\* The critical section of bget: the buffer of block k, or the least
\* recently used one that nobody refers to, or a panic.
Bget(p, k) ==
  /\ At(p, "idle")
  /\ want' = [want EXCEPT ![p] = k]
  /\ \/ \E b \in Cached(k) :
          /\ mine' = [mine EXCEPT ![p] = b]
          /\ refcnt' = [refcnt EXCEPT ![b] = @ + 1]
          /\ Goto(p, "lock")
          /\ UNCHANGED <<blockno, valid, panicked>>
     \/ \E b \in Recyclable :
          /\ Cached(k) = {} /\ LeastRecent(b, Recyclable)
          /\ mine' = [mine EXCEPT ![p] = b]
          /\ blockno' = [blockno EXCEPT ![b] = k]
          /\ valid' = Recycled(b)
          /\ refcnt' = [refcnt EXCEPT ![b] = 1]
          /\ Goto(p, "lock")
          /\ UNCHANGED panicked
     \/ /\ Cached(k) = {} /\ Recyclable = {}
        /\ panicked' = TRUE
        /\ UNCHANGED <<mine, blockno, valid, refcnt, pc>>
  /\ UNCHANGED <<dirty, data, locked, lru, idequeue, disk, acked, reboots>>

\* acquiresleep in bget, then bread's test of B_VALID.
Acquiresleep(p) ==
  /\ At(p, "lock") \/ At(p, "lock_woken")
  /\ IF locked[mine[p]] THEN Goto(p, "lock_sleep") /\ UNCHANGED locked
     ELSE /\ locked' = [locked EXCEPT ![mine[p]] = TRUE]
          /\ Goto(p, IF valid[mine[p]] THEN "use" ELSE "iderw")
  /\ UNCHANGED <<blockno, valid, dirty, data, refcnt, lru, idequeue, disk, acked,
                 want, mine, reboots, panicked>>

-----------------------------------------------------------------------------
(* the disk *)

\* iderw: the request goes to the end of the queue, and the process sleeps.
Iderw(p) ==
  /\ At(p, "iderw") /\ device # "memory"
  /\ idequeue' = Append(idequeue, mine[p])
  /\ Goto(p, "io_sleep")
  /\ UNCHANGED <<bufs, disk, acked, want, mine, reboots, panicked>>

\* What the disk does with the request idestart gives it: the data of a dirty
\* buffer go to the block, otherwise the block's come to the buffer. A read
\* that fails leaves the data as they are.
Idestart(b) ==
  \/ dirty[b] /\ disk' = [disk EXCEPT ![blockno[b]] = data[b]] /\ UNCHANGED data
  \/ ~dirty[b] /\ data' = [data EXCEPT ![b] = disk[blockno[b]]] /\ UNCHANGED disk
  \/ ~dirty[b] /\ device = "failing" /\ UNCHANGED <<data, disk>>

\* iderw of memide.c: the disk is memory, and the request is done at once.
MemIderw(p) ==
  LET b == mine[p] IN
  /\ At(p, "iderw") /\ device = "memory"
  /\ \/ dirty[b] /\ disk' = [disk EXCEPT ![blockno[b]] = data[b]] /\ UNCHANGED data
     \/ ~dirty[b] /\ data' = [data EXCEPT ![b] = disk[blockno[b]]] /\ UNCHANGED disk
  /\ valid' = [valid EXCEPT ![b] = TRUE] /\ dirty' = [dirty EXCEPT ![b] = FALSE]
  /\ acked' = [acked EXCEPT ![want[p]] = disk'[want[p]]]
  /\ Goto(p, "use")
  /\ UNCHANGED <<blockno, refcnt, locked, lru, idequeue, want, mine, reboots, panicked>>

\* Mutant of Ideintr: the buffer is served, but nobody is woken.
IdeintrSilent ==
  LET b == Head(idequeue) IN
  /\ ~panicked /\ idequeue # <<>>
  /\ idequeue' = Tail(idequeue)
  /\ Idestart(b)
  /\ valid' = [valid EXCEPT ![b] = TRUE] /\ dirty' = [dirty EXCEPT ![b] = FALSE]
  /\ UNCHANGED <<blockno, refcnt, locked, lru, acked, pc, want, mine, reboots, panicked>>

\* The disk has done the request at the head of the queue and interrupts;
\* the flags change even if the read failed.
Ideintr ==
  LET b == Head(idequeue) IN
  /\ ~panicked /\ idequeue # <<>>
  /\ idequeue' = Tail(idequeue)
  /\ Idestart(b)
  /\ valid' = [valid EXCEPT ![b] = TRUE] /\ dirty' = [dirty EXCEPT ![b] = FALSE]
  /\ pc' = Wakeup(pc, b, "io_sleep", "io_woken")
  /\ UNCHANGED <<blockno, refcnt, locked, lru, acked, want, mine, reboots, panicked>>

\* Mutant of IderwWoken: only B_VALID is tested, so a killed writer returns early.
IderwWokenValid(p) ==
  /\ At(p, "io_woken")
  /\ IF valid[mine[p]]
     THEN Goto(p, "use") /\ acked' = [acked EXCEPT ![want[p]] = data[mine[p]]]
     ELSE Goto(p, "io_sleep") /\ UNCHANGED acked
  /\ UNCHANGED <<bufs, idequeue, disk, want, mine, reboots, panicked>>

\* iderw's loop after a wakeup; then bread or bwrite returns.
IderwWoken(p) ==
  /\ At(p, "io_woken")
  /\ IF valid[mine[p]] /\ ~dirty[mine[p]]
     THEN /\ Goto(p, "use")
          /\ acked' = [acked EXCEPT ![want[p]] = IF @ < data[mine[p]] THEN data[mine[p]] ELSE @]
     ELSE Goto(p, "io_sleep") /\ UNCHANGED acked
  /\ UNCHANGED <<bufs, idequeue, disk, want, mine, reboots, panicked>>

-----------------------------------------------------------------------------
(* use of a buffer *)

\* The holder changes the block and calls bwrite.
Bwrite(p) ==
  /\ At(p, "use") /\ data[mine[p]] < MaxVersion
  /\ data' = [data EXCEPT ![mine[p]] = @ + 1]
  /\ dirty' = [dirty EXCEPT ![mine[p]] = TRUE]
  /\ Goto(p, "iderw")
  /\ UNCHANGED <<blockno, valid, refcnt, locked, lru, idequeue, disk, acked, want,
                 mine, reboots, panicked>>

\* bwrite finds crashn used up and reboots: what is not on the disk is gone
\* (the memory of the buffers keeps its bytes, which no flag calls valid), and
\* the disk of memide.c, a part of the kernel, is loaded anew with it.
BwriteReboot(p) ==
  /\ At(p, "use") /\ reboots < MaxReboots
  /\ reboots' = reboots + 1
  /\ blockno' = [b \in Bufs |-> NoBlock]
  /\ valid' = [b \in Bufs |-> FALSE] /\ dirty' = [b \in Bufs |-> FALSE]
  /\ refcnt' = [b \in Bufs |-> 0] /\ locked' = [b \in Bufs |-> FALSE]
  /\ lru' = Listed
  /\ idequeue' = <<>>
  /\ pc' = [q \in Procs |-> "idle"] /\ want' = [q \in Procs |-> NoBlock]
  /\ mine' = [q \in Procs |-> NoBuf]
  /\ IF device = "memory" THEN disk' = Image /\ acked' = Image ELSE UNCHANGED <<disk, acked>>
  /\ UNCHANGED <<data, panicked>>

\* brelse first gives up the lock: releasesleep wakes all who wait for it.
Releasesleep(p) ==
  /\ At(p, "use")
  /\ locked' = [locked EXCEPT ![mine[p]] = FALSE]
  /\ pc' = [Wakeup(pc, mine[p], "lock_sleep", "lock_woken") EXCEPT ![p] = "unref"]
  /\ UNCHANGED <<blockno, valid, dirty, data, refcnt, lru, idequeue, disk, acked,
                 want, mine, reboots, panicked>>

Dropped(b) == [refcnt EXCEPT ![b] = @ - 1]
ToFront(b) == <<b>> \o SelectSeq(lru, LAMBDA c : c # b)

\* Then it drops the reference; a buffer without references becomes the
\* most recently used.
Brelse(p) ==
  /\ At(p, "unref")
  /\ refcnt' = Dropped(mine[p])
  /\ lru' = IF refcnt'[mine[p]] = 0 THEN ToFront(mine[p]) ELSE lru
  /\ Goto(p, "idle")
  /\ want' = [want EXCEPT ![p] = NoBlock] /\ mine' = [mine EXCEPT ![p] = NoBuf]
  /\ UNCHANGED <<blockno, valid, dirty, data, locked, idequeue, disk, acked, reboots, panicked>>

\* kill wakes a process wherever it sleeps.
Kill(p) ==
  /\ ~panicked
  /\ \/ pc[p] = "lock_sleep" /\ Goto(p, "lock_woken")
     \/ pc[p] = "io_sleep" /\ Goto(p, "io_woken")
  /\ UNCHANGED <<bufs, idequeue, disk, acked, want, mine, reboots, panicked>>

Step(p) ==
  \/ \E k \in Blocks : Bget(p, k)
  \/ Acquiresleep(p) \/ Iderw(p) \/ MemIderw(p) \/ IderwWoken(p)
  \/ Bwrite(p) \/ BwriteReboot(p) \/ Releasesleep(p) \/ Brelse(p) \/ Kill(p)

Next == UNCHANGED device /\ (Ideintr \/ \E p \in Procs : Step(p))

Spec == Init /\ [][Next]_vars

-----------------------------------------------------------------------------
(* Properties *)

\* Whoever uses a buffer uses it alone, it is still that of the block it asked
\* for, although bget lets go of the cache before it waits for the buffer, and it
\* holds what is on the disk, whoever wrote it and through whichever buffer,
\* unless a read may have failed (bget, bread, acquiresleep, iderw).
Coherent ==
  \A p \in Procs : pc[p] = "use" =>
    /\ blockno[mine[p]] = want[p]
    /\ \A q \in Procs : pc[q] = "use" /\ mine[q] = mine[p] => q = p
    /\ device # "failing" => data[mine[p]] = disk[want[p]]

\* When bwrite has returned, the block is on the disk, and stays there
\* across a reboot at any point, unless the disk itself is memory and starts over
\* then.  Not where reads fail: the buffer then keeps the
\* bytes of another block, and what it is written over is lost (ideintr).
Durable == device # "failing" => \A k \in Blocks : acked[k] <= disk[k]

\* Every request that is queued is served, behind all that were before it.
RequestServed == \A p \in Procs : pc[p] = "io_sleep" ~> pc[p] = "use"
=============================================================================
