----------------------------- MODULE BcacheProofs -----------------------------
(***************************************************************************)
(* Proofs about Bcache for any number of processes, blocks and buffers:     *)
(* whoever uses a buffer of the cache uses it alone and sees what is on the *)
(* disk, and what bwrite has returned from is there, across reboots.        *)
(***************************************************************************)
EXTENDS Bcache, TLAPS

\* Inside iderw, from its call to its return.
InIderw == {"iderw", "io_sleep", "io_woken"}

\* With the buffer's sleep lock.
Holding == InIderw \cup {"use"}

Locations == Holding \cup {"idle", "lock", "lock_sleep", "lock_woken", "unref"}

\* Those with a reference to buffer b.
Users(b) == {p \in Procs : pc[p] # "idle" /\ mine[p] = b}

TypeOK ==
  /\ device \in Devices
  /\ blockno \in [Bufs -> Blocks \cup {NoBlock}]
  /\ valid \in [Bufs -> BOOLEAN] /\ dirty \in [Bufs -> BOOLEAN] /\ locked \in [Bufs -> BOOLEAN]
  /\ data \in [Bufs -> Nat] /\ refcnt \in [Bufs -> Nat]
  /\ idequeue \in Seq(Bufs)
  /\ disk \in [Blocks -> Nat] /\ acked \in [Blocks -> Nat]
  /\ pc \in [Procs -> Locations]
  /\ want \in [Procs -> Blocks \cup {NoBlock}] /\ mine \in [Procs -> Bufs]

\* refcnt counts the references, so bget recycles what nobody refers to.
CountInv == \A b \in Bufs : refcnt[b] = Cardinality(Users(b))

\* A buffer stays that of the block its users asked for.
UserInv == \A p \in Procs : pc[p] # "idle" => want[p] \in Blocks /\ blockno[mine[p]] = want[p]

\* A sleep lock has one holder.
LockInv ==
  \A p \in Procs : pc[p] \in Holding =>
    /\ locked[mine[p]]
    /\ \A q \in Procs : pc[q] \in Holding /\ mine[q] = mine[p] => q = p

\* A block is in one buffer.
BlockInv ==
  \A b, c \in Bufs : blockno[b] # NoBlock /\ blockno[b] = blockno[c] => b = c

\* What the flags of a buffer say of its holder.
FlagInv ==
  /\ \A b \in Bufs : valid[b] => blockno[b] \in Blocks
  /\ \A b \in Bufs : dirty[b] => valid[b] /\ \E p \in Procs : pc[p] \in InIderw /\ mine[p] = b
  /\ \A p \in Procs : pc[p] = "use" => valid[mine[p]] /\ ~dirty[mine[p]]
  /\ \A p \in Procs : pc[p] = "iderw" => ~valid[mine[p]] \/ dirty[mine[p]]

\* A buffer is queued once, has something to do, and its holder waits for it.
QueueInv ==
  /\ \A i, j \in DOMAIN idequeue : idequeue[i] = idequeue[j] => i = j
  /\ \A i \in DOMAIN idequeue :
       /\ ~valid[idequeue[i]] \/ dirty[idequeue[i]]
       /\ \E p \in Procs : pc[p] \in {"io_sleep", "io_woken"} /\ mine[p] = idequeue[i]

\* Where no read fails, a valid buffer holds the block, or the next version of it.
DataInv ==
  device # "failing" =>
    \A b \in Bufs : valid[b] =>
      data[b] = IF dirty[b] THEN disk[blockno[b]] + 1 ELSE disk[blockno[b]]

IInv ==
  /\ TypeOK /\ CountInv /\ UserInv /\ LockInv /\ BlockInv /\ FlagInv /\ QueueInv
  /\ DataInv /\ Durable

-------------------------------------------------------------------------------
(* The references, the initial state, and steps that leave the buffers alone *)

\* What counting references needs of Cardinality.  The lemmas assume it, and it is
\* proved before the theorems, from the library, which would burden every proof.
Counting ==
  /\ Cardinality({}) = 0
  /\ \A S \in SUBSET Procs : Cardinality(S) \in Nat /\ (Cardinality(S) = 0 => S = {})
  /\ \A S \in SUBSET Procs : \A p \in Procs \ S : Cardinality(S \cup {p}) = Cardinality(S) + 1
  /\ \A S \in SUBSET Procs : \A p \in S : Cardinality(S \ {p}) = Cardinality(S) - 1

\* A step by which nobody comes to a buffer or leaves one keeps the counts
\* exact (acquiresleep, iderw, releasesleep).
LEMMA CountKept ==
  ASSUME CountInv, refcnt' = refcnt, mine' = mine,
         \A q \in Procs : (pc'[q] = "idle") <=> (pc[q] = "idle")
  PROVE  CountInv'
<1>1. \A b \in Bufs : Users(b)' = Users(b)
  BY DEF Users
<1> QED
  BY <1>1 DEF CountInv

\* A process that goes on, where the others are (proc.c).
LEMMA Moved ==
  ASSUME IInv, NEW p \in Procs, NEW to \in Locations, pc' = [pc EXCEPT ![p] = to]
  PROVE  /\ pc' \in [Procs -> Locations] /\ pc'[p] = to
         /\ \A q \in Procs : q # p => pc'[q] = pc[q]
<1>1. pc \in [Procs -> Locations]
  BY DEF IInv, TypeOK
<1> QED
  BY <1>1

\* The names of the places, and the buffer that each process has.
LEMMA Places ==
  /\ \A x \in {"idle", "lock", "lock_sleep", "lock_woken", "unref"} :
       x \in Locations /\ x \notin Holding /\ x \notin InIderw
  /\ \A x \in {"iderw", "io_sleep", "io_woken"} : x \in Locations /\ x \in Holding /\ x \in InIderw
  /\ "use" \in Locations /\ "use" \in Holding /\ "use" \notin InIderw
BY DEF Locations, Holding, InIderw

\* A process that comes to buffer b is one more of its users (bget).
LEMMA CountMore ==
  ASSUME Counting, TypeOK, CountInv, NEW p \in Procs, NEW b \in Bufs, pc[p] = "idle",
         pc' = [pc EXCEPT ![p] = "lock"], mine' = [mine EXCEPT ![p] = b],
         refcnt' = [refcnt EXCEPT ![b] = Cardinality(Users(b)) + 1]
  PROVE  CountInv'
<1>1. Users(b)' = Users(b) \cup {p} /\ p \notin Users(b)
  BY DEF Users, TypeOK
<1>2. \A c \in Bufs : c # b => Users(c)' = Users(c)
  BY DEF Users, TypeOK
<1>0. Users(b) \in SUBSET Procs
  BY DEF Users
<1>3. Cardinality(Users(b) \cup {p}) = Cardinality(Users(b)) + 1
  BY <1>0, <1>1 DEF Counting
<1>4. refcnt'[b] = Cardinality(Users(b)')
  BY <1>1, <1>3 DEF TypeOK
<1>5. \A c \in Bufs : c # b => refcnt'[c] = Cardinality(Users(c)')
  BY <1>2 DEF TypeOK, CountInv
<1> QED
  BY <1>4, <1>5 DEF CountInv

\* binit: no buffer has a block, and nobody has a buffer.
LEMMA InitInv == ASSUME Counting, Init PROVE IInv
<1>0. NoBuf \in Bufs
  BY BcacheAssumption DEF NoBuf
<1>1. TypeOK
  BY <1>0, BcacheAssumption DEF Init, Image, TypeOK, Locations, Holding, InIderw
<1>2. CountInv
  <2>1. \A b \in Bufs : Users(b) = {}
    BY DEF Init, Users
  <2> QED
    BY <2>1, Zenon DEF Init, CountInv, Counting
<1>3. UserInv /\ LockInv /\ BlockInv /\ FlagInv
  BY DEF Init, UserInv, LockInv, BlockInv, FlagInv, Holding, InIderw
<1>4. QueueInv
  BY DEF Init, QueueInv
<1>5. DataInv /\ Durable
  BY DEF Init, Image, DataInv, Durable
<1> QED
  BY <1>1, <1>2, <1>3, <1>4, <1>5 DEF IInv

\* A step of no process and no disk changes nothing.
LEMMA StutterInv == ASSUME IInv, UNCHANGED vars PROVE IInv'
<1> USE DEF vars, bufs
<1>1. TypeOK'
  BY DEF IInv, TypeOK
<1>2. CountInv'
  BY CountKept DEF IInv
<1>3. UserInv' /\ LockInv' /\ BlockInv' /\ FlagInv'
  BY DEF IInv, UserInv, LockInv, BlockInv, FlagInv
<1>4. QueueInv' /\ DataInv' /\ Durable'
  BY DEF IInv, QueueInv, DataInv, Durable
<1> QED
  BY <1>1, <1>2, <1>3, <1>4 DEF IInv

-------------------------------------------------------------------------------
(* bget *)

\* bget finds block k in a buffer (bget's first loop).
LEMMA BgetCachedInv ==
  ASSUME Counting, IInv, NEW p \in Procs, NEW k \in Blocks, NEW b \in Bufs, pc[p] = "idle",
         blockno[b] = k, want' = [want EXCEPT ![p] = k], mine' = [mine EXCEPT ![p] = b],
         refcnt' = [refcnt EXCEPT ![b] = @ + 1], pc' = [pc EXCEPT ![p] = "lock"],
         UNCHANGED <<device, blockno, valid, dirty, data, locked, idequeue, disk, acked>>
  PROVE  IInv'
<1>1. TypeOK'
  BY DEF IInv, TypeOK, Locations
<1>2. CountInv'
  <2>1. refcnt[b] = Cardinality(Users(b))
    BY DEF IInv, CountInv
  <2>2. refcnt' = [refcnt EXCEPT ![b] = Cardinality(Users(b)) + 1]
    BY <2>1
  <2> QED
    BY <2>2, CountMore, Zenon DEF IInv
<1>3. \A q \in Procs : q # p => pc'[q] = pc[q] /\ mine'[q] = mine[q] /\ want'[q] = want[q]
  BY DEF IInv, TypeOK
<1>4. pc'[p] = "lock" /\ mine'[p] = b /\ want'[p] = k
  BY DEF IInv, TypeOK
<1>5. UserInv'
  BY <1>3, <1>4 DEF IInv, UserInv
<1>6. LockInv'
  BY <1>3, <1>4 DEF IInv, LockInv, Holding, InIderw
<1>7. BlockInv' /\ DataInv' /\ Durable'
  BY DEF IInv, BlockInv, DataInv, Durable
<1>8. FlagInv'
  BY <1>3, <1>4 DEF IInv, FlagInv, InIderw
<1>9. QueueInv'
  BY <1>3, <1>4 DEF IInv, QueueInv
<1> QED
  BY <1>1, <1>2, <1>5, <1>6, <1>7, <1>8, <1>9 DEF IInv

\* bget takes a buffer that nobody refers to for block k (bget's second loop).
LEMMA BgetRecycledInv ==
  ASSUME Counting, IInv, NEW p \in Procs, NEW k \in Blocks, NEW b \in Recyclable, pc[p] = "idle",
         Cached(k) = {}, want' = [want EXCEPT ![p] = k], mine' = [mine EXCEPT ![p] = b],
         blockno' = [blockno EXCEPT ![b] = k], valid' = [valid EXCEPT ![b] = FALSE],
         refcnt' = [refcnt EXCEPT ![b] = 1], pc' = [pc EXCEPT ![p] = "lock"],
         UNCHANGED <<device, dirty, data, locked, idequeue, disk, acked>>
  PROVE  IInv'
<1>0. b \in Bufs /\ refcnt[b] = 0 /\ ~dirty[b]
  BY DEF Recyclable
<1>a. Cardinality(Users(b)) = 0
  BY <1>0 DEF IInv, CountInv
<1>b. Users(b) = {}
  <2>1. Users(b) \in SUBSET Procs
    BY DEF Users
  <2> QED
    BY <1>a, <2>1 DEF Counting
<1>c. \A q \in Procs : pc[q] # "idle" => mine[q] # b
  BY <1>b DEF Users
<1>1. TypeOK'
  BY <1>0 DEF IInv, TypeOK, Locations
<1>2. CountInv'
  <2>1. refcnt' = [refcnt EXCEPT ![b] = Cardinality(Users(b)) + 1]
    BY <1>a
  <2> QED
    BY <1>0, <2>1, CountMore, Zenon DEF IInv
<1>3. \A q \in Procs : q # p => pc'[q] = pc[q] /\ mine'[q] = mine[q] /\ want'[q] = want[q]
  BY DEF IInv, TypeOK
<1>4. pc'[p] = "lock" /\ mine'[p] = b /\ want'[p] = k
  BY DEF IInv, TypeOK
<1>5. blockno'[b] = k /\ ~valid'[b] /\ \A c \in Bufs : c # b => blockno'[c] = blockno[c] /\ valid'[c] = valid[c]
  BY <1>0 DEF IInv, TypeOK
<1>d. \A q \in Procs : mine[q] \in Bufs
  BY DEF IInv, TypeOK
<1>6. UserInv'
  BY <1>3, <1>4, <1>5, <1>c, <1>d DEF IInv, UserInv
<1>7. LockInv'
  BY <1>3, <1>4 DEF IInv, LockInv, Holding, InIderw
<1>8. BlockInv'
  <2>1. \A c \in Bufs : blockno[c] # k
    BY DEF Cached
  <2> QED
    BY <1>0, <1>5, <2>1 DEF IInv, BlockInv
<1>9. FlagInv'
  <2>1. \A c \in Bufs : valid'[c] => blockno'[c] \in Blocks
    BY <1>5 DEF IInv, FlagInv
  <2>2. \A c \in Bufs : dirty'[c] => valid'[c] /\ \E q \in Procs : pc'[q] \in InIderw /\ mine'[q] = c
    BY <1>0, <1>3, <1>5 DEF IInv, FlagInv, InIderw
  <2>3. \A q \in Procs : pc'[q] = "use" => valid'[mine'[q]] /\ ~dirty'[mine'[q]]
    BY <1>3, <1>4, <1>5, <1>c, <1>d DEF IInv, FlagInv
  <2>4. \A q \in Procs : pc'[q] = "iderw" => ~valid'[mine'[q]] \/ dirty'[mine'[q]]
    BY <1>3, <1>4, <1>5, <1>c, <1>d DEF IInv, FlagInv
  <2> QED
    BY <2>1, <2>2, <2>3, <2>4 DEF FlagInv
<1>10. QueueInv'
  <2>1. \A i \in DOMAIN idequeue : idequeue[i] \in Bufs
    BY DEF IInv, TypeOK
  <2>2. \A i \in DOMAIN idequeue : idequeue[i] # b
    BY <1>c DEF IInv, QueueInv
  <2> QED
    BY <1>3, <1>5, <2>1, <2>2 DEF IInv, QueueInv
<1>11. DataInv' /\ Durable'
  BY <1>0, <1>5 DEF IInv, DataInv, Durable
<1> QED
  BY <1>1, <1>2, <1>6, <1>7, <1>8, <1>9, <1>10, <1>11 DEF IInv

\* The critical section of bget keeps the invariant, whichever loop ends it.
LEMMA BgetInv ==
  ASSUME Counting, IInv, UNCHANGED device, NEW p \in Procs, NEW k \in Blocks, Bget(p, k) PROVE IInv'
<1>0. pc[p] = "idle"
  BY DEF Bget, At
<1>1. CASE \E b \in Cached(k) :
             /\ mine' = [mine EXCEPT ![p] = b]
             /\ refcnt' = [refcnt EXCEPT ![b] = @ + 1]
             /\ Goto(p, "lock")
             /\ UNCHANGED <<blockno, valid, panicked>>
  BY <1>0, <1>1, BgetCachedInv, Zenon DEF Bget, Cached, Goto
<1>2. CASE \E b \in Recyclable :
             /\ Cached(k) = {} /\ LeastRecent(b, Recyclable)
             /\ mine' = [mine EXCEPT ![p] = b]
             /\ blockno' = [blockno EXCEPT ![b] = k]
             /\ valid' = Recycled(b)
             /\ refcnt' = [refcnt EXCEPT ![b] = 1]
             /\ Goto(p, "lock")
             /\ UNCHANGED panicked
  BY <1>0, <1>2, BgetRecycledInv, Zenon DEF Bget, Goto, Recycled
<1>3. CASE UNCHANGED <<mine, blockno, valid, refcnt, pc>>
  <2>1. /\ want' = [want EXCEPT ![p] = k]
        /\ UNCHANGED <<device, blockno, valid, dirty, data, refcnt, locked, idequeue, disk, acked, pc, mine>>
    BY <1>3 DEF Bget
  <2>2. TypeOK'
    BY <2>1 DEF IInv, TypeOK
  <2>3. CountInv'
    BY <2>1, CountKept DEF IInv
  <2>4. UserInv'
    BY <1>0, <2>1 DEF IInv, UserInv, TypeOK
  <2>5. LockInv' /\ BlockInv' /\ FlagInv'
    BY <2>1 DEF IInv, LockInv, BlockInv, FlagInv
  <2>6. QueueInv' /\ DataInv' /\ Durable'
    BY <2>1 DEF IInv, QueueInv, DataInv, Durable
  <2> QED
    BY <2>2, <2>3, <2>4, <2>5, <2>6 DEF IInv
<1> QED
  BY <1>1, <1>2, <1>3 DEF Bget

-------------------------------------------------------------------------------
(* steps that only move a process *)

\* A step that takes a process on without a change of hands: it sleeps, wakes
\* or is killed (acquiresleep, iderw, kill).
LEMMA MoveInv ==
  ASSUME IInv, NEW p \in Procs, NEW to \in Locations, pc' = [pc EXCEPT ![p] = to],
         \/ pc[p] \in {"lock", "lock_woken", "lock_sleep"} /\ to \in {"lock_sleep", "lock_woken"}
         \/ pc[p] \in {"io_sleep", "io_woken"} /\ to \in {"io_sleep", "io_woken"},
         UNCHANGED <<device, blockno, valid, dirty, data, refcnt, locked, idequeue, disk, acked, want, mine>>
  PROVE  IInv'
<1>1. TypeOK'
  BY DEF IInv, TypeOK
<1>2. pc'[p] = to /\ \A q \in Procs : q # p => pc'[q] = pc[q]
  BY DEF IInv, TypeOK
<1>3. CountInv'
  BY <1>2, CountKept DEF IInv
<1>4. \A q \in Procs : /\ (pc'[q] = "idle") <=> (pc[q] = "idle")
                       /\ (pc'[q] \in Holding) <=> (pc[q] \in Holding)
                       /\ (pc'[q] \in InIderw) <=> (pc[q] \in InIderw)
                       /\ (pc'[q] = "use") <=> (pc[q] = "use")
                       /\ (pc'[q] = "iderw") <=> (pc[q] = "iderw")
                       /\ (pc'[q] \in {"io_sleep", "io_woken"}) <=> (pc[q] \in {"io_sleep", "io_woken"})
  BY <1>2 DEF Holding, InIderw
<1>5. UserInv'
  BY <1>4 DEF IInv, UserInv
<1>6. LockInv'
  BY <1>4 DEF IInv, LockInv
<1>7. FlagInv'
  BY <1>4 DEF IInv, FlagInv
<1>8. QueueInv'
  BY <1>4 DEF IInv, QueueInv
<1>9. BlockInv' /\ DataInv' /\ Durable'
  BY DEF IInv, BlockInv, DataInv, Durable
<1> QED
  BY <1>1, <1>3, <1>5, <1>6, <1>7, <1>8, <1>9 DEF IInv

\* kill moves a process that sleeps, and nothing else.
LEMMA KillInv ==
  ASSUME IInv, UNCHANGED device, NEW p \in Procs, Kill(p) PROVE IInv'
<1>0. UNCHANGED <<device, blockno, valid, dirty, data, refcnt, locked, idequeue, disk, acked, want, mine>>
  BY DEF Kill, bufs
<1>1. CASE pc[p] = "lock_sleep" /\ Goto(p, "lock_woken")
  BY <1>0, <1>1, MoveInv, Zenon DEF Goto, Locations
<1>2. CASE pc[p] = "io_sleep" /\ Goto(p, "io_woken")
  BY <1>0, <1>2, MoveInv, Zenon DEF Goto, Locations, Holding, InIderw
<1> QED
  BY <1>1, <1>2 DEF Kill

-------------------------------------------------------------------------------
(* the sleep lock *)

\* acquiresleep: a lock that is free has no holder, so the new one is alone, and
\* the buffer is clean.
LEMMA AcquiresleepInv ==
  ASSUME IInv, UNCHANGED device, NEW p \in Procs, Acquiresleep(p) PROVE IInv'
<1>0. /\ pc[p] \in {"lock", "lock_woken"}
      /\ UNCHANGED <<device, blockno, valid, dirty, data, refcnt, idequeue, disk, acked, want, mine>>
  BY DEF Acquiresleep, At
<1>1. CASE locked[mine[p]]
  <2>1. pc' = [pc EXCEPT ![p] = "lock_sleep"] /\ UNCHANGED locked
    BY <1>1 DEF Acquiresleep, Goto
  <2> QED
    BY <1>0, <2>1, MoveInv, Zenon DEF Locations
<1>2. CASE ~locked[mine[p]]
  <2>0. PICK to \in {"use", "iderw"} : /\ pc' = [pc EXCEPT ![p] = to]
                                       /\ to = IF valid[mine[p]] THEN "use" ELSE "iderw"
    BY <1>2 DEF Acquiresleep, Goto
  <2>1. locked' = [locked EXCEPT ![mine[p]] = TRUE]
    BY <1>2 DEF Acquiresleep
  <2>2. mine[p] \in Bufs
    BY DEF IInv, TypeOK
  <2>3. TypeOK'
    BY <1>0, <2>0, <2>1 DEF IInv, TypeOK, Locations, Holding, InIderw
  <2>4. pc'[p] = to /\ \A q \in Procs : q # p => pc'[q] = pc[q]
    BY <2>0 DEF IInv, TypeOK
  <2>5. CountInv'
    BY <1>0, <2>4, CountKept DEF IInv
  <2>6. UserInv'
    BY <1>0, <2>4 DEF IInv, UserInv
  <2>7. \A q \in Procs : pc[q] \in Holding => mine[q] # mine[p]
    BY <1>2 DEF IInv, LockInv
  <2>8. LockInv'
    <3>1. \A b \in Bufs : locked[b] => locked'[b]
      BY <2>1, <2>2 DEF IInv, TypeOK
    <3>2. locked'[mine[p]]
      BY <2>1, <2>2 DEF IInv, TypeOK
    <3>3. \A q \in Procs : mine[q] \in Bufs
      BY DEF IInv, TypeOK
    <3>4. \A q \in Procs : pc'[q] \in Holding => locked'[mine'[q]]
      BY <1>0, <2>4, <3>1, <3>2, <3>3 DEF IInv, LockInv
    <3>5. \A q, r \in Procs : pc'[q] \in Holding /\ pc'[r] \in Holding /\ mine'[r] = mine'[q] => r = q
      BY <1>0, <2>4, <2>7 DEF IInv, LockInv
    <3> QED
      BY <3>4, <3>5 DEF LockInv
  <2>9. ~dirty[mine[p]]
    BY <2>2, <2>7 DEF IInv, FlagInv, Holding
  <2>10. FlagInv'
    <3>1. \A b \in Bufs : dirty[b] => \E q \in Procs : pc'[q] \in InIderw /\ mine[q] = b
      BY <1>0, <2>4 DEF IInv, FlagInv, InIderw
    <3>2. \A q \in Procs : pc'[q] = "use" => valid[mine[q]] /\ ~dirty[mine[q]]
      BY <2>0, <2>4, <2>9 DEF IInv, FlagInv
    <3>3. \A q \in Procs : pc'[q] = "iderw" => ~valid[mine[q]] \/ dirty[mine[q]]
      BY <2>0, <2>4 DEF IInv, FlagInv
    <3> QED
      BY <1>0, <3>1, <3>2, <3>3 DEF IInv, FlagInv
  <2>11. QueueInv'
    BY <1>0, <2>4 DEF IInv, QueueInv
  <2>12. BlockInv' /\ DataInv' /\ Durable'
    BY <1>0 DEF IInv, BlockInv, DataInv, Durable
  <2> QED
    BY <2>3, <2>5, <2>6, <2>8, <2>10, <2>11, <2>12 DEF IInv
<1> QED
  BY <1>1, <1>2

\* releasesleep: the holder was alone, so the lock that is free has none.
LEMMA ReleasesleepInv ==
  ASSUME IInv, UNCHANGED device, NEW p \in Procs, Releasesleep(p) PROVE IInv'
<1>0. /\ pc[p] = "use" /\ locked' = [locked EXCEPT ![mine[p]] = FALSE]
      /\ UNCHANGED <<device, blockno, valid, dirty, data, refcnt, idequeue, disk, acked, want, mine>>
  BY DEF Releasesleep, At
<1>1. /\ pc' \in [Procs -> Locations] /\ pc'[p] = "unref"
      /\ \A q \in Procs : q # p =>
           pc'[q] = IF pc[q] = "lock_sleep" /\ mine[q] = mine[p] THEN "lock_woken" ELSE pc[q]
  BY DEF Releasesleep, Wakeup, IInv, TypeOK, Locations
<1>2. \A q \in Procs : q # p => /\ (pc'[q] = "idle") <=> (pc[q] = "idle")
                                /\ (pc'[q] \in Holding) <=> (pc[q] \in Holding)
                                /\ (pc'[q] \in InIderw) <=> (pc[q] \in InIderw)
                                /\ (pc'[q] = "use") <=> (pc[q] = "use")
                                /\ (pc'[q] = "iderw") <=> (pc[q] = "iderw")
                                /\ (pc'[q] \in {"io_sleep", "io_woken"}) <=> (pc[q] \in {"io_sleep", "io_woken"})
  BY <1>1 DEF Holding, InIderw
<1>3. TypeOK'
  BY <1>0, <1>1, Zenon DEF IInv, TypeOK
<1>4. CountInv'
  BY <1>0, <1>1, <1>2, CountKept DEF IInv
<1>5. UserInv'
  BY <1>0, <1>1, <1>2 DEF IInv, UserInv
<1>6. LockInv'
  <2>1. \A q \in Procs : q # p /\ pc[q] \in Holding => mine[q] # mine[p]
    BY <1>0 DEF IInv, LockInv, Holding
  <2>2. \A b \in Bufs : b # mine[p] => locked'[b] = locked[b]
    BY <1>0 DEF IInv, TypeOK
  <2>3. pc'[p] \notin Holding
    BY <1>1 DEF Holding, InIderw
  <2>4. \A q \in Procs : mine[q] \in Bufs
    BY DEF IInv, TypeOK
  <2> QED
    BY <1>0, <1>2, <2>1, <2>2, <2>3, <2>4 DEF IInv, LockInv
<1>7. FlagInv'
  <2>1. \A b \in Bufs : dirty[b] => \E q \in Procs : pc'[q] \in InIderw /\ mine[q] = b
    BY <1>0, <1>2 DEF IInv, FlagInv, InIderw
  <2> QED
    BY <1>0, <1>1, <1>2, <2>1 DEF IInv, FlagInv
<1>8. QueueInv'
  BY <1>0, <1>2 DEF IInv, QueueInv
<1>9. BlockInv' /\ DataInv' /\ Durable'
  BY <1>0 DEF IInv, BlockInv, DataInv, Durable
<1> QED
  BY <1>3, <1>4, <1>5, <1>6, <1>7, <1>8, <1>9 DEF IInv

\* brelse drops one reference, and its process has no buffer any more.
LEMMA BrelseInv ==
  ASSUME Counting, IInv, UNCHANGED device, NEW p \in Procs, Brelse(p) PROVE IInv'
<1>b. PICK b \in Bufs : b = mine[p]
  BY DEF IInv, TypeOK
<1>0. /\ pc[p] = "unref" /\ pc' = [pc EXCEPT ![p] = "idle"]
      /\ refcnt' = [refcnt EXCEPT ![b] = refcnt[b] - 1]
      /\ want' = [want EXCEPT ![p] = NoBlock] /\ mine' = [mine EXCEPT ![p] = NoBuf]
      /\ UNCHANGED <<device, blockno, valid, dirty, data, locked, idequeue, disk, acked>>
  BY <1>b DEF Brelse, At, Goto, Dropped
<1>n. NoBuf \in Bufs
  BY BcacheAssumption DEF NoBuf
<1>1. pc'[p] = "idle" /\ \A q \in Procs : q # p => pc'[q] = pc[q] /\ mine'[q] = mine[q] /\ want'[q] = want[q]
  BY <1>0 DEF IInv, TypeOK
<1>2. CountInv' /\ refcnt' \in [Bufs -> Nat]
  <2>1. p \in Users(b) /\ Users(b)' = Users(b) \ {p}
    BY <1>0, <1>1, <1>b DEF Users, IInv, TypeOK
  <2>2. \A c \in Bufs : c # b => Users(c)' = Users(c)
    BY <1>0, <1>1, <1>b DEF Users, IInv, TypeOK
  <2>3. /\ Cardinality(Users(b) \ {p}) = Cardinality(Users(b)) - 1
        /\ Cardinality(Users(b) \ {p}) \in Nat
    <3>1. Users(b) \in SUBSET Procs /\ Users(b) \ {p} \in SUBSET Procs
      BY DEF Users
    <3> QED
      BY <2>1, <3>1 DEF Counting
  <2>4. refcnt[b] = Cardinality(Users(b))
    BY DEF IInv, CountInv
  <2>5. refcnt'[b] = Cardinality(Users(b)') /\ refcnt'[b] \in Nat
    BY <1>0, <2>1, <2>3, <2>4 DEF IInv, TypeOK
  <2>6. \A c \in Bufs : c # b => refcnt'[c] = refcnt[c] /\ refcnt[c] = Cardinality(Users(c)')
    BY <1>0, <2>2 DEF IInv, TypeOK, CountInv
  <2>7. refcnt' \in [Bufs -> Nat]
    BY <1>0, <2>5, <2>6 DEF IInv, TypeOK
  <2> QED
    BY <2>5, <2>6, <2>7 DEF CountInv
<1>3. TypeOK'
  BY <1>0, <1>2, <1>n, Zenon DEF IInv, TypeOK, Locations
<1>4. UserInv'
  BY <1>0, <1>1 DEF IInv, UserInv
<1>5. LockInv'
  BY <1>0, <1>1 DEF IInv, LockInv, Holding, InIderw
<1>6. FlagInv'
  BY <1>0, <1>1 DEF IInv, FlagInv, InIderw
<1>7. QueueInv'
  BY <1>0, <1>1 DEF IInv, QueueInv
<1>8. BlockInv' /\ DataInv' /\ Durable'
  BY <1>0 DEF IInv, BlockInv, DataInv, Durable
<1> QED
  BY <1>2, <1>3, <1>4, <1>5, <1>6, <1>7, <1>8 DEF IInv

-------------------------------------------------------------------------------
(* the disk *)

\* iderw: the holder's buffer is not queued yet, because who has one queued waits.
LEMMA IderwInv ==
  ASSUME IInv, UNCHANGED device, NEW p \in Procs, Iderw(p) PROVE IInv'
<1>b. PICK b \in Bufs : b = mine[p]
  BY Zenon DEF IInv, TypeOK
<1>0. /\ pc[p] = "iderw" /\ pc' = [pc EXCEPT ![p] = "io_sleep"]
      /\ idequeue' = Append(idequeue, b)
      /\ UNCHANGED <<device, blockno, valid, dirty, data, refcnt, locked, disk, acked, want, mine>>
  BY <1>b DEF Iderw, At, Goto, bufs
<1>1. pc'[p] = "io_sleep" /\ \A q \in Procs : q # p => pc'[q] = pc[q]
  BY <1>0 DEF IInv, TypeOK
<1>2. TypeOK'
  BY <1>0 DEF IInv, TypeOK, Locations, Holding, InIderw
<1>3. CountInv'
  BY <1>0, <1>1, CountKept DEF IInv
<1>4. UserInv'
  BY <1>0, <1>1 DEF IInv, UserInv
<1>5. LockInv'
  BY <1>0, <1>1 DEF IInv, LockInv, Holding, InIderw
<1>6. FlagInv'
  <2>1. \A c \in Bufs : dirty[c] => \E q \in Procs : pc'[q] \in InIderw /\ mine[q] = c
    BY <1>1, Places DEF IInv, FlagInv
  <2> QED
    BY <1>0, <1>1, <2>1 DEF IInv, FlagInv
<1>7. QueueInv'
  <2>1. \A q \in Procs : q # p /\ pc[q] \in {"io_sleep", "io_woken"} => mine[q] # b
    BY <1>0, <1>b, Zenon DEF IInv, LockInv, Holding, InIderw
  <2>a. \A i \in DOMAIN idequeue : idequeue[i] # b
    <3>1. \A i \in DOMAIN idequeue :
            \E q \in Procs : pc[q] \in {"io_sleep", "io_woken"} /\ mine[q] = idequeue[i]
      BY DEF IInv, QueueInv
    <3>2. pc[p] \notin {"io_sleep", "io_woken"}
      BY <1>0
    <3> QED
      BY <2>1, <3>1, <3>2
  <2>2. \A i \in 1..Len(idequeue) : idequeue[i] # b
    BY <2>a DEF IInv, TypeOK
  <2>3. /\ Len(idequeue) \in Nat /\ DOMAIN idequeue = 1..Len(idequeue)
        /\ DOMAIN idequeue' = 1..(Len(idequeue) + 1)
        /\ idequeue'[Len(idequeue) + 1] = b
        /\ \A i \in 1..Len(idequeue) : idequeue'[i] = idequeue[i]
    BY <1>0 DEF IInv, TypeOK
  <2>4. \A i, j \in DOMAIN idequeue' : idequeue'[i] = idequeue'[j] => i = j
    BY <2>2, <2>3 DEF IInv, QueueInv
  <2>5. ~valid[b] \/ dirty[b]
    BY <1>0, <1>b DEF IInv, FlagInv
  <2>6. \A i \in 1..Len(idequeue) :
          /\ ~valid'[idequeue'[i]] \/ dirty'[idequeue'[i]]
          /\ \E q \in Procs : pc'[q] \in {"io_sleep", "io_woken"} /\ mine'[q] = idequeue'[i]
    BY <1>0, <1>1, <2>3 DEF IInv, QueueInv
  <2>7. LET i == Len(idequeue) + 1 IN
          /\ ~valid'[idequeue'[i]] \/ dirty'[idequeue'[i]]
          /\ \E q \in Procs : pc'[q] \in {"io_sleep", "io_woken"} /\ mine'[q] = idequeue'[i]
    BY <1>0, <1>1, <1>b, <2>3, <2>5
  <2>8. \A i \in DOMAIN idequeue' : i \in 1..Len(idequeue) \/ i = Len(idequeue) + 1
    BY <2>3
  <2> QED
    BY <2>4, <2>6, <2>7, <2>8, Zenon DEF QueueInv
<1>8. BlockInv' /\ DataInv' /\ Durable'
  BY <1>0 DEF IInv, BlockInv, DataInv, Durable
<1> QED
  BY <1>2, <1>3, <1>4, <1>5, <1>6, <1>7, <1>8 DEF IInv

\* iderw after a wakeup: either the request is done, and the buffer that is
\* valid and clean holds what is on the disk, or the process sleeps again.
LEMMA IderwWokenInv ==
  ASSUME IInv, UNCHANGED device, NEW p \in Procs, IderwWoken(p) PROVE IInv'
<1>b. PICK b \in Bufs, k \in Blocks : b = mine[p] /\ k = want[p] /\ blockno[b] = k
  BY Zenon DEF IderwWoken, At, IInv, TypeOK, UserInv
<1>0. /\ pc[p] = "io_woken"
      /\ UNCHANGED <<device, blockno, valid, dirty, data, refcnt, locked, idequeue, disk, want, mine>>
  BY Zenon DEF IderwWoken, At, bufs
<1>1. CASE ~(valid[b] /\ ~dirty[b])
  <2>1. pc' = [pc EXCEPT ![p] = "io_sleep"] /\ UNCHANGED acked
    BY <1>b, <1>1 DEF IderwWoken, Goto
  <2> QED
    BY <1>0, <2>1, MoveInv, Zenon DEF Locations, Holding, InIderw
<1>2. CASE valid[b] /\ ~dirty[b]
  <2>0. /\ pc' = [pc EXCEPT ![p] = "use"]
        /\ acked' = [acked EXCEPT ![k] = IF acked[k] < data[b] THEN data[b] ELSE acked[k]]
    BY <1>b, <1>2 DEF IderwWoken, Goto
  <2>1. pc'[p] = "use" /\ \A q \in Procs : q # p => pc'[q] = pc[q]
    BY <2>0 DEF IInv, TypeOK
  <2>2. TypeOK'
    BY <1>0, <2>0, Zenon DEF IInv, TypeOK, Locations, Holding
  <2>3. CountInv'
    BY <1>0, <2>1, CountKept, Zenon DEF IInv
  <2>4. UserInv'
    BY <1>0, <2>1 DEF IInv, UserInv
  <2>5. LockInv'
    BY <1>0, <2>1 DEF IInv, LockInv, Holding, InIderw
  <2>6. FlagInv'
    <3>1. ASSUME NEW c \in Bufs, dirty[c] PROVE \E q \in Procs : pc'[q] \in InIderw /\ mine[q] = c
      <4>1. PICK q \in Procs : pc[q] \in InIderw /\ mine[q] = c
        BY <3>1, Zenon DEF IInv, FlagInv
      <4>2. q # p
        BY <1>b, <1>2, <3>1, <4>1, Zenon
      <4> QED
        BY <2>1, <4>1, <4>2, Zenon
    <3> QED
      BY <1>0, <1>b, <1>2, <2>1, <3>1, Zenon DEF IInv, FlagInv
  <2>7. QueueInv'
    <3>1. \A i \in DOMAIN idequeue : idequeue[i] # b
      BY <1>2 DEF IInv, QueueInv
    <3>2. ASSUME NEW i \in DOMAIN idequeue
          PROVE  \E q \in Procs : pc'[q] \in {"io_sleep", "io_woken"} /\ mine[q] = idequeue[i]
      <4>1. PICK q \in Procs : pc[q] \in {"io_sleep", "io_woken"} /\ mine[q] = idequeue[i]
        BY Zenon DEF IInv, QueueInv
      <4>2. q # p
        BY <1>b, <3>1, <4>1, Zenon
      <4> QED
        BY <2>1, <4>1, <4>2, Zenon
    <3> QED
      BY <1>0, <3>2, Zenon DEF IInv, QueueInv
  <2>8. BlockInv' /\ DataInv'
    BY <1>0 DEF IInv, BlockInv, DataInv
  <2>9. Durable'
    <3>1. device # "failing" => data[b] = disk[k]
      BY <1>b, <1>2 DEF IInv, DataInv
    <3>2. \A h \in Blocks : acked'[h] = IF h = k /\ acked[k] < data[b] THEN data[b] ELSE acked[h]
      BY <2>0 DEF IInv, TypeOK
    <3>3. disk \in [Blocks -> Nat] /\ acked \in [Blocks -> Nat] /\ data[b] \in Nat
      BY DEF IInv, TypeOK
    <3> QED
      BY <1>0, <3>1, <3>2, <3>3 DEF IInv, Durable
  <2> QED
    BY <2>2, <2>3, <2>4, <2>5, <2>6, <2>7, <2>8, <2>9 DEF IInv
<1> QED
  BY <1>1, <1>2

\* bwrite: the holder's buffer becomes the next version of its block.
LEMMA BwriteInv ==
  ASSUME IInv, UNCHANGED device, NEW p \in Procs, Bwrite(p) PROVE IInv'
<1>b. PICK b \in Bufs : b = mine[p]
  BY DEF IInv, TypeOK
<1>0. /\ pc[p] = "use" /\ pc' = [pc EXCEPT ![p] = "iderw"]
      /\ data' = [data EXCEPT ![b] = data[b] + 1] /\ dirty' = [dirty EXCEPT ![b] = TRUE]
      /\ UNCHANGED <<device, blockno, valid, refcnt, locked, idequeue, disk, acked, want, mine>>
  BY <1>b DEF Bwrite, At, Goto
<1>1. pc'[p] = "iderw" /\ \A q \in Procs : q # p => pc'[q] = pc[q]
  BY <1>0 DEF IInv, TypeOK
<1>2. TypeOK'
  <2>1. data' \in [Bufs -> Nat] /\ dirty' \in [Bufs -> BOOLEAN]
    BY <1>0 DEF IInv, TypeOK
  <2>2. pc' \in [Procs -> Locations]
    BY <1>0, Moved, Places, Zenon
  <2> QED
    BY <1>0, <2>1, <2>2, Zenon DEF IInv, TypeOK
<1>3. CountInv'
  BY <1>0, <1>1, CountKept DEF IInv
<1>4. UserInv'
  BY <1>0, <1>1, Zenon DEF IInv, UserInv
<1>5. LockInv'
  BY <1>0, <1>1 DEF IInv, LockInv, Holding, InIderw
<1>6. /\ dirty'[b] /\ data'[b] = data[b] + 1 /\ valid[b] /\ ~dirty[b]
      /\ \A c \in Bufs : c # b => dirty'[c] = dirty[c] /\ data'[c] = data[c]
  BY <1>0, <1>b, Zenon DEF IInv, TypeOK, FlagInv
<1>7. FlagInv'
  <2>1. \A c \in Bufs : dirty'[c] => valid[c] /\ \E q \in Procs : pc'[q] \in InIderw /\ mine[q] = c
    BY <1>0, <1>1, <1>6, <1>b DEF IInv, FlagInv, InIderw
  <2>2. \A q \in Procs : q # p /\ pc[q] \in Holding => mine[q] # b /\ mine[q] \in Bufs
    BY <1>0, <1>b DEF IInv, LockInv, Holding, TypeOK
  <2>3. \A q \in Procs : pc'[q] = "use" => valid[mine[q]] /\ ~dirty'[mine[q]]
    BY <1>1, <1>6, <2>2 DEF IInv, FlagInv, Holding
  <2>4. \A q \in Procs : pc'[q] = "iderw" => ~valid[mine[q]] \/ dirty'[mine[q]]
    BY <1>1, <1>6, <1>b, <2>2 DEF IInv, FlagInv, Holding, InIderw
  <2> QED
    BY <1>0, <2>1, <2>3, <2>4, Zenon DEF IInv, FlagInv
<1>8. QueueInv'
  <2>1. \A i \in DOMAIN idequeue : idequeue[i] \in Bufs /\ idequeue[i] # b
    BY <1>6 DEF IInv, QueueInv, TypeOK
  <2>2. \A i \in DOMAIN idequeue :
          \E q \in Procs : pc'[q] \in {"io_sleep", "io_woken"} /\ mine[q] = idequeue[i]
    BY <1>0, <1>1 DEF IInv, QueueInv
  <2>3. \A i \in DOMAIN idequeue : ~valid[idequeue[i]] \/ dirty'[idequeue[i]]
    BY <1>6, <2>1 DEF IInv, QueueInv
  <2> QED
    BY <1>0, <2>2, <2>3, Zenon DEF IInv, QueueInv
<1>9. DataInv'
  <2>1. device' = device /\ valid' = valid /\ blockno' = blockno /\ disk' = disk
    BY <1>0, Zenon
  <2>2. device # "failing" => data[b] = disk[blockno[b]]
    BY <1>6, Zenon DEF IInv, DataInv
  <2> QED
    BY <1>6, <2>1, <2>2 DEF IInv, DataInv
<1>10. BlockInv' /\ Durable'
  BY <1>0 DEF IInv, BlockInv, Durable
<1> QED
  BY <1>2, <1>3, <1>4, <1>5, <1>7, <1>8, <1>9, <1>10 DEF IInv

\* The reboot in bwrite: the disk stays or is as new, and no buffer is valid.
LEMMA BwriteRebootInv ==
  ASSUME Counting, IInv, UNCHANGED device, NEW p \in Procs, BwriteReboot(p) PROVE IInv'
<1>0. NoBuf \in Bufs
  BY BcacheAssumption DEF NoBuf
<1>1. TypeOK'
  <2>1. disk' \in [Blocks -> Nat] /\ acked' \in [Blocks -> Nat]
    BY DEF IInv, TypeOK, BwriteReboot, Image
  <2> QED
    <3>1. /\ blockno' \in [Bufs -> Blocks \cup {NoBlock}] /\ valid' \in [Bufs -> BOOLEAN]
          /\ dirty' \in [Bufs -> BOOLEAN] /\ locked' \in [Bufs -> BOOLEAN] /\ refcnt' \in [Bufs -> Nat]
      BY DEF BwriteReboot
    <3>2. /\ pc' \in [Procs -> Locations] /\ want' \in [Procs -> Blocks \cup {NoBlock}]
          /\ mine' \in [Procs -> Bufs] /\ idequeue' \in Seq(Bufs)
      BY <1>0, Places DEF BwriteReboot
    <3>3. data' = data
      BY DEF BwriteReboot
    <3> QED
      BY <2>1, <3>1, <3>2, <3>3, Zenon DEF IInv, TypeOK
<1>2. CountInv'
  <2>1. \A b \in Bufs : Users(b)' = {}
    BY DEF BwriteReboot, Users
  <2>2. \A b \in Bufs : refcnt'[b] = 0
    BY DEF BwriteReboot
  <2> QED
    BY <2>1, <2>2, Zenon DEF CountInv, Counting
<1>3. UserInv' /\ LockInv' /\ BlockInv' /\ FlagInv'
  BY DEF BwriteReboot, UserInv, LockInv, BlockInv, FlagInv, Holding, InIderw
<1>4. QueueInv'
  BY DEF BwriteReboot, QueueInv
<1>5. DataInv'
  BY DEF BwriteReboot, DataInv
<1>6. Durable'
  <2>1. \/ disk' = Image /\ acked' = Image
        \/ disk' = disk /\ acked' = acked
    BY DEF BwriteReboot
  <2> QED
    BY <2>1 DEF IInv, Durable, Image
<1> QED
  BY <1>1, <1>2, <1>3, <1>4, <1>5, <1>6 DEF IInv

-------------------------------------------------------------------------------
(* a request that is served *)

\* A request that the disk has done for buffer b, and the flags set after it: the
\* disk's blocks only get newer, and b holds its block (idestart, ideintr, and
\* iderw of memide.c).
LEMMA ServedData ==
  ASSUME IInv, NEW b \in Bufs, blockno[b] \in Blocks, device # "failing",
         \/ dirty[b] /\ disk' = [disk EXCEPT ![blockno[b]] = data[b]] /\ UNCHANGED data
         \/ ~dirty[b] /\ data' = [data EXCEPT ![b] = disk[blockno[b]]] /\ UNCHANGED disk,
         valid' = [valid EXCEPT ![b] = TRUE], dirty' = [dirty EXCEPT ![b] = FALSE],
         UNCHANGED <<device, blockno>>
  PROVE  DataInv' /\ \A k \in Blocks : disk[k] <= disk'[k]
<1>0. /\ disk \in [Blocks -> Nat] /\ data \in [Bufs -> Nat]
      /\ valid \in [Bufs -> BOOLEAN] /\ dirty \in [Bufs -> BOOLEAN]
  BY DEF IInv, TypeOK
<1>1. ~dirty'[b] /\ \A c \in Bufs : c # b => dirty'[c] = dirty[c] /\ valid'[c] = valid[c]
  BY <1>0
<1>2. \A c \in Bufs : c # b /\ valid[c] => blockno[c] \in Blocks /\ blockno[c] # blockno[b]
  BY BcacheAssumption DEF IInv, FlagInv, BlockInv
<1>3. CASE dirty[b] /\ disk' = [disk EXCEPT ![blockno[b]] = data[b]] /\ UNCHANGED data
  <2>1. data[b] = disk[blockno[b]] + 1
    BY <1>3 DEF IInv, DataInv, FlagInv
  <2>2. disk'[blockno[b]] = data[b] /\ \A k \in Blocks : k # blockno[b] => disk'[k] = disk[k]
    BY <1>0, <1>3
  <2>3. \A k \in Blocks : disk[k] <= disk'[k]
    BY <1>0, <2>1, <2>2
  <2>4. \A c \in Bufs : c # b /\ valid[c] => disk'[blockno[c]] = disk[blockno[c]]
    BY <1>2, <2>2
  <2> QED
    BY <1>1, <1>3, <2>2, <2>3, <2>4 DEF IInv, DataInv
<1>4. CASE ~dirty[b] /\ data' = [data EXCEPT ![b] = disk[blockno[b]]] /\ UNCHANGED disk
  <2>1. data'[b] = disk[blockno[b]] /\ \A c \in Bufs : c # b => data'[c] = data[c]
    BY <1>0, <1>4
  <2>2. \A k \in Blocks : disk[k] <= disk'[k]
    BY <1>0, <1>4
  <2> QED
    BY <1>1, <1>4, <2>1, <2>2 DEF IInv, DataInv
<1> QED
  BY <1>3, <1>4

\* ideintr: the buffer at the head is in the queue once, so those behind it still
\* have something to do when its flags say that it is done.
LEMMA IdeintrInv ==
  ASSUME IInv, UNCHANGED device, Ideintr PROVE IInv'
<1>b. PICK b \in Bufs : b = idequeue[1]
  BY DEF Ideintr, IInv, TypeOK
<1>q. /\ Len(idequeue) \in Nat \ {0} /\ DOMAIN idequeue = 1..Len(idequeue)
      /\ Head(idequeue) = b /\ idequeue' \in Seq(Bufs)
      /\ DOMAIN idequeue' = 1..(Len(idequeue) - 1)
      /\ \A i \in 1..(Len(idequeue) - 1) : idequeue'[i] = idequeue[i + 1]
  BY <1>b DEF Ideintr, IInv, TypeOK
<1>0. /\ Idestart(b)
      /\ valid' = [valid EXCEPT ![b] = TRUE] /\ dirty' = [dirty EXCEPT ![b] = FALSE]
      /\ pc' = [q \in Procs |-> IF pc[q] = "io_sleep" /\ mine[q] = b THEN "io_woken" ELSE pc[q]]
      /\ UNCHANGED <<device, blockno, refcnt, locked, acked, want, mine>>
  BY <1>q, Zenon DEF Ideintr, Wakeup
<1>p. PICK p \in Procs : pc[p] \in {"io_sleep", "io_woken"} /\ mine[p] = b
  BY <1>b, <1>q DEF IInv, QueueInv
<1>k. blockno[b] \in Blocks
  BY <1>p DEF IInv, UserInv
<1>1. \A q \in Procs : /\ (pc'[q] = "idle") <=> (pc[q] = "idle")
                       /\ (pc'[q] \in Holding) <=> (pc[q] \in Holding)
                       /\ (pc'[q] \in InIderw) <=> (pc[q] \in InIderw)
                       /\ (pc'[q] = "use") <=> (pc[q] = "use")
                       /\ (pc'[q] = "iderw") <=> (pc[q] = "iderw")
                       /\ (pc'[q] \in {"io_sleep", "io_woken"}) <=> (pc[q] \in {"io_sleep", "io_woken"})
  BY <1>0 DEF Holding, InIderw
<1>2. TypeOK'
  <2>0. data \in [Bufs -> Nat] /\ disk \in [Blocks -> Nat]
    BY DEF IInv, TypeOK
  <2>a. data[b] \in Nat /\ disk[blockno[b]] \in Nat
    BY <1>k, <2>0
  <2>b. \/ disk' = [disk EXCEPT ![blockno[b]] = data[b]] /\ data' = data
        \/ data' = [data EXCEPT ![b] = disk[blockno[b]]] /\ disk' = disk
        \/ data' = data /\ disk' = disk
    BY <1>0 DEF Idestart
  <2>1. data' \in [Bufs -> Nat] /\ disk' \in [Blocks -> Nat]
    BY <2>0, <2>a, <2>b
  <2>2. pc' \in [Procs -> Locations]
    BY <1>0 DEF IInv, TypeOK, Locations, Holding, InIderw
  <2> QED
    BY <1>0, <1>q, <2>1, <2>2, Zenon DEF IInv, TypeOK
<1>3. CountInv'
  BY <1>0, <1>1, CountKept DEF IInv
<1>4. UserInv'
  BY <1>0, <1>1 DEF IInv, UserInv
<1>5. LockInv'
  BY <1>0, <1>1, Zenon DEF IInv, LockInv
<1>6. BlockInv'
  BY <1>0 DEF IInv, BlockInv
<1>7. valid'[b] /\ ~dirty'[b] /\ \A c \in Bufs : c # b => valid'[c] = valid[c] /\ dirty'[c] = dirty[c]
  BY <1>0 DEF IInv, TypeOK
<1>8. FlagInv'
  <2>0. \A q \in Procs : mine[q] \in Bufs
    BY DEF IInv, TypeOK
  <2>1. \A c \in Bufs : valid'[c] => blockno'[c] \in Blocks
    BY <1>0, <1>7, <1>k, Zenon DEF IInv, FlagInv
  <2>2. \A c \in Bufs : dirty'[c] => valid'[c] /\ \E q \in Procs : pc'[q] \in InIderw /\ mine'[q] = c
    <3>1. mine' = mine /\ \A c \in Bufs : dirty'[c] => dirty[c] /\ valid'[c] = valid[c]
      BY <1>0, <1>7, Zenon
    <3> QED
      BY <1>1, <3>1 DEF IInv, FlagInv
  <2>3. \A q \in Procs : pc'[q] = "use" => valid'[mine'[q]] /\ ~dirty'[mine'[q]]
    BY <1>0, <1>1, <1>7, <2>0 DEF IInv, FlagInv
  <2>4. \A q \in Procs : pc[q] = "iderw" => mine[q] # b
    BY <1>p, Zenon DEF IInv, LockInv, Holding, InIderw
  <2>5. \A q \in Procs : pc'[q] = "iderw" => ~valid'[mine'[q]] \/ dirty'[mine'[q]]
    <3>1. mine' = mine /\ \A q \in Procs : pc'[q] = "iderw" => pc[q] = "iderw" /\ mine[q] # b
      BY <1>0, <1>1, <2>4, Zenon
    <3>2. \A q \in Procs : pc[q] = "iderw" => ~valid[mine[q]] \/ dirty[mine[q]]
      BY Zenon DEF IInv, FlagInv
    <3> QED
      BY <1>7, <2>0, <3>1, <3>2
  <2> QED
    BY <2>1, <2>2, <2>3, <2>5 DEF FlagInv
<1>9. QueueInv'
  <2>1. \A i \in 1..(Len(idequeue) - 1) : i + 1 \in DOMAIN idequeue /\ 1 \in DOMAIN idequeue /\ i + 1 # 1
    BY <1>q
  <2>2. \A i \in 1..(Len(idequeue) - 1) : idequeue[i + 1] \in Bufs /\ idequeue[i + 1] # b
    BY <1>b, <2>1 DEF IInv, QueueInv, TypeOK
  <2>3. \A i, j \in 1..(Len(idequeue) - 1) : idequeue'[i] = idequeue'[j] => i = j
    <3>1. \A i, j \in 1..(Len(idequeue) - 1) : idequeue[i + 1] = idequeue[j + 1] => i + 1 = j + 1
      BY <2>1, Zenon DEF IInv, QueueInv
    <3> QED
      BY <1>q, <3>1
  <2>4. \A i \in 1..(Len(idequeue) - 1) :
          /\ ~valid'[idequeue'[i]] \/ dirty'[idequeue'[i]]
          /\ \E q \in Procs : pc'[q] \in {"io_sleep", "io_woken"} /\ mine'[q] = idequeue'[i]
    <3>1. mine' = mine
      BY <1>0, Zenon
    <3>2. \A i \in 1..(Len(idequeue) - 1) :
            /\ ~valid[idequeue[i + 1]] \/ dirty[idequeue[i + 1]]
            /\ \E q \in Procs : pc[q] \in {"io_sleep", "io_woken"} /\ mine[q] = idequeue[i + 1]
      BY <2>1, Zenon DEF IInv, QueueInv
    <3> QED
      BY <1>1, <1>7, <1>q, <2>2, <3>1, <3>2
  <2> QED
    BY <1>q, <2>3, <2>4 DEF QueueInv
<1>10. DataInv' /\ Durable'
  <2>1. CASE device = "failing"
    BY <1>0, <2>1 DEF DataInv, Durable
  <2>2. CASE device # "failing"
    <3>1. \/ dirty[b] /\ disk' = [disk EXCEPT ![blockno[b]] = data[b]] /\ UNCHANGED data
          \/ ~dirty[b] /\ data' = [data EXCEPT ![b] = disk[blockno[b]]] /\ UNCHANGED disk
      BY <1>0, <2>2, Zenon DEF Idestart
    <3>2. DataInv' /\ \A k \in Blocks : disk[k] <= disk'[k]
      BY <1>0, <1>k, <2>2, <3>1, ServedData, Zenon
    <3>3. \A k \in Blocks : acked[k] <= disk[k] /\ acked[k] \in Nat /\ disk[k] \in Nat /\ disk'[k] \in Nat
      BY <1>2, <2>2 DEF IInv, Durable, TypeOK
    <3>4. \A k \in Blocks : acked'[k] <= disk'[k]
      BY <1>0, <3>2, <3>3
    <3> QED
      BY <3>2, <3>4 DEF Durable
  <2> QED
    BY <2>1, <2>2
<1> QED
  BY <1>2, <1>3, <1>4, <1>5, <1>6, <1>8, <1>9, <1>10 DEF IInv

\* iderw of memide.c: copied at once, while the buffer is its holder's.
LEMMA MemIderwInv ==
  ASSUME IInv, UNCHANGED device, NEW p \in Procs, MemIderw(p) PROVE IInv'
<1>b. PICK b \in Bufs, k \in Blocks : b = mine[p] /\ k = want[p] /\ blockno[b] = k
  BY Zenon DEF MemIderw, At, IInv, TypeOK, UserInv
<1>0. /\ pc[p] = "iderw" /\ device = "memory" /\ pc' = [pc EXCEPT ![p] = "use"]
      /\ \/ dirty[b] /\ disk' = [disk EXCEPT ![blockno[b]] = data[b]] /\ UNCHANGED data
         \/ ~dirty[b] /\ data' = [data EXCEPT ![b] = disk[blockno[b]]] /\ UNCHANGED disk
      /\ valid' = [valid EXCEPT ![b] = TRUE] /\ dirty' = [dirty EXCEPT ![b] = FALSE]
      /\ acked' = [acked EXCEPT ![k] = disk'[k]]
      /\ UNCHANGED <<device, blockno, refcnt, locked, idequeue, want, mine>>
  BY <1>b DEF MemIderw, At, Goto
<1>1. pc'[p] = "use" /\ \A q \in Procs : q # p => pc'[q] = pc[q]
  BY <1>0, Zenon DEF IInv, TypeOK
<1>u. /\ pc[p] = "iderw" /\ blockno' = blockno /\ mine' = mine /\ want' = want
      /\ idequeue' = idequeue /\ locked' = locked /\ refcnt' = refcnt
  BY <1>0, Zenon
<1>2. TypeOK'
  <2>0. data \in [Bufs -> Nat] /\ disk \in [Blocks -> Nat]
    BY DEF IInv, TypeOK
  <2>a. data[b] \in Nat /\ disk[blockno[b]] \in Nat
    BY <1>b, <2>0, Zenon
  <2>b. \/ disk' = [disk EXCEPT ![blockno[b]] = data[b]] /\ data' = data
        \/ data' = [data EXCEPT ![b] = disk[blockno[b]]] /\ disk' = disk
    BY <1>0, Zenon
  <2>1. data' \in [Bufs -> Nat] /\ disk' \in [Blocks -> Nat]
    BY <2>0, <2>a, <2>b, Zenon
  <2> QED
    BY <1>0, <2>1, Zenon DEF IInv, TypeOK, Locations, Holding
<1>3. CountInv'
  <2>1. \A q \in Procs : (pc'[q] = "idle") <=> (pc[q] = "idle")
    BY <1>1, <1>u, Zenon
  <2> QED
    BY <1>u, <2>1, CountKept, Zenon DEF IInv
<1>4. UserInv'
  BY <1>1, <1>u, Zenon DEF IInv, UserInv
<1>5. LockInv'
  <2>1. \A q \in Procs : (pc'[q] \in Holding) <=> (pc[q] \in Holding)
    BY <1>1, <1>u, Places
  <2> QED
    BY <1>u, <2>1 DEF IInv, LockInv
<1>6. valid'[b] /\ ~dirty'[b] /\ \A c \in Bufs : c # b => valid'[c] = valid[c] /\ dirty'[c] = dirty[c]
  BY <1>0 DEF IInv, TypeOK
<1>7. \A q \in Procs : q # p /\ pc[q] \in Holding => mine[q] # b /\ mine[q] \in Bufs
  <2>1. pc[p] \in Holding
    BY <1>u, Places
  <2> QED
    BY <1>b, <2>1, Zenon DEF IInv, LockInv, TypeOK
<1>8. FlagInv'
  <2>0. \A q \in Procs : q # p /\ pc[q] \in Holding =>
          valid'[mine[q]] = valid[mine[q]] /\ dirty'[mine[q]] = dirty[mine[q]]
    BY <1>6, <1>7, Zenon
  <2>1. \A c \in Bufs : valid'[c] => blockno'[c] \in Blocks
    <3>1. \A c \in Bufs : valid[c] => blockno[c] \in Blocks
      BY Zenon DEF IInv, FlagInv
    <3> QED
      BY <1>6, <1>b, <1>u, <3>1, Zenon
  <2>2. ASSUME NEW c \in Bufs, dirty'[c]
        PROVE  valid'[c] /\ \E q \in Procs : pc'[q] \in InIderw /\ mine'[q] = c
    <3>1. c # b /\ dirty[c] /\ valid'[c] = valid[c]
      BY <1>6, <2>2
    <3>2. valid[c] /\ \E q \in Procs : pc[q] \in InIderw /\ mine[q] = c
      BY <3>1, Zenon DEF IInv, FlagInv
    <3> QED
      BY <1>1, <1>b, <1>u, <3>1, <3>2
  <2>3. ASSUME NEW q \in Procs, pc'[q] = "use" PROVE valid'[mine'[q]] /\ ~dirty'[mine'[q]]
    <3>1. CASE q = p
      BY <1>6, <1>b, <1>u, <3>1
    <3>2. CASE q # p
      <4>1. pc[q] = "use" /\ pc[q] \in Holding
        BY <1>1, <2>3, <3>2, Places
      <4>2. valid[mine[q]] /\ ~dirty[mine[q]]
        BY <4>1, Zenon DEF IInv, FlagInv
      <4> QED
        BY <1>u, <2>0, <3>2, <4>1, <4>2
    <3> QED
      BY <3>1, <3>2, Zenon
  <2>4. ASSUME NEW q \in Procs, pc'[q] = "iderw" PROVE ~valid'[mine'[q]] \/ dirty'[mine'[q]]
    <3>1. q # p /\ pc[q] = "iderw" /\ pc[q] \in Holding
      BY <1>1, <2>4, Places
    <3>2. ~valid[mine[q]] \/ dirty[mine[q]]
      BY <3>1, Zenon DEF IInv, FlagInv
    <3> QED
      BY <1>u, <2>0, <3>1, <3>2
  <2> QED
    BY <2>1, <2>2, <2>3, <2>4, Zenon DEF FlagInv
<1>9. QueueInv'
  <2>1. \A i \in DOMAIN idequeue :
          \E q \in Procs : pc[q] \in {"io_sleep", "io_woken"} /\ mine[q] = idequeue[i]
    BY DEF IInv, QueueInv
  <2>2. \A i \in DOMAIN idequeue : idequeue[i] \in Bufs /\ idequeue[i] # b
    <3>1. pc[p] \notin {"io_sleep", "io_woken"}
      BY <1>u
    <3> QED
      BY <1>7, <2>1, <3>1, Places
  <2>3. \A i \in DOMAIN idequeue :
          \E q \in Procs : pc'[q] \in {"io_sleep", "io_woken"} /\ mine[q] = idequeue[i]
    BY <1>1, <1>u, <2>1
  <2> QED
    BY <1>6, <1>u, <2>2, <2>3 DEF IInv, QueueInv
<1>10. DataInv' /\ Durable'
  <2>1. DataInv' /\ \A h \in Blocks : disk[h] <= disk'[h]
    BY <1>0, <1>b, ServedData, Zenon
  <2>2. \A h \in Blocks : acked[h] <= disk[h] /\ acked[h] \in Nat /\ disk[h] \in Nat /\ disk'[h] \in Nat
    BY <1>0, <1>2, Zenon DEF IInv, Durable, TypeOK
  <2>3. \A h \in Blocks : acked'[h] = IF h = k THEN disk'[h] ELSE acked[h]
    BY <1>0 DEF IInv, TypeOK
  <2>4. \A h \in Blocks : acked'[h] <= disk'[h]
    BY <2>1, <2>2, <2>3
  <2> QED
    BY <2>1, <2>4, Zenon DEF Durable
<1>11. BlockInv'
  BY <1>u DEF IInv, BlockInv
<1> QED
  BY <1>2, <1>3, <1>4, <1>5, <1>8, <1>9, <1>10, <1>11 DEF IInv

-------------------------------------------------------------------------------
(* the theorems *)

\* Every step of a process, of the disk or of nobody keeps the invariant.
LEMMA NextInv == ASSUME Counting, IInv, [Next]_vars PROVE IInv'
<1>1. CASE UNCHANGED vars
  BY <1>1, StutterInv
<1>2. CASE Next
  <2>0. UNCHANGED device
    BY <1>2 DEF Next
  <2>1. CASE Ideintr
    BY <2>0, <2>1, IdeintrInv
  <2>2. CASE \E p \in Procs : Step(p)
    <3>1. PICK p \in Procs : Step(p)
      BY <2>2
    <3>2. CASE \E k \in Blocks : Bget(p, k)
      BY <2>0, <3>2, BgetInv
    <3>3. CASE Acquiresleep(p) \/ Releasesleep(p) \/ Brelse(p) \/ Kill(p)
      BY <2>0, <3>3, AcquiresleepInv, ReleasesleepInv, BrelseInv, KillInv
    <3>4. CASE Iderw(p) \/ MemIderw(p) \/ IderwWoken(p)
      BY <2>0, <3>4, IderwInv, MemIderwInv, IderwWokenInv
    <3>5. CASE Bwrite(p) \/ BwriteReboot(p)
      BY <2>0, <3>5, BwriteInv, BwriteRebootInv
    <3> QED
      BY <3>1, <3>2, <3>3, <3>4, <3>5 DEF Step
  <2> QED
    BY <1>2, <2>1, <2>2 DEF Next
<1> QED
  BY <1>1, <1>2

-------------------------------------------------------------------------------
INSTANCE FiniteSetTheorems

\* There are finitely many processes, so their references can be counted (proc.h).
LEMMA CountingHolds == Counting
<1>1. \A S \in SUBSET Procs : IsFiniteSet(S)
  BY BcacheAssumption, FS_Subset
<1>2. \A S \in SUBSET Procs : Cardinality(S) \in Nat
  BY <1>1, FS_CardinalityType
<1>3. \A S \in SUBSET Procs : Cardinality(S) = 0 => S = {}
  BY <1>1, FS_EmptySet
<1>4. \A S \in SUBSET Procs : \A p \in Procs \ S : Cardinality(S \cup {p}) = Cardinality(S) + 1
  BY <1>1, FS_AddElement, Zenon
<1>5. \A S \in SUBSET Procs : \A p \in S : Cardinality(S \ {p}) = Cardinality(S) - 1
  BY <1>1, FS_RemoveElement, Zenon
<1> QED
  BY <1>2, <1>3, <1>4, <1>5, FS_EmptySet DEF Counting

\* The inductive invariant of the buffer cache: counts, locks, flags and the disk
\* queue agree with where the processes are (bget, acquiresleep, iderw, ideintr).
THEOREM Invariance == Spec => []IInv
<1>1. Init => IInv
  BY InitInv, CountingHolds
<1>2. IInv /\ [Next]_vars => IInv'
  BY NextInv, CountingHolds
<1> QED
  BY <1>1, <1>2, PTL DEF Spec

\* Whoever uses a buffer uses it alone, as that of the block it asked for, with
\* what is on the disk unless a read may have failed (bget, bread, brelse).
THEOREM CoherentHolds == Spec => []Coherent
<1>1. IInv => Coherent
  <2> SUFFICES ASSUME IInv, NEW p \in Procs, pc[p] = "use"
               PROVE  /\ blockno[mine[p]] = want[p]
                      /\ \A q \in Procs : pc[q] = "use" /\ mine[q] = mine[p] => q = p
                      /\ device # "failing" => data[mine[p]] = disk[want[p]]
    BY DEF Coherent
  <2>1. blockno[mine[p]] = want[p] /\ mine[p] \in Bufs
    BY DEF IInv, UserInv, TypeOK
  <2>2. \A q \in Procs : pc[q] = "use" /\ mine[q] = mine[p] => q = p
    BY DEF IInv, LockInv, Holding
  <2>3. valid[mine[p]] /\ ~dirty[mine[p]]
    BY DEF IInv, FlagInv
  <2>4. device # "failing" => data[mine[p]] = disk[want[p]]
    BY <2>1, <2>3 DEF IInv, DataInv
  <2> QED
    BY <2>1, <2>2, <2>4
<1> QED
  BY <1>1, Invariance, PTL

\* What bwrite has returned from is on the disk, and stays there across reboots,
\* where no read fails (bwrite, iderw, ideintr).
THEOREM DurableHolds == Spec => []Durable
<1>1. IInv => Durable
  BY DEF IInv
<1> QED
  BY <1>1, Invariance, PTL
================================================================================
