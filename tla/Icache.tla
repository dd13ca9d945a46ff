------------------------------- MODULE Icache -------------------------------
(***************************************************************************)
(* The inode cache of kernel/fs.c: processes that look up "/" or "/f", use *)
(* the inode under its lock and give it back, and processes that create    *)
(* files. A path is walked with the parent's lock held; a cache entry is   *)
(* filled from the inode file, which has an inode and a lock of its own.   *)
(*                                                                         *)
(* A sleep lock is its holder (module Bcache has its sleeping and waking). *)
(* Of an inode's contents the model keeps how far its extents have grown   *)
(* in memory: appendi adds to them, and the copy on the disk is never      *)
(* updated for an ordinary file. What createi does to the inode file, and  *)
(* the cache entry it has for it, are in module Create.                    *)
(***************************************************************************)
EXTENDS Naturals, FiniteSets

CONSTANTS
  Procs, Files,     \* Files: inode numbers of files in the root directory
  Fresh,            \* those of Files that are not there before createi makes them
  Root,             \* ROOTINO
  NINODE,           \* entries of the cache
  MaxGrowth,        \* bound of the model: appends to a file
  Relative,         \* whether paths may be without a leading slash
  MaxLeaks,         \* bound of the model: references to the root that are lost
  None

IcacheAssumption ==
  /\ Root \notin Files /\ Fresh \subseteq Files /\ NINODE \in Nat \ {0} /\ None \notin Procs
  /\ MaxGrowth \in Nat /\ MaxLeaks \in Nat /\ Relative \in BOOLEAN

Slots == 1..NINODE
Inums == Files \cup {Root}

VARIABLES
  ref, inum, valid, growth,  \* fields of the entries
  lock,                      \* who holds the entry's sleep lock
  iflock,                    \* who holds icache.inodefile.lock
  pc, target,                \* where each process is; the inode it looks up
  ip, dp,                    \* its entry, and the locked parent during a walk
  leaked,                    \* references to the root nobody will give back
  made,                      \* the files of Fresh that have an entry by now
  panicked

entries == <<ref, inum, valid, growth, lock>>
vars == <<entries, iflock, pc, target, ip, dp, leaked, made, panicked>>

\* The cache when a second process can exist: init's open of "console", a path
\* without a leading slash, has left a reference to the root (IdupRoot), in the
\* first entry, and has locked and so read it. The inode file's own inode,
\* icache.inodefile, is there since the boot.
Init ==
  /\ ref = [s \in Slots |-> IF s = 1 THEN 1 ELSE 0]
  /\ inum = [s \in Slots |-> IF s = 1 THEN Root ELSE None]
  /\ valid = [s \in Slots |-> s = 1] /\ growth = [s \in Slots |-> 0]
  /\ lock = [s \in Slots |-> None] /\ iflock = None
  /\ pc = [p \in Procs |-> "idle"] /\ target = [p \in Procs |-> None]
  /\ ip = [p \in Procs |-> None] /\ dp = [p \in Procs |-> None]
  /\ leaked = 1 /\ made = {} /\ panicked = FALSE

At(p, loc) == ~panicked /\ pc[p] = loc
Goto(p, loc) == pc' = [pc EXCEPT ![p] = loc]

-----------------------------------------------------------------------------
(* namex, iget and read_dinode *)

\* namei of "/" or of a file: it starts with iget of the root.
Namei(p, i) ==
  /\ At(p, "idle")
  /\ target' = [target EXCEPT ![p] = i]
  /\ Goto(p, "iget")
  /\ UNCHANGED <<entries, iflock, ip, dp, leaked, made, panicked>>

\* The entry a process has is that of the directory it searches.
Searching(p) == dp[p] = None /\ inum[ip[p]] = Root /\ target[p] # Root

\* A path without a leading slash starts with idup(namei("/")): the first of
\* the two references is forgotten.
IdupRoot(p) ==
  /\ At(p, "got") /\ Searching(p) /\ Relative /\ leaked < MaxLeaks
  /\ ref' = [ref EXCEPT ![ip[p]] = @ + 1]
  /\ leaked' = leaked + 1
  /\ Goto(p, "lock")
  /\ UNCHANGED <<inum, valid, growth, lock, iflock, target, ip, dp, made, panicked>>

\* A walk starts at the root; createi asks for the new inode itself.
Wanted(p) == IF dp[p] = None /\ pc[p] # "iget_new" THEN Root ELSE target[p]

Hits(i) == {s \in Slots : ref[s] > 0 /\ inum[s] = i}

Empty == {s \in Slots : ref[s] = 0}

\* The critical section of iget: the entry with that number, or the first
\* empty one, which is then still to be filled.
Iget(p) ==
  /\ At(p, "iget") \/ At(p, "iget_new")
  /\ \/ \E s \in Hits(Wanted(p)) :
          /\ ref' = [ref EXCEPT ![s] = @ + 1]
          /\ ip' = [ip EXCEPT ![p] = s]
          /\ Goto(p, "got")
          /\ UNCHANGED <<inum, valid, panicked>>
     \/ /\ Hits(Wanted(p)) = {} /\ Empty # {}
        /\ LET s == CHOOSE e \in Empty : \A f \in Empty : e <= f IN
           /\ ref' = [ref EXCEPT ![s] = 1] /\ valid' = [valid EXCEPT ![s] = FALSE]
           /\ inum' = [inum EXCEPT ![s] = Wanted(p)]
           /\ ip' = [ip EXCEPT ![p] = s]
        /\ Goto(p, "read_dinode")
        /\ UNCHANGED panicked
     \/ /\ Hits(Wanted(p)) = {} /\ Empty = {}
        /\ panicked' = TRUE
        /\ UNCHANGED <<ref, inum, valid, ip, pc>>
  /\ UNCHANGED <<growth, lock, iflock, target, dp, leaked, made>>

\* read_dinode asks whether the inode file is locked, by anybody.
ReadDinode(p) ==
  /\ At(p, "read_dinode")
  /\ Goto(p, IF iflock = None THEN "if_lock" ELSE "readi_unlocked")
  /\ UNCHANGED <<entries, iflock, target, ip, dp, leaked, made, panicked>>

ReadDinodeLock(p) ==
  /\ At(p, "if_lock") /\ iflock = None
  /\ iflock' = p
  /\ Goto(p, "readi")
  /\ UNCHANGED <<entries, target, ip, dp, leaked, made, panicked>>

\* readi, which panics if nobody holds the lock, then unlocki.
ReadDinodeRead(p) ==
  /\ \/ At(p, "readi") /\ iflock' = None /\ Goto(p, "fill") /\ UNCHANGED panicked
     \/ /\ At(p, "readi_unlocked") /\ UNCHANGED iflock
        /\ IF iflock = None THEN panicked' = TRUE /\ UNCHANGED pc
           ELSE Goto(p, "fill") /\ UNCHANGED panicked
  /\ UNCHANGED <<entries, target, ip, dp, leaked, made>>

\* The rest of iget copies what it read into the entry, without its lock.
IgetFill(p) ==
  /\ At(p, "fill")
  /\ growth' = [growth EXCEPT ![ip[p]] = 0]
  /\ Goto(p, "got")
  /\ UNCHANGED <<ref, inum, valid, lock, iflock, target, ip, dp, leaked, made, panicked>>

\* namex: the root itself was asked for, or has to be searched.
Walk(p) ==
  /\ At(p, "got") /\ dp[p] = None /\ inum[ip[p]] = Root
  /\ Goto(p, IF Searching(p) THEN "lock" ELSE "have")
  /\ UNCHANGED <<entries, iflock, target, ip, dp, leaked, made, panicked>>

\* namex has the next inode: it unlocks the parent, and then releases it.
UnlockParent(p) ==
  /\ At(p, "got") /\ dp[p] # None
  /\ lock' = [lock EXCEPT ![dp[p]] = None]
  /\ Goto(p, "put_parent")
  /\ UNCHANGED <<ref, inum, valid, growth, iflock, target, ip, dp, leaked, made, panicked>>

ReleaseParent(p) ==
  /\ At(p, "put_parent")
  /\ ref' = [ref EXCEPT ![dp[p]] = @ - 1]
  /\ dp' = [dp EXCEPT ![p] = None]
  /\ Goto(p, "have")
  /\ UNCHANGED <<inum, valid, growth, lock, iflock, target, ip, leaked, made, panicked>>

-----------------------------------------------------------------------------
(* locki, the uses of a locked inode, unlocki and irelease *)

\* Mutants of Locki: a valid inode is read again; the inode is taken as it is.
LockiAgain(p) ==
  /\ At(p, "lock") /\ lock[ip[p]] = None
  /\ lock' = [lock EXCEPT ![ip[p]] = p]
  /\ Goto(p, "load_lock")
  /\ UNCHANGED <<ref, inum, valid, growth, iflock, target, ip, dp, leaked, made, panicked>>

LockiUnread(p) ==
  /\ At(p, "lock") /\ lock[ip[p]] = None
  /\ lock' = [lock EXCEPT ![ip[p]] = p]
  /\ Goto(p, "locked")
  /\ UNCHANGED <<ref, inum, valid, growth, iflock, target, ip, dp, leaked, made, panicked>>

Locki(p) ==
  /\ At(p, "lock") /\ lock[ip[p]] = None
  /\ lock' = [lock EXCEPT ![ip[p]] = p]
  /\ Goto(p, IF valid[ip[p]] THEN "locked" ELSE "load_lock")
  /\ UNCHANGED <<ref, inum, valid, growth, iflock, target, ip, dp, leaked, made, panicked>>

\* An inode that is not valid is read, with the inode file locked.
LockiLoadLock(p) ==
  /\ At(p, "load_lock") /\ iflock = None
  /\ iflock' = p
  /\ Goto(p, "load")
  /\ UNCHANGED <<entries, target, ip, dp, leaked, made, panicked>>

LockiLoad(p) ==
  /\ At(p, "load")
  /\ iflock' = None
  /\ growth' = [growth EXCEPT ![ip[p]] = 0]
  /\ valid' = [valid EXCEPT ![ip[p]] = TRUE]
  /\ Goto(p, "locked")
  /\ UNCHANGED <<ref, inum, lock, target, ip, dp, leaked, made, panicked>>

\* dirlookup finds the name, and goes on with iget while the root is locked.
Dirlookup(p) ==
  /\ At(p, "locked") /\ Searching(p) /\ target[p] \notin Fresh \ made
  /\ dp' = [dp EXCEPT ![p] = ip[p]]
  /\ Goto(p, "iget")
  /\ UNCHANGED <<entries, iflock, target, ip, leaked, made, panicked>>

\* The end of a use under the lock: also of a search that found nothing.
Unlocki(p) ==
  /\ At(p, "locked")
  /\ lock' = [lock EXCEPT ![ip[p]] = None]
  /\ Goto(p, "put")
  /\ UNCHANGED <<ref, inum, valid, growth, iflock, target, ip, dp, leaked, made, panicked>>

\* appendi in concurrent_writei gives the inode an extent, in memory. That may
\* be the root, which open does not refuse.
Appendi(p) ==
  /\ At(p, "locked") /\ ~Searching(p)
  /\ growth[ip[p]] < MaxGrowth
  /\ growth' = [growth EXCEPT ![ip[p]] = @ + 1]
  /\ UNCHANGED <<ref, inum, valid, lock, iflock, pc, target, ip, dp, leaked, made, panicked>>

\* The caller of namei uses the inode, or gives it back.
Use(p) ==
  /\ At(p, "have") /\ (Goto(p, "lock") \/ Goto(p, "put"))
  /\ UNCHANGED <<entries, iflock, target, ip, dp, leaked, made, panicked>>

Irelease(p) ==
  /\ At(p, "put")
  /\ ref' = [ref EXCEPT ![ip[p]] = @ - 1]
  /\ ip' = [ip EXCEPT ![p] = None] /\ target' = [target EXCEPT ![p] = None]
  /\ Goto(p, "idle")
  /\ UNCHANGED <<inum, valid, growth, lock, iflock, dp, leaked, made, panicked>>

-----------------------------------------------------------------------------
(* createi, as far as it uses the cache *)

\* nameiparent returns the root; nobody gives that reference back. Its locki
\* finds the root valid, and unlocki follows at once.
CreateiParent(p, i) ==
  /\ At(p, "idle") /\ i \in Fresh \ made /\ leaked < MaxLeaks
  /\ \E s \in Hits(Root) :
       /\ lock[s] = None
       /\ ref' = [ref EXCEPT ![s] = @ + 1]
       /\ ip' = [ip EXCEPT ![p] = s]
  /\ target' = [target EXCEPT ![p] = i]
  /\ leaked' = leaked + 1
  /\ Goto(p, "create_lock")
  /\ UNCHANGED <<inum, valid, growth, lock, iflock, dp, made, panicked>>

\* concurrent_writei of the entry: the root is locked, and may need an extent.
CreateiLock(p) ==
  /\ At(p, "create_lock") /\ lock[ip[p]] = None
  /\ lock' = [lock EXCEPT ![ip[p]] = p]
  /\ Goto(p, "create_write")
  /\ UNCHANGED <<ref, inum, valid, growth, iflock, target, ip, dp, leaked, made, panicked>>

CreateiWrite(p) ==
  /\ At(p, "create_write")
  /\ \/ UNCHANGED growth
     \/ growth[ip[p]] < MaxGrowth /\ growth' = [growth EXCEPT ![ip[p]] = @ + 1]
  /\ lock' = [lock EXCEPT ![ip[p]] = None]
  /\ Goto(p, "create_count")
  /\ UNCHANGED <<ref, inum, valid, iflock, target, ip, dp, leaked, made, panicked>>

\* The root's size grows, so that a search sees the entry; then, under no
\* parent's lock, comes iget of the inode in the last entry, the new one
\* unless another process has added to the root since.
CreateiCount(p) ==
  /\ At(p, "create_count")
  /\ made' = made \cup {target[p]}
  /\ ip' = [ip EXCEPT ![p] = None]
  /\ Goto(p, "iget_new")
  /\ UNCHANGED <<entries, iflock, target, dp, leaked, panicked>>

\* sys_open forgets the inode createi returns, with its reference, and has
\* fileopen walk to it.
CreateiDone(p) ==
  /\ At(p, "got") /\ dp[p] = None /\ inum[ip[p]] # Root
  /\ ip' = [ip EXCEPT ![p] = None]
  /\ Goto(p, "iget")
  /\ UNCHANGED <<entries, iflock, target, dp, leaked, made, panicked>>

Step(p) ==
  \/ IdupRoot(p) \/ Iget(p) \/ ReadDinode(p) \/ ReadDinodeLock(p) \/ ReadDinodeRead(p)
  \/ IgetFill(p) \/ Walk(p) \/ UnlockParent(p) \/ ReleaseParent(p) \/ Locki(p)
  \/ LockiLoadLock(p) \/ LockiLoad(p) \/ Dirlookup(p) \/ Unlocki(p) \/ Appendi(p)
  \/ Use(p) \/ Irelease(p)
  \/ CreateiLock(p) \/ CreateiWrite(p) \/ CreateiCount(p) \/ CreateiDone(p)

Next ==
  \E p \in Procs :
    \/ \E i \in Inums : Namei(p, i)
    \/ \E i \in Fresh : CreateiParent(p, i)
    \/ Step(p)

Spec == Init /\ [][Next]_vars

-----------------------------------------------------------------------------
(* Properties *)

\* A process that uses a locked inode holds its lock alone, the entry is the
\* one it looked up or the root it searches, and it has been read.
LockedIsLoaded ==
  \A p \in Procs : pc[p] = "locked" =>
    lock[ip[p]] = p /\ valid[ip[p]] /\ inum[ip[p]] \in {target[p], Root}

\* What an append has added to the root, or to a file that is not being made,
\* stays while somebody refers to the inode: the copy that iget makes without
\* the inode's lock never comes late. A walk fills a file's entry under the
\* lock of the root, so that nobody else has it yet; and the root's is filled
\* before there is a second process, and stays, because of a reference that
\* namex loses. createi fills the entry of a new file with no lock held: there
\* the copy may come late, and Fresh is left out.
GrowthStep ==
  \A s \in Slots :
    ref[s] > 0 /\ valid[s] /\ ref'[s] > 0 /\ inum[s] \notin Fresh => growth'[s] >= growth[s]
GrowthKept == [][GrowthStep]_vars
=============================================================================
