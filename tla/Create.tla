------------------------------- MODULE Create -------------------------------
(***************************************************************************)
(* Creation of files: sys_open with O_CREATE and createi, concurrent_createi*)
(* and update_dinode of kernel/fs.c, with a crash between any two writes   *)
(* to the disk and the reboot after it.                                    *)
(*                                                                         *)
(* Sizes are counted in inodes and directory entries. Inodes 0 and 1 are   *)
(* the inode file and the root directory; the inode file's last block has  *)
(* room for the new inodes. The kernel has the inode file's size twice: in *)
(* icache.inodefile, read at boot, and in the cache entry that             *)
(* concurrent_createi gets from iget. iget publishes that entry before it  *)
(* has read size and extents, and concurrent_createi locks it without      *)
(* loading it: until the first creator's iget is done, another one adds to *)
(* a size that is yet to come, and update_dinode's writes, which go by the *)
(* entry's extents, reach other blocks than the inode file's.              *)
(***************************************************************************)
EXTENDS Naturals, FiniteSets, Sequences

CONSTANTS
  Procs, Names,
  MaxCreates,       \* bound of the model
  CreatesPerBoot,   \* how many files are created before the next reboot
  MaxCrashes,       \* bound of the model
  None

CreateAssumption ==
  None \notin Procs /\ {MaxCreates, CreatesPerBoot, MaxCrashes} \subseteq Nat

VARIABLES
  dinodes,    \* on the disk: for which name each new inode was written
  dirents,    \* on the disk: position -> entry
  rootsize, ifsize,                \* on the disk: the sizes of the two files
  mroot, mslot, minodefile,        \* in memory: the sizes; the one read at boot
  slot,       \* the inode file's cache entry: "absent", "unread" or "read"
  pc, name, inum,                  \* the processes
  lock,       \* who holds the lock of the inode file's cache entry
  creates, boot,                   \* creations so far, and in this boot
  crashes

ondisk == <<dinodes, dirents, rootsize, ifsize>>
sizes == <<mroot, mslot, minodefile, slot>>
vars == <<ondisk, sizes, pc, name, inum, lock, creates, boot, crashes>>

Init ==
  /\ dinodes = [i \in {} |-> 0] /\ dirents = [i \in {} |-> 0]
  /\ rootsize = 0 /\ ifsize = 2
  /\ mroot = 0 /\ mslot = 0 /\ minodefile = 2 /\ slot = "absent"
  /\ pc = [p \in Procs |-> "idle"]
  /\ name = [p \in Procs |-> None] /\ inum = [p \in Procs |-> 0]
  /\ lock = None /\ creates = 0 /\ boot = 0 /\ crashes = 0

Goto(p, loc) == pc' = [pc EXCEPT ![p] = loc]

\* A map with one more pair, or another value.
Put(f, i, v) == [j \in DOMAIN f \cup {i} |-> IF j = i THEN v ELSE f[j]]

\* dirlookup sees the entries inside the size in memory.
Listed(n) == \E i \in 0..mroot - 1 : dirents[i].name = n

\* sys_open with O_CREATE: namei finds the file, or createi is called.
OpenCreate(p, n) ==
  /\ pc[p] = "idle" /\ creates < MaxCreates /\ boot < CreatesPerBoot
  /\ IF Listed(n) THEN UNCHANGED <<pc, name, creates, boot>>
     ELSE /\ name' = [name EXCEPT ![p] = n]
          /\ creates' = creates + 1 /\ boot' = boot + 1
          /\ Goto(p, "iget")
  /\ UNCHANGED <<ondisk, sizes, inum, lock, crashes>>

\* iget of the inode file in concurrent_createi: it publishes an entry, or
\* finds one, which may not have been read. No reference is given back.
CreateIget(p) ==
  /\ pc[p] = "iget"
  /\ \/ slot = "absent" /\ slot' = "unread" /\ Goto(p, "fill")
     \/ slot # "absent" /\ UNCHANGED slot /\ Goto(p, "lock")
  /\ UNCHANGED <<ondisk, mroot, mslot, minodefile, name, inum, lock, creates, boot, crashes>>

\* The rest of iget. When it has read the inode does not matter: nobody can
\* change it on the disk before the entry has been filled.
CreateFill(p) ==
  /\ pc[p] = "fill"
  /\ mslot' = ifsize /\ slot' = "read"
  /\ Goto(p, "lock")
  /\ UNCHANGED <<ondisk, mroot, minodefile, name, inum, lock, creates, boot, crashes>>

\* concurrent_createi takes the lock of the cache entry.
CreateLock(p) ==
  /\ pc[p] = "lock" /\ lock = None
  /\ lock' = p
  /\ Goto(p, "dinode")
  /\ UNCHANGED <<ondisk, sizes, name, inum, creates, boot, crashes>>

\* The number of the new inode: from the size that was read at boot.
NewInum == minodefile

\* Mutant of WriteDinode: the inode behind the named one is written.
WriteDinodeNext(p) ==
  /\ pc[p] = "dinode"
  /\ inum' = [inum EXCEPT ![p] = NewInum]
  /\ dinodes' = Put(dinodes, NewInum + 1, name[p])
  /\ Goto(p, "dirent")
  /\ UNCHANGED <<dirents, rootsize, ifsize, sizes, name, lock, creates, boot, crashes>>

\* The empty inode is written into the inode file.
WriteDinode(p) ==
  /\ pc[p] = "dinode"
  /\ inum' = [inum EXCEPT ![p] = NewInum]
  /\ dinodes' = Put(dinodes, NewInum, name[p])
  /\ Goto(p, "dirent")
  /\ UNCHANGED <<dirents, rootsize, ifsize, sizes, name, lock, creates, boot, crashes>>

\* The entry is written behind the end of the root directory.
WriteDirent(p) ==
  /\ pc[p] = "dirent"
  /\ dirents' = Put(dirents, mroot, [name |-> name[p], inum |-> inum[p]])
  /\ Goto(p, "count")
  /\ UNCHANGED <<dinodes, rootsize, ifsize, sizes, name, inum, lock, creates, boot, crashes>>

\* Both sizes grow in memory; icache.inodefile keeps its own.
CountUp(p) ==
  /\ pc[p] = "count"
  /\ mslot' = mslot + 1 /\ mroot' = mroot + 1
  /\ Goto(p, "update_if")
  /\ UNCHANGED <<ondisk, minodefile, slot, name, inum, lock, creates, boot, crashes>>

\* update_dinode for the inode file, then for the root directory. With extents
\* that were not read the write goes astray.
UpdateInodeFile(p) ==
  /\ pc[p] = "update_if"
  /\ ifsize' = IF slot = "read" THEN mslot ELSE ifsize
  /\ Goto(p, "update_root")
  /\ UNCHANGED <<dinodes, dirents, rootsize, sizes, name, inum, lock, creates, boot, crashes>>

UpdateRoot(p) ==
  /\ pc[p] = "update_root"
  /\ rootsize' = IF slot = "read" THEN mroot ELSE rootsize
  /\ Goto(p, "unlock")
  /\ UNCHANGED <<dinodes, dirents, ifsize, sizes, name, inum, lock, creates, boot, crashes>>

CreateUnlock(p) ==
  /\ pc[p] = "unlock"
  /\ lock' = None
  /\ name' = [name EXCEPT ![p] = None] /\ inum' = [inum EXCEPT ![p] = 0]
  /\ Goto(p, "idle")
  /\ UNCHANGED <<ondisk, sizes, creates, boot, crashes>>

\* The machine stops; at boot init_inodefile reads the inode file's size, and
\* the first iget of each inode reads the others.
Crash ==
  /\ crashes < MaxCrashes
  /\ crashes' = crashes + 1 /\ boot' = 0
  /\ mroot' = rootsize /\ mslot' = 0 /\ minodefile' = ifsize /\ slot' = "absent"
  /\ pc' = [p \in Procs |-> "idle"] /\ lock' = None
  /\ name' = [p \in Procs |-> None] /\ inum' = [p \in Procs |-> 0]
  /\ UNCHANGED <<ondisk, creates>>

Next ==
  \/ Crash
  \/ \E p \in Procs :
       \/ \E n \in Names : OpenCreate(p, n)
       \/ CreateIget(p) \/ CreateFill(p) \/ CreateLock(p) \/ WriteDinode(p) \/ WriteDirent(p) \/ CountUp(p)
       \/ UpdateInodeFile(p) \/ UpdateRoot(p) \/ CreateUnlock(p)

Spec == Init /\ [][Next]_vars

-----------------------------------------------------------------------------
(* Properties *)

Entry(i) == dirents[i]

\* Every entry that a lookup can see, now or after a crash at this point, was
\* written and names an inode that was written: iget never meets an inode
\* without a type.
EntriesWritten ==
  \A i \in 0..mroot - 1 \cup 0..rootsize - 1 :
    i \in DOMAIN dirents /\ Entry(i).inum \in DOMAIN dinodes

\* Two files have two inodes.
DistinctInums ==
  \A i, j \in 0..mroot - 1 : i # j => Entry(i).inum # Entry(j).inum
=============================================================================
