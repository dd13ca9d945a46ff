---------------------------------- MODULE MCFs ----------------------------------
(***************************************************************************)
(* The file system for TLC: the inode cache, the creation of files with     *)
(* crashes, the extents of files, and the image mkfs builds.  Each part has *)
(* state of its own; a behaviour exercises the part it starts with.         *)
(***************************************************************************)
EXTENDS Naturals, TLC

CONSTANTS Procs, Named, Root, None

VARIABLES part,
  ref, inum, valid, growth, lock, iflock, pc, target, ip, dp, leaked, made, panicked, \* inodes
  dinodes, dirents, rootsize, ifsize, mroot, mslot, minodefile, slot,            \* creation
  cpc, name, cinum, clock, creates, boot, crashes,
  data, bitmap, disk, contents, ops,                                             \* extents
  kpc, todo, nfiles, inodes, owner, root, freeblock, marked                      \* mkfs

Inodes == <<ref, inum, valid, growth, lock, iflock, pc, target, ip, dp, leaked, made, panicked>>
Creation == <<dinodes, dirents, rootsize, ifsize, mroot, mslot, minodefile, slot, cpc, name, cinum,
              clock, creates, boot, crashes>>
Extents == <<data, bitmap, disk, contents, ops>>
Image == <<kpc, todo, nfiles, inodes, owner, root, freeblock, marked>>
vars == <<part, Inodes, Creation, Extents, Image>>

Two == {"first", "second"}
Names == {"a", "b", "c"}

\* Three processes that walk absolute paths; two that also append, create a file and
\* use relative paths.
I == INSTANCE Icache WITH
  Files <- Named, Fresh <- {}, NINODE <- 3, MaxGrowth <- 0, Relative <- FALSE, MaxLeaks <- 1
J == INSTANCE Icache WITH
  Procs <- Two, Files <- Named \cup {"new"}, Fresh <- {"new"}, NINODE <- 3, MaxGrowth <- 1,
  Relative <- TRUE, MaxLeaks <- 3

\* Two creations between reboots.
C == INSTANCE Create WITH Procs <- Two, MaxCreates <- 4, CreatesPerBoot <- 2, MaxCrashes <- 3,
  pc <- cpc, inum <- cinum, lock <- clock

\* The file that mkfs built: writes anywhere in its one extent of two blocks, and past
\* its end by no more than a block; the new file: a block, then anywhere in the
\* extent it got, and past that by no more than a block.
OneBlockAppends ==
  [f \in {"built", "created"} |-> {w \in (0..4) \X (1..4) :
     IF f = "built" THEN w[1] + w[2] <= 6 ELSE w[1] + w[2] <= 4 /\ (w[1] = 0 => w[2] <= 2)}]
X == INSTANCE Extent WITH
  BSIZE <- 2, EXTENT_N <- 3, EXTBLOCKS <- 2, NBITMAP <- 1, NBLOCKS <- 12, Built <- 2,
  BuiltSize <- 3, MaxOps <- 4, Writes <- OneBlockAppends, Rewrites <- FALSE

\* Up to three files, of no byte to more than two blocks.
M == INSTANCE Mkfs WITH
  FSSIZE <- 64, BSIZE <- 4, DINODE <- 2, DIRENT <- 1, MaxFiles <- 3, MaxSize <- 9, pc <- kpc

ASSUME /\ I!IcacheAssumption /\ J!IcacheAssumption /\ C!CreateAssumption
       /\ X!ExtentAssumption /\ M!MkfsAssumption

Init ==
  /\ part \in {"inodes", "appends", "create", "extents", "mkfs"}
  /\ IF part = "appends" THEN J!Init ELSE I!Init
  /\ C!Init /\ X!Init
  /\ IF part = "mkfs" THEN TRUE ELSE todo = <<>>
  /\ M!Init

InCreate == part = "create" /\ C!Next /\ UNCHANGED <<part, Inodes, Extents, Image>>

Next ==
  \/ part = "inodes" /\ I!Next /\ UNCHANGED <<part, Creation, Extents, Image>>
  \/ part = "appends" /\ J!Next /\ UNCHANGED <<part, Creation, Extents, Image>>
  \/ InCreate
  \/ part = "extents" /\ X!Next /\ UNCHANGED <<part, Inodes, Creation, Image>>
  \/ part = "mkfs" /\ M!Next /\ UNCHANGED <<part, Inodes, Creation, Extents>>

Spec == Init /\ [][Next]_vars
CreateSpec == Init /\ part = "create" /\ [][InCreate]_vars

Sym == Permutations(Procs) \cup Permutations(Named)

--------------------------------------------------------------------------------
\* A locked inode is used by one process and has been read (locki).
LockedIsLoaded == part = "inodes" => I!LockedIsLoaded
\* No late copy from the disk undoes an append, to the root or to a file that
\* was there before (iget, locki, createi).
GrowthKept == [][part = "appends" => J!GrowthStep]_vars
\* No lookup meets an entry or inode that was not written, also after a crash (createi).
EntriesWritten == part = "create" => C!EntriesWritten
\* A read from any offset that readi does not refuse, which is up to the file's
\* size, returns the last bytes written (readi, writei, appendi).
ReadsBack == part = "extents" => X!ReadsBack
\* The extents of the image are apart and long enough (mkfs).
ImageSound == part = "mkfs" => M!ImageSound
\* Two creations in one boot get two inodes (createi).
TwoInumsDistinct == C!DistinctInums
================================================================================
