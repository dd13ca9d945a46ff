-------------------------------- MODULE Mkfs --------------------------------
(***************************************************************************)
(* mkfs.c: the image of the file system, built from the files given on the *)
(* command line. One action is one statement group of main. Of the image   *)
(* the model keeps the inodes, the entries of the root directory, which    *)
(* block holds which part of which inode's data, and the bitmap.           *)
(***************************************************************************)
EXTENDS Naturals, Sequences, FiniteSets

CONSTANTS
  FSSIZE,       \* blocks of the image
  BSIZE,        \* bytes of a block
  DINODE,       \* sizeof(struct dinode)
  DIRENT,       \* sizeof(struct dirent)
  MaxFiles,     \* bound of the model
  MaxSize       \* bound of the model: bytes of a file

MkfsAssumption ==
  /\ {FSSIZE, BSIZE, DINODE, DIRENT} \subseteq Nat \ {0}
  /\ MaxFiles \in Nat /\ MaxSize \in Nat
  /\ BSIZE % DINODE = 0 /\ BSIZE % DIRENT = 0  \* the assertions of main

VARIABLES
  pc,
  todo,        \* sizes of the files still to be added
  nfiles,      \* argc - 2
  inodes,      \* the dinodes, by inode number (from 0)
  owner,       \* block -> <<inode number, block of its file>> for written data
  root,        \* the inode numbers of the directory's entries
  freeblock,
  marked       \* blocks that the bitmap calls allocated

vars == <<pc, todo, nfiles, inodes, owner, root, freeblock, marked>>

ROOTINO == 1

NBitmap == FSSIZE \div (BSIZE * 8) + 1
INODESTART == 2 + NBitmap
IPB == BSIZE \div DINODE

\* inum_count = argc + 1, with argc - 2 files.
InumCount == nfiles + 3

InodeFileBlocks ==
  InumCount \div IPB
    + IF InumCount \div IPB = 0 \/ (InumCount * DINODE) % BSIZE # 0 THEN 1 ELSE 0

\* Mutant of BlocksFor: a last block that is not full is not counted.
BlocksForFloor(bytes) == bytes \div BSIZE

\* The blocks that so many bytes need.
BlocksFor(bytes) == bytes \div BSIZE + IF bytes % BSIZE = 0 THEN 0 ELSE 1

Dinode(type, size, start, n) ==
  [type |-> type, size |-> size, startblkno |-> start, nblocks |-> n]

\* ialloc: the next inode number gets a zeroed dinode.
Ialloc(seq, type) == Append(seq, Dinode(type, 0, 0, 0))

\* iappend: n more bytes of inode inum, block after block from its start.
Written(inum, start, size, n) ==
  {<<start + b, inum, b>> : b \in (size \div BSIZE)..((size + n - 1) \div BSIZE)}

Own(o, W) == [k \in DOMAIN o \cup {w[1] : w \in W} |->
                IF \E w \in W : w[1] = k
                THEN LET w == CHOOSE w \in W : w[1] = k IN <<w[2], w[3]>> ELSE o[k]]

Init ==
  /\ pc = "super"
  /\ todo \in UNION {[1..n -> 0..MaxSize] : n \in 0..MaxFiles}
  /\ nfiles = Len(todo)
  /\ inodes = <<>> /\ root = <<>> /\ marked = {}
  /\ owner = [k \in {} |-> <<0, 0>>]
  /\ freeblock = 0

\* The super block, the zeroed disk, and the inode file.
Super ==
  /\ pc = "super"
  /\ inodes' = <<Dinode("T_FILE", InumCount * DINODE, INODESTART, InodeFileBlocks)>>
  /\ freeblock' = INODESTART + InodeFileBlocks
  /\ pc' = "root"
  /\ UNCHANGED <<todo, nfiles, owner, root, marked>>

RootSize == (nfiles + 3) * DIRENT

\* An entry of the root directory: iappend of one dirent.
Link(o, len, inum) == Own(o, Written(ROOTINO, inodes'[ROOTINO + 1].startblkno, len * DIRENT, DIRENT))

\* The root directory with "." and "..". Its size, which the appends count up
\* and the end of main sets to the one computed here, is the latter at once.
RootDir ==
  LET b == BlocksFor(RootSize)
      dir == Dinode("T_DIR", RootSize, freeblock, b)
  IN
  /\ pc = "root"
  /\ inodes' = Append(inodes, dir)
  /\ freeblock' = freeblock + b
  /\ root' = <<ROOTINO, ROOTINO>>
  /\ owner' = Own(owner, Written(ROOTINO, freeblock, 0, 2 * DIRENT))
  /\ pc' = "console"
  /\ UNCHANGED <<todo, nfiles, marked>>

\* The console's inode and entry.
Console ==
  /\ pc = "console"
  /\ inodes' = Ialloc(inodes, "T_DEV")
  /\ root' = Append(root, Len(inodes))
  /\ owner' = Link(owner, Len(root), Len(inodes))
  /\ pc' = "files"
  /\ UNCHANGED <<todo, nfiles, freeblock, marked>>

\* One turn of the loop over the files: an inode, an entry, the data from the
\* first free block on, and then the length of the extent.
AddFile ==
  LET inum == Len(inodes)
      size == Head(todo)
      b == BlocksFor(size)
      din == Dinode("T_FILE", size, freeblock, b)
  IN
  /\ pc = "files" /\ todo # <<>>
  /\ todo' = Tail(todo)
  /\ inodes' = Append(inodes, din)
  /\ root' = Append(root, inum)
  /\ owner' = Own(Link(owner, Len(root), inum),
                  IF size = 0 THEN {} ELSE Written(inum, freeblock, 0, size))
  /\ freeblock' = freeblock + b
  /\ UNCHANGED <<pc, nfiles, marked>>

\* balloc: the first blocks, up to the first free one, are allocated; the
\* loop fills one block of the bitmap after the other.
Balloc ==
  /\ pc = "files" /\ todo = <<>>
  /\ marked' = 0..freeblock - 1
  /\ pc' = "done"
  /\ UNCHANGED <<todo, nfiles, inodes, owner, root, freeblock>>

Next == Super \/ RootDir \/ Console \/ AddFile \/ Balloc

Spec == Init /\ [][Next]_vars

-----------------------------------------------------------------------------
(* Properties *)

Extent(i) == inodes[i + 1].startblkno..inodes[i + 1].startblkno + inodes[i + 1].nblocks - 1
Inums == 0..Len(inodes) - 1

\* In the finished image each inode's data lie in its own extent, the extents
\* are apart from each other and from the metadata, and each is as long as
\* the inode's size needs. The bitmap calls all of them allocated, so that the
\* kernel's getfreestartblkno gives none of them to another file.
ImageSound ==
  pc = "done" =>
    /\ \A k \in DOMAIN owner : k \in Extent(owner[k][1])
    /\ \A i, j \in Inums : i # j => Extent(i) \cap Extent(j) = {}
    /\ \A i \in Inums : /\ Extent(i) \cap 0..INODESTART - 1 = {}
                        /\ inodes[i + 1].size <= inodes[i + 1].nblocks * BSIZE
                        /\ Extent(i) \subseteq marked
    /\ 0..INODESTART - 1 \subseteq marked
=============================================================================
