------------------------------- MODULE Extent -------------------------------
(***************************************************************************)
(* Where the bytes of a file are: readi, writei, appendi and the allocator *)
(* getfreestartblkno of kernel/fs.c, against files as sequences of bytes.  *)
(* A file is a list of extents; the bytes a call touches are a sequence of *)
(* <<block, offset in the block>>, so that two calls agree on a file's     *)
(* contents when they compute the same sequence.                           *)
(*                                                                         *)
(* A byte is <<number of the write, position in it>>, with 0 for what mkfs *)
(* wrote. Each file is used under its inode's lock, so a call is one       *)
(* action. The sums of offsets and lengths stay far below the 2^32 at      *)
(* which readi and writei refuse a call.                                   *)
(***************************************************************************)
EXTENDS Integers, Sequences, FiniteSets, SequencesExt

CONSTANTS
  BSIZE,        \* bytes of a block (512)
  EXTENT_N,     \* extents of an inode (7)
  EXTBLOCKS,    \* blocks of a new extent, and of a byte of the bitmap (8)
  NBITMAP,      \* blocks of the bitmap
  NBLOCKS,      \* sb.nblocks
  Built,        \* blocks of the file that mkfs has built
  BuiltSize,    \* its size in bytes
  MaxOps,       \* bound of the model: writes
  Writes,       \* the offsets and lengths of the writes explored, per file
  Rewrites      \* whether writes may go to a second extent once it exists

ExtentAssumption ==
  /\ {BSIZE, EXTENT_N, EXTBLOCKS, NBITMAP, NBLOCKS, Built} \subseteq Nat \ {0}
  /\ BuiltSize \in (Built - 1) * BSIZE + 1..Built * BSIZE   \* as many blocks as it needs
  /\ MaxOps \in Nat /\ Rewrites \in BOOLEAN

BMAPSTART == 2
INODESTART == BMAPSTART + NBITMAP
NoExtent == [startblkno |-> 0, nblocks |-> 0]
Files == {"built", "created"}

\* ip->size: what mkfs or createi has put into the inode. writei and appendi
\* never change it.
Size(f) == IF f = "built" THEN BuiltSize ELSE 0

VARIABLES
  data,      \* ip->data of each file
  bitmap,    \* the bytes of the bitmap that are not 0x00
  disk,      \* the bytes of the disk that were written, by address
  contents,  \* what each file holds, by the calls made
  ops

vars == <<data, bitmap, disk, contents, ops>>

-----------------------------------------------------------------------------
(* Operators *)

Lesser(a, b) == IF a < b THEN a ELSE b

\* The capacity: the sum over the extents (a fold, as getCapacity's loop).
GetCapacity(x) == FoldSeq(LAMBDA e, sum : sum + e.nblocks * BSIZE, 0, x)

\* The loop that moves to the extent where the offset is: its number, and the
\* offset in it.
RECURSIVE Seek(_, _, _, _)
Seek(x, d, size, off) ==
  IF d <= EXTENT_N /\ size + x[d].nblocks * BSIZE < off
  THEN Seek(x, d + 1, size + x[d].nblocks * BSIZE, off)
  ELSE <<d, off - size>>

ChunkLen(left, size) == Lesser(left, BSIZE - (size % BSIZE))

\* The bytes of one block that one turn of a loop copies.
Chunk(block, size, m) == [i \in 1..m |-> <<block, (size % BSIZE) + i - 1>>]

\* The loop of readi from offset size of extent d. Past the last extent the
\* code reads memory that is not an extent: the sequence ends there.
RECURSIVE ReadLoop(_, _, _, _, _)
ReadLoop(x, d, size, off, left) ==
  IF left = 0 \/ d > EXTENT_N THEN <<>>
  ELSE IF size < x[d].nblocks * BSIZE
  THEN LET m == ChunkLen(left, size) IN
       Chunk(x[d].startblkno + size \div BSIZE, size, m)
         \o ReadLoop(x, d, size + m, off + m, left - m)
  ELSE ReadLoop(x, d + 1, off - size, off, left)

\* The loop of writei, whose block is counted from the start of the file.
RECURSIVE WriteLoop(_, _, _, _, _)
WriteLoop(x, d, size, off, left) ==
  IF left = 0 \/ d > EXTENT_N THEN <<>>
  ELSE IF size < x[d].nblocks * BSIZE
  THEN LET m == ChunkLen(left, size) IN
       Chunk(x[d].startblkno + off \div BSIZE, size, m)
         \o WriteLoop(x, d, size + m, off + m, left - m)
  ELSE WriteLoop(x, d + 1, off - size, off, left)

\* Mutant of FreeBytes: what was given away is not marked.
FreeBytesAll(bm) == (0..NBITMAP - 1) \X (0..BSIZE - 1)

\* The bytes of the bitmap that are 0x00, as <<bitmap blocks from the end, j>>.
FreeBytes(bm) == ((0..NBITMAP - 1) \X (0..BSIZE - 1)) \ bm

Before(a, b) == a[1] < b[1] \/ (a[1] = b[1] /\ a[2] <= b[2])
FirstFree(bm) == CHOOSE a \in FreeBytes(bm) : \A b \in FreeBytes(bm) : Before(a, b)

\* The block getfreestartblkno returns for a byte.
StartBlock(a) == NBLOCKS + INODESTART - a[1] * BSIZE - (a[2] + 1) * EXTBLOCKS

\* getfreestartblkno: the block, and the bitmap; block 0 when nothing is free.
GetFreeStartBlkNo(bm) ==
  IF FreeBytes(bm) = {} THEN [start |-> 0, bitmap |-> bm]
  ELSE [start |-> StartBlock(FirstFree(bm)), bitmap |-> bm \cup {FirstFree(bm)}]

\* appendi's loop; st holds the extents, the bitmap and the bytes so far. The
\* for statement moves to the next extent after every block.
RECURSIVE AppendLoop(_, _, _, _)
AppendLoop(st, d, size, left) ==
  IF left = 0 \/ d > EXTENT_N THEN st
  ELSE LET free == GetFreeStartBlkNo(st.bitmap)
           new == [st EXCEPT !.bitmap = free.bitmap,
                             !.data[d] = [startblkno |-> free.start, nblocks |-> EXTBLOCKS]]
           s == IF st.data[d].nblocks = 0 THEN new ELSE st
           m == ChunkLen(left, size)
       IN IF size < s.data[d].nblocks * BSIZE
          THEN AppendLoop([s EXCEPT !.bytes = @ \o
                             Chunk(s.data[d].startblkno + size \div BSIZE, size, m)],
                          d + 1, size + m, left - m)
          ELSE AppendLoop(s, d + 2, 0, left)

FirstUnused(x) == CHOOSE d \in 1..EXTENT_N + 1 :
  /\ d = EXTENT_N + 1 \/ x[d].nblocks = 0
  /\ \A e \in 1..d - 1 : x[e].nblocks # 0

Refused == <<-1>>

\* readi and writei of n bytes at off, as addresses; readi of an inode of the
\* given size refuses an offset above it, but does not cut n at the size.
Readi(x, size, off, n) ==
  IF off > size THEN Refused
  ELSE LET s == Seek(x, 1, 0, off) IN ReadLoop(x, s[1], s[2], off, n)

Writei(x, bm, off, n) ==
  LET s == Seek(x, 1, 0, off)
      capacity == GetCapacity(x)
      append == IF off + n > capacity THEN off + n - capacity ELSE 0
      st == [data |-> x, bitmap |-> bm,
             bytes |-> WriteLoop(x, s[1], s[2], off, n - append)]
  IN AppendLoop(st, FirstUnused(x), 0, append)

-----------------------------------------------------------------------------
(* The files *)

\* mkfs gives a file one extent, here at the first block after the inode
\* file's, and its bytes; createi makes an inode without extents.
FirstBlock == INODESTART + 1

Init ==
  /\ data = [f \in Files |-> [d \in 1..EXTENT_N |->
               IF f = "built" /\ d = 1
               THEN [startblkno |-> FirstBlock, nblocks |-> Built] ELSE NoExtent]]
  /\ bitmap = {}
  /\ disk = [a \in {<<FirstBlock + i \div BSIZE, i % BSIZE>> : i \in 0..BuiltSize - 1} |->
               <<0, (a[1] - FirstBlock) * BSIZE + a[2] + 1>>]
  /\ contents = [f \in Files |-> [i \in 1..Size(f) |-> <<0, i>>]]
  /\ ops = 0

\* filewrite: the bytes of one write, at an offset inside what the file has.
Write(f, off, n) ==
  LET st == Writei(data[f], bitmap, off, n)
      bytes == [i \in 1..n |-> <<ops + 1, i>>]
      old == contents[f]
      first == data[f][1].nblocks * BSIZE
  IN
  /\ ops < MaxOps /\ off <= Len(old)
  /\ Rewrites \/ off + n <= first \/ GetCapacity(data[f]) = first
  /\ ops' = ops + 1
  /\ data' = [data EXCEPT ![f] = st.data]
  /\ bitmap' = st.bitmap
  /\ disk' = [a \in DOMAIN disk \cup ToSet(st.bytes) |->
                IF \E i \in 1..Len(st.bytes) : st.bytes[i] = a
                THEN bytes[CHOOSE i \in 1..Len(st.bytes) : st.bytes[i] = a]
                ELSE disk[a]]
  /\ contents' = [contents EXCEPT ![f] =
       [i \in 1..(IF off + n > Len(old) THEN off + n ELSE Len(old)) |->
          IF i \in off + 1..off + n THEN bytes[i - off] ELSE old[i]]]

Next == \E f \in Files : \E w \in Writes[f] : Write(f, w[1], w[2])

Spec == Init /\ [][Next]_vars

-----------------------------------------------------------------------------
(* Properties *)

\* A read at any offset up to the inode's size, and of any length inside what
\* the file holds, returns the last bytes written there: readi finds each byte
\* where writei or appendi has put it, across blocks and from one extent into
\* the next. An offset above the size is refused, whatever was written there.
ReadsBack ==
  \A f \in Files : \A off \in 0..Size(f) : \A n \in 0..Len(contents[f]) - off :
    LET a == Readi(data[f], Size(f), off, n) IN
    Len(a) = n /\ \A i \in 1..n : a[i] \in DOMAIN disk /\ disk[a[i]] = contents[f][off + i]
=============================================================================
