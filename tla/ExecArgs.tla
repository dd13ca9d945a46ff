------------------------------- MODULE ExecArgs -------------------------------
(***************************************************************************)
(* How exec (kernel/exec.c) lays the arguments of a program on its new      *)
(* one-page stack through vspacewritetova (kernel/vspace.c): the strings    *)
(* from the top of the page down, then the array of a dummy return address, *)
(* the pointers to the strings and a null.  A byte of memory is the pair of *)
(* the object it belongs to (string i, or 0 for the array) and its offset   *)
(* there, so that a byte that is overwritten or misplaced shows.            *)
(***************************************************************************)
EXTENDS Integers, Sequences

CONSTANTS
  PGSIZE,   \* bytes of a page, a multiple of the word
  SZ_2G,    \* the top of the stack
  MaxArgs,  \* bound: arguments
  Lengths   \* bound: lengths of an argument

PageAssumption ==
  /\ PGSIZE \in Nat /\ PGSIZE % 8 = 0 /\ SZ_2G % PGSIZE = 0 /\ SZ_2G > PGSIZE
  /\ MaxArgs \in Nat /\ Lengths \subseteq Nat

VARIABLES
  args,      \* strlen of each argument
  mem,       \* the stack page
  va_space,  \* exec's cursor, the lowest address in use
  ptrs,      \* userStack_args, the addresses of the strings
  write,     \* the arguments of vspacewritetova: va, bytes left, offset in the data
  pc         \* "string", "array", "done", "failed"

vars == <<args, mem, va_space, ptrs, write, pc>>

Page == (SZ_2G - PGSIZE)..(SZ_2G - 1)
Argvs == UNION {[1..n -> Lengths] : n \in 0..MaxArgs}
Nothing == <<-1, 0>>
NoWrite == [va |-> 0, sz |-> 0, off |-> 0]

PGROUNDUP(a) == ((a + PGSIZE - 1) \div PGSIZE) * PGSIZE
Least(a, b) == IF a < b THEN a ELSE b

Init ==
  /\ args \in Argvs
  /\ mem = [a \in Page |-> Nothing]
  /\ va_space = SZ_2G /\ ptrs = <<>>
  /\ write = NoWrite /\ pc = "string"

--------------------------------------------------------------------------------
\* The string being written, or the array after the last.
Current == Len(ptrs) + 1
Writing == write.sz > 0

RoomUnrounded(len) == len + 1 + 8   \* mutant: not rounded to words
Room(len) == ((len + 1 + 8) \div 8) * 8

Start(va, sz) == va_space' = va /\ write' = [va |-> va, sz |-> sz, off |-> 0]

PushString ==
  /\ pc = "string" /\ ~Writing /\ Current <= Len(args)
  /\ Start(va_space - Room(args[Current]), args[Current] + 1)
  /\ UNCHANGED <<args, mem, ptrs, pc>>

PushArray ==
  /\ pc = "string" /\ ~Writing /\ Current = Len(args) + 1
  /\ Start(va_space - (Len(args) + 2) * 8, (Len(args) + 2) * 8)
  /\ pc' = "array"
  /\ UNCHANGED <<args, mem, ptrs>>

\* What an offset of the data is a byte of.
Datum(off) == IF pc = "array" THEN <<0, off>> ELSE <<Current, off>>

\* One iteration of vspacewritetova; wsz is 0 when va is the first byte of a page.
ChunkShort == Least(PGROUNDUP(write.va) - write.va - 1, write.sz)  \* mutant: off by one
Chunk == Least(PGROUNDUP(write.va) - write.va, write.sz)

WriteSome ==
  /\ Writing /\ write.va \in Page
  /\ mem' = [a \in Page |-> IF a \in write.va..(write.va + Chunk - 1)
                            THEN Datum(write.off + a - write.va) ELSE mem[a]]
  /\ write' = IF write.sz = Chunk THEN NoWrite
              ELSE [va |-> write.va + Chunk, sz |-> write.sz - Chunk, off |-> write.off + Chunk]
  /\ ptrs' = IF write.sz = Chunk /\ pc = "string" THEN Append(ptrs, va_space) ELSE ptrs
  /\ pc' = IF write.sz = Chunk /\ pc = "array" THEN "done" ELSE pc
  /\ UNCHANGED <<args, va_space>>

\* va2vregion finds no region: the stack has one page.
WriteRefused ==
  /\ Writing /\ write.va \notin Page
  /\ pc' = "failed" /\ write' = NoWrite
  /\ UNCHANGED <<args, mem, va_space, ptrs>>

Next == PushString \/ PushArray \/ WriteSome \/ WriteRefused
Spec == Init /\ [][Next]_vars

--------------------------------------------------------------------------------
\* When exec succeeds, rsp is word aligned, the array at rsp is whole, and each
\* pointer leads to its own string and terminator, which no later push touched
\* (the sizes exec reserves against the sizes it writes).
ArgvIntact ==
  pc = "done" =>
    /\ va_space % 8 = 0 /\ Len(ptrs) = Len(args)
    /\ \A k \in 0..((Len(args) + 2) * 8 - 1) : mem[va_space + k] = <<0, k>>
    /\ \A i \in DOMAIN args : \A k \in 0..args[i] : mem[ptrs[i] + k] = <<i, k>>

\* exec ends, but for one alignment: a write that begins on a page boundary (the
\* strings or the array fill the page to its first byte) is never advanced by
\* vspacewritetova, whose iteration then writes nothing.
WriteEnds == <>(pc \in {"done", "failed"} \/ (Writing /\ write.va = SZ_2G - PGSIZE))
================================================================================
