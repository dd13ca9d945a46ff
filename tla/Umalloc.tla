------------------------------ MODULE Umalloc ------------------------------
(***************************************************************************)
(* The programs' allocator (user/umalloc.c): a circular list of free       *)
(* blocks in address order, first fit behind freep, blocks joined when     *)
(* they are freed, and sbrk when nothing fits. Memory is counted in units  *)
(* of a header; address 0 is base, the heap starts at 2.                   *)
(***************************************************************************)
EXTENDS Integers, FiniteSets

CONSTANTS
  Chunk,      \* what morecore asks for at least: 4096 units
  HeapEnd,    \* sbrk refuses to go beyond
  Units       \* sizes asked for, the header included

base == 0
HeapStart == 2
NULL == -1

\* The state of the allocator is a record: headers, freep and the break.
VARIABLES
  m,          \* [ptr, size, freep, brk]
  given       \* ghost: address |-> size of the blocks in use

vars == <<m, given>>

Init ==
  /\ m = [ptr |-> [a \in 0..HeapEnd |-> base], size |-> [a \in 0..HeapEnd |-> 0],
          freep |-> NULL, brk |-> HeapStart]
  /\ given = [a \in {} |-> 0]

-----------------------------------------------------------------------------
(* free *)

Between(h, p, bp) == bp > p /\ bp < h.ptr[p]

AtEnds(h, p, bp) == p >= h.ptr[p] /\ (bp > p \/ bp < h.ptr[p])

\* The free block behind which bp belongs; NULL if the loop never ends.
RECURSIVE Place(_, _, _, _)
Place(h, p, bp, steps) ==
  CASE steps = 0 -> NULL
    [] steps > 0 /\ (Between(h, p, bp) \/ AtEnds(h, p, bp)) -> p
    [] OTHER -> Place(h, h.ptr[p], bp, steps - 1)

\* bp is linked in behind p and joined with both neighbours.
Joined(h, p, bp) ==
  LET next == h.ptr[p]
      up == bp + h.size[bp] = next
      size == h.size[bp] + IF up THEN h.size[next] ELSE 0
      after == IF up THEN h.ptr[next] ELSE next
      down == p + h.size[p] = bp
  IN [h EXCEPT !.size = IF down THEN [@ EXCEPT ![p] = @ + size, ![bp] = size] ELSE [@ EXCEPT ![bp] = size],
               !.ptr = IF down THEN [@ EXCEPT ![p] = after, ![bp] = after]
                       ELSE [@ EXCEPT ![bp] = after, ![p] = bp],
               !.freep = p]

free(h, bp) == Joined(h, Place(h, h.freep, bp, HeapEnd), bp)

-----------------------------------------------------------------------------
(* malloc *)

Larger(a, b) == IF a > b THEN a ELSE b

\* sbrk for at least Chunk units, which are then freed.
CanGrow(h, nu) == h.brk + Larger(nu, Chunk) <= HeapEnd + 1
morecore(h, nu) ==
  free([h EXCEPT !.size = [@ EXCEPT ![h.brk] = Larger(nu, Chunk)],
                 !.brk = @ + Larger(nu, Chunk)], h.brk)

\* Mutant of Taken: the remainder keeps the whole size.
TakenWhole(h, prevp, p, nunits) ==
  LET rest == h.size[p] - nunits IN
  [heap |-> IF rest = 0 THEN [h EXCEPT !.ptr = [@ EXCEPT ![prevp] = h.ptr[p]], !.freep = prevp]
            ELSE [h EXCEPT !.size = [@ EXCEPT ![p + rest] = nunits], !.freep = prevp],
   block |-> p + rest]

\* An exact fit is unlinked, the end of a larger block is cut off.
Taken(h, prevp, p, nunits) ==
  LET rest == h.size[p] - nunits IN
  [heap |-> IF rest = 0 THEN [h EXCEPT !.ptr = [@ EXCEPT ![prevp] = h.ptr[p]], !.freep = prevp]
            ELSE [h EXCEPT !.size = [@ EXCEPT ![p] = rest, ![p + rest] = nunits], !.freep = prevp],
   block |-> p + rest]

\* The search is back where it started.
Around(h, p) == p = h.freep

RECURSIVE Search(_, _, _, _)
Search(h, prevp, p, nunits) ==
  CASE h.size[p] >= nunits -> Taken(h, prevp, p, nunits)
    [] h.size[p] < nunits /\ Around(h, p) ->
         IF CanGrow(h, nunits)
         THEN LET g == morecore(h, nunits) IN Search(g, g.freep, g.ptr[g.freep], nunits)
         ELSE [heap |-> h, block |-> NULL]
    [] OTHER -> Search(h, p, h.ptr[p], nunits)

malloc(h, nunits) ==
  LET g == IF h.freep = NULL THEN [h EXCEPT !.ptr = [@ EXCEPT ![base] = base], !.freep = base] ELSE h
  IN Search(g, g.freep, g.ptr[g.freep], nunits)

\* The blocks that the list reaches in as many steps as there are addresses.
RECURSIVE Reach(_, _, _)
Reach(h, p, steps) == IF steps = 0 THEN {} ELSE {p} \cup Reach(h, h.ptr[p], steps - 1)
OnList(h) == Reach(h, h.freep, HeapEnd)

\* Fields that are not those of a header are memory like any other: 0 here.
Tidy(h, blocks) ==
  [h EXCEPT !.ptr = [a \in 0..HeapEnd |-> IF a \in OnList(h) THEN h.ptr[a] ELSE base],
            !.size = [a \in 0..HeapEnd |-> IF a \in OnList(h) \cup blocks THEN h.size[a] ELSE 0]]

Malloc(nunits) ==
  LET r == malloc(m, nunits) IN
  /\ given' = IF r.block = NULL THEN given
              ELSE [a \in DOMAIN given \cup {r.block} |-> IF a = r.block THEN nunits ELSE given[a]]
  /\ m' = Tidy(r.heap, DOMAIN given')

\* A program frees what it was given, once.
Free(bp) ==
  /\ bp \in DOMAIN given
  /\ given' = [a \in DOMAIN given \ {bp} |-> given[a]]
  /\ m' = Tidy(free(m, bp), DOMAIN given')

Next == (\E n \in Units : Malloc(n)) \/ \E bp \in DOMAIN given : Free(bp)

Spec == Init /\ [][Next]_vars

-----------------------------------------------------------------------------
(* Properties *)

FreeBlocks == IF m.freep = NULL THEN {} ELSE OnList(m) \ {base}
Extent(a, n) == a..a + n - 1

\* Every unit of the heap is in exactly one block, in use with its size intact
\* or free and on the list: nothing is lost, nothing is given out twice.
HeapTiled ==
  LET blocks == FreeBlocks \cup DOMAIN given IN
  /\ UNION {Extent(a, m.size[a]) : a \in blocks} = HeapStart..m.brk - 1
  /\ \A a, b \in blocks : a # b => Extent(a, m.size[a]) \cap Extent(b, m.size[b]) = {}
  /\ \A a \in DOMAIN given : m.size[a] = given[a] /\ a \notin FreeBlocks
=============================================================================
