-------------------------------- MODULE Pgtable --------------------------------
(***************************************************************************)
(* The page table of one address space (kernel/x86_64vm.c): the three lower *)
(* levels of tables that walkpml4 allocates, their release and rebuilding   *)
(* by vspaceinvalidate (kernel/vspace.c) whenever a region changes, and     *)
(* freevm, whose deallocuvm jumps over missing tables.  The rest of the     *)
(* kernel takes and gives pages between any two steps.                      *)
(*                                                                         *)
(* An address is a page number: the level indices are its digits.  Only the *)
(* user half is modelled (one entry of the top level); a leaf page's frame  *)
(* is one page of memory.  Code and heap fill the space from 0 up, the      *)
(* stack from the end of the second directory (2G) down.                    *)
(***************************************************************************)
EXTENDS Integers, FiniteSets, Bitwise

CONSTANTS
  NPT, NPD, NPDPT,  \* entries of a table, a directory, a pointer table (512 in the code)
  NPAGES,           \* pages of memory
  MaxHeap, MaxStack \* bounds: pages of code and heap, and of stack

LevelsAssumption ==
  /\ {NPT, NPD, NPDPT, NPAGES, MaxHeap, MaxStack} \subseteq Nat \ {0}
  /\ NPDPT > 2 /\ MaxHeap + MaxStack <= 2 * NPD * NPT

Space == NPDPT * NPD * NPT      \* SZ_4G, in pages
Top == 2 * NPD * NPT            \* SZ_2G

PD_INDEX(a) == (a \div NPT) % NPD
PDPT_INDEX(a) == (a \div (NPT * NPD)) % NPDPT

\* The fields are put together with | : a field that overflows meets the next.
PGADDR(l3, d) == (l3 * NPD * NPT) | (d * NPT)

VARIABLES
  free, others,       \* free pages, and pages of the rest of the kernel
  pdpt, dirs, tabs,   \* is the pointer table there; directories; tables <<l3, d>>
  ptes,               \* leaf entries present
  data,               \* the pages of the regions, each with a frame
  todo,               \* pages vspaceinvalidate has still to map
  a,                  \* deallocuvm's cursor
  phase

pool == <<free, others>>
tables == <<pdpt, dirs, tabs, ptes>>
vars == <<pool, tables, data, todo, a, phase>>

Lowest(S) == CHOOSE x \in S : \A y \in S : x <= y
TablePages == (IF pdpt THEN 1 ELSE 0) + Cardinality(dirs) + Cardinality(tabs)

Init ==   \* vspaceinit: the top level only
  /\ free = NPAGES - 1 /\ others = 0
  /\ pdpt = FALSE /\ dirs = {} /\ tabs = {} /\ ptes = {}
  /\ data = {} /\ todo = {} /\ a = 0 /\ phase = "run"

--------------------------------------------------------------------------------
(* A region gets a page (vregionaddmap), and the space is rebuilt *)

Heap == {p \in data : p < Top - MaxStack}
Stack == data \ Heap

Grow(p) ==
  /\ phase = "run" /\ free > 0
  /\ free' = free - 1 /\ data' = data \cup {p} /\ phase' = "rebuild"
  /\ UNCHANGED <<others, tables, todo, a>>

\* exec maps the stack's first page before the space is first rebuilt.
GrowHeap == Stack # {} /\ Cardinality(Heap) < MaxHeap /\ Grow(Cardinality(Heap))
GrowStack == Cardinality(Stack) < MaxStack /\ Grow(Top - 1 - Cardinality(Stack))

Unmap ==
  /\ phase = "rebuild" /\ phase' = "map"
  /\ free' = free + TablePages
  /\ pdpt' = FALSE /\ dirs' = {} /\ tabs' = {} /\ ptes' = {}
  /\ todo' = data
  /\ UNCHANGED <<others, data, a>>

\* walkpml4 with alloc: the tables on the way to p that are missing.
Missing(p) ==
  (IF pdpt THEN 0 ELSE 1) + (IF PDPT_INDEX(p) \in dirs THEN 0 ELSE 1)
  + (IF <<PDPT_INDEX(p), PD_INDEX(p)>> \in tabs THEN 0 ELSE 1)

Page == Lowest(todo)

MapPage ==
  /\ phase = "map" /\ todo # {}
  /\ free >= Missing(Page) /\ Page \notin ptes
  /\ free' = free - Missing(Page)
  /\ pdpt' = TRUE /\ dirs' = dirs \cup {PDPT_INDEX(Page)}
  /\ tabs' = tabs \cup {<<PDPT_INDEX(Page), PD_INDEX(Page)>>}
  /\ ptes' = ptes \cup {Page} /\ todo' = todo \ {Page}
  /\ UNCHANGED <<others, data, a, phase>>

\* mappages: "not enough memory" (or "remap").
MapPanics ==
  /\ phase = "map" /\ todo # {}
  /\ free < Missing(Page) \/ Page \in ptes
  /\ phase' = "panic"
  /\ UNCHANGED <<pool, tables, data, todo, a>>

Rebuilt ==
  /\ phase = "map" /\ todo = {} /\ phase' = "run"
  /\ UNCHANGED <<pool, tables, data, todo, a>>

--------------------------------------------------------------------------------
(* freevm *)

FreeBegin ==
  /\ phase = "run" /\ phase' = "dealloc" /\ a' = 0
  /\ UNCHANGED <<pool, tables, data, todo>>

\* The last page below the next entry of the level that is missing.
NextPageFar(p) ==   \* mutant: the address of the entry itself
  CASE ~pdpt -> Space
    [] pdpt /\ PDPT_INDEX(p) \notin dirs -> PGADDR(PDPT_INDEX(p) + 1, 0)
    [] OTHER -> PGADDR(PDPT_INDEX(p), PD_INDEX(p) + 1)

find_next_possible_page(p) ==
  CASE ~pdpt -> Space - 1
    [] pdpt /\ PDPT_INDEX(p) \notin dirs -> PGADDR(PDPT_INDEX(p) + 1, 0) - 1
    [] OTHER -> PGADDR(PDPT_INDEX(p), PD_INDEX(p) + 1) - 1

Walks(p) == pdpt /\ PDPT_INDEX(p) \in dirs /\ <<PDPT_INDEX(p), PD_INDEX(p)>> \in tabs

deallocuvm ==
  /\ phase = "dealloc" /\ a < Space
  /\ a' = IF Walks(a) THEN a + 1 ELSE find_next_possible_page(a) + 1
  /\ free' = IF Walks(a) /\ a \in ptes THEN free + 1 ELSE free
  /\ ptes' = IF Walks(a) THEN ptes \ {a} ELSE ptes
  /\ UNCHANGED <<others, pdpt, dirs, tabs, data, todo, phase>>

\* freevm_pdpt, freevm_pgdir, and the top level.
FreeTables ==
  /\ phase = "dealloc" /\ a >= Space /\ phase' = "freed"
  /\ free' = free + TablePages + 1
  /\ pdpt' = FALSE /\ dirs' = {} /\ tabs' = {} /\ data' = {}
  /\ UNCHANGED <<others, ptes, todo, a>>

--------------------------------------------------------------------------------
OtherTake ==
  /\ free > 0 /\ phase \notin {"panic", "freed"}
  /\ free' = free - 1 /\ others' = others + 1 /\ UNCHANGED <<tables, data, todo, a, phase>>
OtherGive ==
  /\ others > 0 /\ phase \notin {"panic", "freed"}
  /\ others' = others - 1 /\ free' = free + 1 /\ UNCHANGED <<tables, data, todo, a, phase>>

Next ==
  \/ GrowHeap \/ GrowStack \/ Unmap \/ MapPage \/ MapPanics \/ Rebuilt
  \/ FreeBegin \/ deallocuvm \/ FreeTables \/ OtherTake \/ OtherGive

Spec == Init /\ [][Next]_vars

--------------------------------------------------------------------------------
\* freevm returns every page of the space, leaves and tables, once: deallocuvm's
\* jumps over missing tables pass over no page that is mapped.
FreedAll == phase = "freed" => ptes = {} /\ free + others = NPAGES
================================================================================
