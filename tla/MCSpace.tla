-------------------------------- MODULE MCSpace --------------------------------
(***************************************************************************)
(* The address space of one process for TLC: its regions, its page table,   *)
(* and the arguments exec puts on its stack.  Each part has state of its    *)
(* own; a behaviour exercises the part it starts with.                      *)
(***************************************************************************)
EXTENDS Integers

VARIABLES part,
  free, others, base, size, chain, used, pt, phase, call, touch, why,   \* regions
  tfree, tothers, pdpt, dirs, tabs, ptes, data, todo, a, tphase,        \* tables
  args, mem, va_space, ptrs, write, pc                                  \* arguments

Regions == <<free, others, base, size, chain, used, pt, phase, call, touch, why>>
Tables == <<tfree, tothers, pdpt, dirs, tabs, ptes, data, todo, a, tphase>>
Arguments == <<args, mem, va_space, ptrs, write, pc>>
vars == <<part, Regions, Tables, Arguments>>

\* Fourteen pages of two bytes: two programs, requests below, at and above a page,
\* and touches in, at the edges of and outside the window of a three-page stack.
V == INSTANCE VRegion WITH
  PGSIZE <- 2, VPIPPAGE <- 2, NPAGES <- 14, STACKPAGES <- 3, SZ_2G <- 36, WORD <- 128,
  Programs <- {3, 4}, Requests <- {0, 1, 2, 7}, Touched <- {4, 29, 30, 32, 35}

\* Tables of two entries and four directories, two of them above the stack.
T == INSTANCE Pgtable WITH
  NPT <- 2, NPD <- 2, NPDPT <- 4, NPAGES <- 14, MaxHeap <- 5, MaxStack <- 2,
  free <- tfree, others <- tothers, phase <- tphase

\* Lengths around each multiple of the word, up to the whole of the page.
Lens == UNION {{8 * k - 2, 8 * k - 1, 8 * k} \cap Nat : k \in 0..8} \cup {1, 9, 17}
A == INSTANCE ExecArgs WITH PGSIZE <- 64, SZ_2G <- 128, MaxArgs <- 2, Lengths <- Lens

ASSUME V!SizesAssumption /\ T!LevelsAssumption /\ A!PageAssumption

Init ==
  /\ part \in {"regions", "tables", "arguments"}
  /\ V!Init /\ T!Init
  /\ IF part = "arguments" THEN TRUE ELSE args = <<>>
  /\ A!Init

InRegions == part = "regions" /\ UNCHANGED <<part, Tables, Arguments>>
InTables == part = "tables" /\ UNCHANGED <<part, Regions, Arguments>>
InArguments == part = "arguments" /\ UNCHANGED <<part, Regions, Tables>>

Next == (InRegions /\ V!Next) \/ (InTables /\ T!Next) \/ (InArguments /\ A!Next)

\* The processor runs the loops of exec on.
Spec == Init /\ [][Next]_vars /\ WF_vars(InArguments /\ A!Next)

--------------------------------------------------------------------------------
\* The pages in use are those of the regions, after refused calls too (vregionaddmap).
RegionsExact == V!RegionsExact
\* Only lack of memory kills a program that touches its stack window (trap).
StackServed == V!StackServed
\* freevm returns every page of the space once (deallocuvm).
FreedAll == T!FreedAll
\* The strings and the array of a successful exec are whole.
ArgvIntact == A!ArgvIntact
\* Writing the arguments ends unless a write begins on a page boundary.
WriteEnds == part = "arguments" => A!WriteEnds
================================================================================
