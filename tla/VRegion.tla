-------------------------------- MODULE VRegion --------------------------------
(***************************************************************************)
(* The regions of one address space, page by page: how exec lays out code  *)
(* and stack, how sbrk grows the heap by bytes and a page fault grows the   *)
(* stack, all through vregionaddmap (kernel/vspace.c), which allocates one *)
(* page per iteration and undoes its work when memory runs out.  The rest  *)
(* of the kernel allocates and frees pages between any two iterations.     *)
(*                                                                         *)
(* A page is an index into the region's list of page infos; an address is  *)
(* a byte.  What is left out: contents (Cow), copy-on-write (Cow), pages   *)
(* of the page table itself.  The user programs are linked with -N, so a   *)
(* program has one loadable segment, at address 0.                         *)
(***************************************************************************)
EXTENDS Integers, FiniteSets

CONSTANTS
  PGSIZE,     \* bytes of a page
  VPIPPAGE,   \* page infos in one page of a region's list
  NPAGES,     \* physical pages
  STACKPAGES, \* the most pages a stack grows to (10 in the code)
  SZ_2G,      \* the address the stack grows down from
  WORD,       \* the number of addresses (2^64 in the code)
  Programs,   \* sizes in memory of the programs that are executed
  Requests,   \* arguments of sbrk
  Touched     \* addresses user code touches

SizesAssumption ==
  /\ {PGSIZE, VPIPPAGE, NPAGES, STACKPAGES} \subseteq Nat \ {0}
  /\ SZ_2G % PGSIZE = 0 /\ WORD % PGSIZE = 0
  /\ NPAGES * PGSIZE < SZ_2G - STACKPAGES * PGSIZE  \* less memory than heap addresses
  /\ SZ_2G < WORD
  /\ Programs \subseteq Nat \ {0} /\ Requests \subseteq Nat
  /\ Touched \subseteq 0..SZ_2G

Regions == {"code", "heap", "stack"}

VARIABLES
  free, others,   \* free pages, and pages the rest of the kernel holds
  base, size,     \* va_base and size of each region
  chain,          \* pages in each region's list of infos
  used,           \* the infos in use, <<region, index>>
  pt,             \* the pages the page table maps, <<region, index>>
  phase,          \* what the process is doing
  call,           \* the arguments of vregionaddmap, its cursor a, and its loop
  touch, why      \* the faulting address; why the process was killed

pool == <<free, others>>
space == <<base, size, chain, used, pt>>
vars == <<pool, space, phase, call, touch, why>>

PGROUNDUP(a) == ((a + PGSIZE - 1) \div PGSIZE) * PGSIZE
Monus(a) == (a - PGSIZE) % WORD     \* a -= PGSIZE on an unsigned 64-bit a

Idx(r, va) == IF r = "stack" THEN (base[r] - 1 - va) \div PGSIZE
                             ELSE (va - base[r]) \div PGSIZE

VRBOT(r) == IF r = "stack" THEN base[r] - size[r] ELSE base[r]
VRTOP(r) == IF r = "stack" THEN base[r] ELSE base[r] + size[r]

\* The infos vspaceinvalidate visits: one per page from VRBOT up to VRTOP; x86perms
\* leaves the entry of an unused info not present.
Spanned(r) == {<<r, Idx(r, a)>> : a \in {b \in VRBOT(r)..(VRTOP(r) - 1) : b % PGSIZE = 0}}
Rebuilt == UNION {Spanned(r) : r \in Regions} \cap used

Idle == [r |-> "code", from |-> 0, sz |-> 0, a |-> 0, undo |-> FALSE]

Init ==
  /\ free = NPAGES /\ others = 0
  /\ base = [r \in Regions |-> 0] /\ size = [r \in Regions |-> 0]
  /\ chain = [r \in Regions |-> 0]
  /\ used = {} /\ pt = {}
  /\ phase = "start" /\ call = Idle /\ touch = 0 /\ why = "none"

--------------------------------------------------------------------------------
(* vregionaddmap *)

First(from) == PGROUNDUP(from)

Begin(r, from, sz) ==
  call' = [r |-> r, from |-> from, sz |-> sz, a |-> First(from), undo |-> FALSE]

More == ~call.undo /\ call.a < call.from + call.sz

\* va2vpage_info: list pages that must be allocated to reach the info of call.a.
Missing == LET need == Idx(call.r, call.a) \div VPIPPAGE + 1 IN
           IF need > chain[call.r] THEN need - chain[call.r] ELSE 0

MapPage ==
  /\ More /\ free > Missing
  /\ free' = free - Missing - 1
  /\ chain' = [chain EXCEPT ![call.r] = @ + Missing]
  /\ used' = used \cup {<<call.r, Idx(call.r, call.a)>>}
  /\ call' = [call EXCEPT !.a = @ + PGSIZE]
  /\ UNCHANGED <<others, base, size, pt, phase, touch, why>>

\* No page for the info list or none for the data: what the list got it keeps.
MapFails ==
  /\ More /\ free <= Missing
  /\ ~(chain[call.r] = 0 /\ free = 0)
  /\ chain' = [chain EXCEPT ![call.r] = @ + free]
  /\ free' = 0
  /\ call' = [call EXCEPT !.a = Monus(@), !.undo = TRUE]
  /\ UNCHANGED <<others, base, size, used, pt, phase, touch, why>>

\* The first list page is not checked: memset writes through the null pointer.
MapNull ==
  /\ More /\ chain[call.r] = 0 /\ free = 0
  /\ phase' = "null" /\ call' = Idle
  /\ UNCHANGED <<pool, space, touch, why>>

UndoingShort == call.undo /\ call.a > PGROUNDUP(call.from)   \* mutant: keeps the first page
Undoing == call.undo /\ call.a >= PGROUNDUP(call.from)

UndoPage ==
  /\ Undoing /\ <<call.r, Idx(call.r, call.a)>> \in used
  /\ free' = free + 1
  /\ used' = used \ {<<call.r, Idx(call.r, call.a)>>}
  /\ call' = [call EXCEPT !.a = Monus(@)]
  /\ UNCHANGED <<others, base, size, chain, pt, phase, touch, why>>

\* Below address 0 the cursor wraps to the top of the address space, whose index
\* is -1 in an int: the loop frees what the words before the list happen to say.
UndoStray ==
  /\ Undoing /\ <<call.r, Idx(call.r, call.a)>> \notin used
  /\ phase' = "stray" /\ call' = Idle
  /\ UNCHANGED <<pool, space, touch, why>>

Mapped(p) == phase = p /\ ~call.undo /\ ~More
Refused(p) == phase = p /\ call.undo /\ ~Undoing

--------------------------------------------------------------------------------
(* exec: the space it builds; vspacefree where it gives up *)

ExecLoad(sz) ==
  /\ phase = "start" /\ phase' = "code"
  /\ Begin("code", 0, sz)
  /\ UNCHANGED <<pool, space, touch, why>>

\* Frees the lists and the pages the page table maps.
VspaceFree ==
  /\ free' = free + Cardinality(pt) + chain["code"] + chain["heap"] + chain["stack"]
  /\ chain' = [r \in Regions |-> 0]
  /\ base' = [r \in Regions |-> 0] /\ size' = [r \in Regions |-> 0]
  /\ used' = {} /\ pt' = {}
  /\ phase' = "refused" /\ call' = Idle
  /\ UNCHANGED <<others, touch, why>>

\* vrloaddata: the file is shorter than its headers say.
LoadShort == Mapped("code") /\ VspaceFree

\* The last line of vspaceloadcode and the first of vspaceinitstack.
LoadDone ==
  /\ Mapped("code") /\ phase' = "stack"
  /\ size' = [size EXCEPT !["code"] = PGROUNDUP(call.sz), !["stack"] = PGSIZE]
  /\ base' = [base EXCEPT !["heap"] = PGROUNDUP(call.sz), !["stack"] = SZ_2G]
  /\ Begin("stack", SZ_2G - PGSIZE, PGSIZE)
  /\ UNCHANGED <<pool, chain, used, pt, touch, why>>

LoadFails == (\E p \in {"code", "stack"} : Refused(p)) /\ VspaceFree

StackDone ==
  /\ Mapped("stack") /\ phase' = "user" /\ call' = Idle
  /\ pt' = Rebuilt
  /\ UNCHANGED <<pool, base, size, chain, used, touch, why>>

--------------------------------------------------------------------------------
(* sbrk; sys_sbrk turns a negative argument into 0 *)

Sbrk(n) ==
  /\ phase = "user" /\ phase' = "sbrk"
  /\ Begin("heap", VRTOP("heap"), n)
  /\ UNCHANGED <<pool, space, touch, why>>

SbrkDone ==
  /\ Mapped("sbrk") /\ phase' = "user" /\ call' = Idle
  /\ size' = [size EXCEPT !["heap"] = @ + call.sz]
  /\ UNCHANGED <<pool, base, chain, used, touch, why>>
  /\ pt' = Rebuilt'

SbrkFails ==
  /\ Refused("sbrk") /\ phase' = "user" /\ call' = Idle
  /\ UNCHANGED <<pool, space, touch, why>>

--------------------------------------------------------------------------------
(* A page fault and growuserstack *)

\* va2vregion, and the page of the address in the page table.
Reaches(va) == \E r \in Regions : va \in VRBOT(r)..(VRTOP(r) - 1) /\ <<r, Idx(r, va)>> \in pt
InWindow(va) == va < SZ_2G /\ va >= SZ_2G - STACKPAGES * PGSIZE

Touch(va) ==
  /\ phase = "user" /\ ~Reaches(va)
  /\ phase' = "fault" /\ touch' = va
  /\ UNCHANGED <<pool, space, call, why>>

\* The instruction is executed again after the handler resumed it.
Resume ==
  /\ phase = "fault" /\ Reaches(touch)
  /\ phase' = "user" /\ touch' = 0
  /\ UNCHANGED <<pool, space, call, why>>

StackFullEarly == size["stack"] >= (STACKPAGES - 1) * PGSIZE  \* mutant: off by one
StackFull == size["stack"] >= STACKPAGES * PGSIZE

Grow ==
  /\ phase = "fault" /\ ~Reaches(touch)
  /\ InWindow(touch) /\ ~StackFull
  /\ phase' = "grow"
  /\ Begin("stack", VRBOT("stack") - PGSIZE, PGSIZE)
  /\ UNCHANGED <<pool, space, touch, why>>

GrowDone ==
  /\ Mapped("grow") /\ phase' = "fault" /\ call' = Idle
  /\ size' = [size EXCEPT !["stack"] = @ + PGSIZE]
  /\ UNCHANGED <<pool, base, chain, used, touch, why>>
  /\ pt' = Rebuilt'

Kill(reason) ==
  /\ phase' = "killed" /\ why' = reason /\ call' = Idle
  /\ UNCHANGED <<pool, space, touch>>

GrowFails == Refused("grow") /\ Kill("memory")
Segfault == phase = "fault" /\ ~Reaches(touch) /\ (~InWindow(touch) \/ StackFull) /\ Kill("address")

--------------------------------------------------------------------------------
(* The rest of the kernel: other processes allocate and free pages. *)

OtherTake ==
  /\ free > 0 /\ phase \notin {"null", "stray", "refused", "killed"}
  /\ free' = free - 1 /\ others' = others + 1
  /\ UNCHANGED <<space, phase, call, touch, why>>

OtherGive ==
  /\ others > 0 /\ phase \notin {"null", "stray", "refused", "killed"}
  /\ others' = others - 1 /\ free' = free + 1
  /\ UNCHANGED <<space, phase, call, touch, why>>

AddMap == MapPage \/ MapFails \/ MapNull \/ UndoPage \/ UndoStray
Exec == LoadShort \/ LoadDone \/ LoadFails \/ StackDone
Fault == Resume \/ Grow \/ GrowDone \/ GrowFails \/ Segfault

Next ==
  \/ \E sz \in Programs : ExecLoad(sz)
  \/ \E n \in Requests : Sbrk(n)
  \/ \E va \in Touched : Touch(va)
  \/ AddMap \/ Exec \/ SbrkDone \/ SbrkFails \/ Fault
  \/ OtherTake \/ OtherGive

Spec == Init /\ [][Next]_vars

--------------------------------------------------------------------------------
(* Properties *)

\* The infos in use are those of the pages of code, heap and stack, no page more
\* ("nothing should be added to the heap" by a refused sbrk, nor to the stack by a
\* refused fault) and no page less: while user code runs, every byte of a region
\* is mapped, whatever byte sizes sbrk was called with and however often it was
\* refused (vregionaddmap's rounding and its addmap_failure, sbrk, growuserstack).
RegionsExact ==
  /\ phase \in {"user", "fault", "killed"} => used \subseteq UNION {Spanned(r) : r \in Regions}
  /\ phase \in {"user", "fault"} =>
       \A r \in Regions : \A va \in VRBOT(r)..(VRTOP(r) - 1) : <<r, Idx(r, va)>> \in pt

\* A program is killed for touching its stack only when memory ran out: every
\* address of the window trap tests is one growuserstack can reach, although it
\* grows one page per fault.
StackServed == phase = "killed" => why = "memory" \/ ~InWindow(touch)
================================================================================
