--------------------------------- MODULE Cow ---------------------------------
(***************************************************************************)
(* Physical pages and copy-on-write address spaces of the xk kernel: the   *)
(* page allocator (kernel/kalloc.c), vspacecopy, vspaceinvalidate,         *)
(* vspaceinstall, vspacefree and vregionaddmap (kernel/vspace.c), the      *)
(* page-fault handler (kernel/trap.c), and the way fork, exit, wait, sbrk  *)
(* and exec use them.                                                      *)
(*                                                                         *)
(* Every region has at most one page.  A page of vpage_infos (a "list") is *)
(* a physical page too.  What the processor sees is the page table (pte),  *)
(* which vspaceinvalidate rebuilds from the vpage_infos, through the       *)
(* translations it has cached (tlb), which only vspaceinstall flushes.     *)
(* Page faults are handled with interrupts off; fork runs with interrupts  *)
(* on, and another process may run between any two of its steps.           *)
(***************************************************************************)
EXTENDS Naturals, FiniteSets

CONSTANTS
  Frames,    \* physical pages
  Procs,     \* process slots
  First,     \* the slot of the first process
  NREGIONS,  \* regions of an address space: 1 holds the program and its stack
  Heap,      \* the region that sbrk grows
  Values,    \* what a page can hold: its bytes, told apart by a number
  Null       \* the null pointer

ASSUME FramesAssumption == IsFiniteSet(Frames) /\ Null \notin Frames
ASSUME ProcsAssumption == IsFiniteSet(Procs) /\ First \in Procs /\ Null \notin Procs
ASSUME RegionAssumption == NREGIONS \in Nat /\ Heap \in 2..NREGIONS

Regions == 1..NREGIONS
Junk == 2      \* kfree fills a page with twos

ASSUME ValuesAssumption == 0 \in Values /\ Null \notin Values \cup {Junk}

VARIABLES
  avail,     \* core_map: the available pages
  ref,       \* core_map[f].ref_count
  inuse,     \* pages_in_use
  mem,       \* the bytes of each page
  kernel,    \* pages the kernel uses itself: stacks, page tables, pipes
  list,      \* regions[r].pages: the page that holds the region's vpage_info
  vpi,       \* the vpage_info of the region's page; ppn = Null: not used
  pte,       \* the user part of each page table
  tlb,       \* translations cached for the installed page table
  cur,       \* the process on the CPU
  st,        \* state of each process slot
  pc,        \* "user", or the step of fork it is at
  child,     \* fork's p
  reg,       \* the region fork copies next
  damaged,   \* the kernel has gone on after kalloc returned 0
  dropped   \* history: the lists and pages that exec drops without freeing them

core == <<avail, ref, inuse, mem>>
spaces == <<list, vpi, pte>>
forks == <<pc, child, reg>>
vars == <<core, kernel, spaces, tlb, cur, st, forks, damaged, dropped>>

NoPage == [ppn |-> Null, w |-> FALSE, cow |-> FALSE]
\* The vpage_info of a page that one space has, and of one that several share.
Own(f) == [ppn |-> f, w |-> TRUE, cow |-> FALSE]
Shared(f) == [ppn |-> f, w |-> FALSE, cow |-> TRUE]
NoPte == [ppn |-> Null, w |-> FALSE]
NoPtes == [r \in Regions |-> NoPte]

-----------------------------------------------------------------------------
(* the page allocator *)

\* kalloc() returns page f.  It takes the first one available; which one that
\* is makes no difference here.
Kalloc(f) ==
  /\ f \in avail
  /\ avail' = avail \ {f}
  /\ ref' = [ref EXCEPT ![f] = 1]
  /\ inuse' = inuse + 1

\* kfree() of every page of S, each once: the last user makes it available.
Kfree(S) ==
  LET left(f) == IF ref[f] > 0 THEN ref[f] - 1 ELSE 0
      freed == {f \in S : left(f) = 0}
  IN /\ ref' = [f \in Frames |-> IF f \in S THEN left(f) ELSE ref[f]]
     /\ avail' = avail \cup freed
     /\ inuse' = inuse - Cardinality(freed)
     /\ mem' = [f \in Frames |-> IF f \in freed THEN Junk ELSE mem[f]]

\* The page table that vspaceinvalidate makes from the vpage_infos of a space.
Rebuilt(infos) == [r \in Regions |-> [ppn |-> infos[r].ppn, w |-> infos[r].w]]

-----------------------------------------------------------------------------
(* user programs *)

Running(p) == cur = p /\ st[p] = "active"
InUser(p) == Running(p) /\ pc[p] = "user"

\* How the processor translates an access of the running process p to r.
Translation(p, r) == IF tlb[r].ppn # Null THEN tlb[r] ELSE pte[p][r]

Read(p, r) ==
  /\ InUser(p) /\ Translation(p, r).ppn # Null
  /\ tlb' = [tlb EXCEPT ![r] = Translation(p, r)]
  /\ UNCHANGED <<core, kernel, spaces, cur, st, forks, damaged, dropped>>

Write(p, r, v) ==
  /\ InUser(p) /\ Translation(p, r).ppn # Null /\ Translation(p, r).w
  /\ mem' = [mem EXCEPT ![Translation(p, r).ppn] = v]
  /\ tlb' = [tlb EXCEPT ![r] = Translation(p, r)]
  /\ UNCHANGED <<avail, ref, inuse, kernel, spaces, cur, st, forks, damaged, dropped>>

\* The scheduler switches to another process and installs its page table.
Switch(p) ==
  /\ st[p] = "active" /\ p # cur
  /\ cur' = p
  /\ tlb' = NoPtes
  /\ UNCHANGED <<core, kernel, spaces, st, forks, damaged, dropped>>

-----------------------------------------------------------------------------
(* page faults *)

\* Mutants of CopyPage: the old page keeps its count; the bytes are not copied.
CopyPageUncounted(p, r) ==
  \E f \in Frames :
    LET old == vpi[p][r].ppn IN
    /\ f \in avail
    /\ avail' = avail \ {f}
    /\ ref' = [ref EXCEPT ![f] = 1]
    /\ inuse' = inuse + 1
    /\ mem' = [mem EXCEPT ![f] = mem[old]]
    /\ vpi' = [vpi EXCEPT ![p][r] = Own(f)]

\* The handler gives p a copy of a page that it shares.  Without a free page
\* it returns, and the access faults again.
CopyPage(p, r) ==
  \E f \in Frames :
    LET old == vpi[p][r].ppn IN
    /\ f \in avail
    /\ avail' = avail \ {f}
    /\ ref' = [ref EXCEPT ![f] = 1, ![old] = @ - 1]
    /\ inuse' = inuse + 1
    /\ mem' = [mem EXCEPT ![f] = mem[old]]
    /\ vpi' = [vpi EXCEPT ![p][r] = Own(f)]

\* The handler lets the last user of a page write to it.
ReusePage(p, r) ==
  /\ vpi' = [vpi EXCEPT ![p][r] = Own(@.ppn)]
  /\ UNCHANGED core

\* A write that the translation does not allow.  The handler looks only at
\* the vpage_info; a fault it cannot explain ends the process.
Fault(p, r) ==
  LET info == vpi[p][r] IN
  /\ InUser(p) /\ ~damaged
  /\ info.ppn # Null /\ ~Translation(p, r).w
  /\ IF info.cow /\ ~info.w /\ ref[info.ppn] > 0
     THEN /\ IF ref[info.ppn] > 1 THEN CopyPage(p, r) ELSE ReusePage(p, r)
          /\ pte' = [pte EXCEPT ![p] = Rebuilt(vpi'[p])]
          /\ UNCHANGED <<st, cur>>
     ELSE /\ st' = [st EXCEPT ![p] = "zombie"]
          /\ cur' = Null
          /\ UNCHANGED <<core, vpi, pte>>
  /\ tlb' = NoPtes
  /\ UNCHANGED <<kernel, list, forks, damaged, dropped>>

-----------------------------------------------------------------------------
(* fork *)

\* fork has a slot and an empty page table for the child.
ForkBegin(p, c) ==
  /\ InUser(p) /\ ~damaged /\ st[c] = "unused"
  /\ st' = [st EXCEPT ![c] = "embryo"]
  /\ child' = [child EXCEPT ![p] = c]
  /\ reg' = [reg EXCEPT ![p] = 1]
  /\ pc' = [pc EXCEPT ![p] = "copy"]
  /\ UNCHANGED <<core, kernel, spaces, tlb, cur, damaged, dropped>>

\* On to the next region, or to the end of vspacecopy.
Advance(p) ==
  /\ reg' = [reg EXCEPT ![p] = IF @ = NREGIONS THEN 1 ELSE @ + 1]
  /\ pc' = [pc EXCEPT ![p] = IF reg[p] = NREGIONS THEN "finish" ELSE "copy"]

\* copy_vpi_page up to the increment of the reference count.
ForkCopy(p) ==
  LET c == child[p]
      r == reg[p]
  IN /\ Running(p) /\ pc[p] = "copy" /\ ~damaged
     /\ IF list[p][r] = Null
        THEN /\ Advance(p)
             /\ UNCHANGED <<core, list, vpi>>
        ELSE \E f \in Frames :
             /\ Kalloc(f)
             /\ mem' = [mem EXCEPT ![f] = 0]
             /\ list' = [list EXCEPT ![c][r] = f]
             /\ IF vpi[p][r].ppn = Null
                THEN /\ Advance(p)
                     /\ UNCHANGED vpi
                ELSE /\ vpi' = [vpi EXCEPT ![p][r] = Shared(vpi[p][r].ppn),
                                           ![c][r] = Shared(vpi[p][r].ppn)]
                     /\ pc' = [pc EXCEPT ![p] = "count"]
                     /\ UNCHANGED reg
     /\ UNCHANGED <<kernel, pte, tlb, cur, st, child, damaged, dropped>>

\* Mutant of ForkCount: the reference count is not incremented.
ForkCountNone(p) ==
  /\ Running(p) /\ pc[p] = "count" /\ ~damaged
  /\ Advance(p)
  /\ UNCHANGED <<core, kernel, spaces, tlb, cur, st, child, damaged, dropped>>

\* The increment, under the lock of the core map.
ForkCount(p) ==
  /\ Running(p) /\ pc[p] = "count" /\ ~damaged
  /\ ref' = [ref EXCEPT ![vpi[p][reg[p]].ppn] = @ + 1]
  /\ Advance(p)
  /\ UNCHANGED <<avail, inuse, mem, kernel, spaces, tlb, cur, st, child, damaged, dropped>>

\* The child can run, and p's page table is installed anew.
Publish(p) ==
  /\ st' = [st EXCEPT ![child[p]] = "active"]
  /\ child' = [child EXCEPT ![p] = Null]
  /\ reg' = [reg EXCEPT ![p] = 1]
  /\ pc' = [pc EXCEPT ![p] = "user"]
  /\ tlb' = NoPtes

\* Mutant of ForkFinish: the parent's page table is not rebuilt.
ForkFinishChild(p) ==
  /\ Running(p) /\ pc[p] = "finish" /\ ~damaged
  /\ pte' = [pte EXCEPT ![child[p]] = Rebuilt(vpi[child[p]])]
  /\ Publish(p)
  /\ UNCHANGED <<core, kernel, list, vpi, cur, damaged, dropped>>

\* vspacecopy rebuilds both page tables.
ForkFinish(p) ==
  /\ Running(p) /\ pc[p] = "finish" /\ ~damaged
  /\ pte' = [pte EXCEPT ![p] = Rebuilt(vpi[p]), ![child[p]] = Rebuilt(vpi[child[p]])]
  /\ Publish(p)
  /\ UNCHANGED <<core, kernel, list, vpi, cur, damaged, dropped>>

\* kalloc has no page for the child's list: vspacecopy returns -1, with the
\* later regions still pointing to the parent's lists and no page table
\* rebuilt; fork does not look at the result.
ForkStarved(p) ==
  LET c == child[p] IN
  /\ Running(p) /\ pc[p] = "copy" /\ ~damaged
  /\ list[p][reg[p]] # Null /\ avail = {}
  /\ list' = [list EXCEPT ![c] = [r \in Regions |-> IF r > reg[p] THEN list[p][r] ELSE @[r]]]
  /\ vpi' = [vpi EXCEPT ![c] = [r \in Regions |-> IF r > reg[p] THEN vpi[p][r] ELSE @[r]]]
  /\ Publish(p)
  /\ damaged' = TRUE
  /\ UNCHANGED <<core, kernel, pte, cur, dropped>>

-----------------------------------------------------------------------------
(* exit, wait, sbrk, exec *)

Exit(p) ==
  /\ InUser(p) /\ ~damaged
  /\ st' = [st EXCEPT ![p] = "zombie"]
  /\ cur' = Null
  /\ tlb' = NoPtes
  /\ UNCHANGED <<core, kernel, spaces, forks, damaged, dropped>>

\* The pages that vspacefree frees: the lists, and every page that is mapped.
SpacePages(c) == {list[c][r] : r \in Regions} \cup {pte[c][r].ppn : r \in Regions}

\* wait: vspacefree of a zombie, with ptable.lock held.
Reap(p, c) ==
  /\ InUser(p) /\ ~damaged /\ st[c] = "zombie"
  /\ Kfree(SpacePages(c) \ {Null})
  /\ list' = [list EXCEPT ![c] = [r \in Regions |-> Null]]
  /\ vpi' = [vpi EXCEPT ![c] = [r \in Regions |-> NoPage]]
  /\ pte' = [pte EXCEPT ![c] = NoPtes]
  /\ st' = [st EXCEPT ![c] = "unused"]
  /\ UNCHANGED <<kernel, tlb, cur, forks, damaged, dropped>>

\* sbrk by one page, first part of vregionaddmap: va2vpage_info gives the
\* region a list if it has none.
SbrkList(p) ==
  /\ InUser(p) /\ ~damaged /\ vpi[p][Heap].ppn = Null
  /\ IF list[p][Heap] = Null
     THEN \E f \in Frames : /\ Kalloc(f)
                           /\ mem' = [mem EXCEPT ![f] = 0]
                           /\ list' = [list EXCEPT ![p][Heap] = f]
     ELSE UNCHANGED <<core, list>>
  /\ pc' = [pc EXCEPT ![p] = "sbrk"]
  /\ UNCHANGED <<kernel, vpi, pte, tlb, cur, st, child, reg, damaged, dropped>>

\* Mutant of SbrkPage: the new page is not zeroed.
SbrkPageDirty(p) ==
  /\ Running(p) /\ pc[p] = "sbrk" /\ ~damaged
  /\ \/ \E f \in Frames :
          /\ Kalloc(f)
          /\ UNCHANGED mem
          /\ vpi' = [vpi EXCEPT ![p][Heap] = Own(f)]
          /\ pte' = [pte EXCEPT ![p] = Rebuilt(vpi'[p])]
     \/ /\ avail = {}
        /\ UNCHANGED <<core, vpi, pte>>
  /\ pc' = [pc EXCEPT ![p] = "user"]
  /\ UNCHANGED <<kernel, list, tlb, cur, st, child, reg, damaged, dropped>>

\* The rest of sbrk: a zeroed page and vspaceinvalidate, but no vspaceinstall;
\* or no page, and -1.
SbrkPage(p) ==
  /\ Running(p) /\ pc[p] = "sbrk" /\ ~damaged
  /\ \/ \E f \in Frames :
          /\ Kalloc(f)
          /\ mem' = [mem EXCEPT ![f] = 0]
          /\ vpi' = [vpi EXCEPT ![p][Heap] = Own(f)]
          /\ pte' = [pte EXCEPT ![p] = Rebuilt(vpi'[p])]
     \/ /\ avail = {}
        /\ UNCHANGED <<core, vpi, pte>>
  /\ pc' = [pc EXCEPT ![p] = "user"]
  /\ UNCHANGED <<kernel, list, tlb, cur, st, child, reg, damaged, dropped>>

\* va2vpage_info does not look at what kalloc returns: with no page for the
\* list it zeroes the page at address 0, the first of p's program, which the
\* fault handler makes writable if nobody shares it (else p faults for ever).
\* Then there is no page for the heap either, and sbrk returns -1.
SbrkStarved(p) ==
  LET info == vpi[p][1] IN
  /\ InUser(p) /\ ~damaged /\ vpi[p][Heap].ppn = Null
  /\ list[p][Heap] = Null /\ avail = {}
  /\ info.w \/ ref[info.ppn] = 1
  /\ vpi' = [vpi EXCEPT ![p][1] = Own(@.ppn)]
  /\ pte' = [pte EXCEPT ![p] = Rebuilt(vpi'[p])]
  /\ mem' = [mem EXCEPT ![info.ppn] = 0]
  /\ tlb' = IF info.w THEN tlb ELSE NoPtes
  /\ damaged' = TRUE
  /\ UNCHANGED <<avail, ref, inuse, kernel, list, cur, st, forks, dropped>>

\* The lists and pages of p's space.
Held(p) == ({list[p][r] : r \in Regions} \cup {vpi[p][r].ppn : r \in Regions}) \ {Null}

\* exec, when there is memory for it: it builds the new space aside (a list t
\* and a page f), shares it with p by vspacecopy (a list l), frees the space it
\* built and installs p's page table.  The lists and pages p had are not freed.
Exec(p) ==
  /\ InUser(p) /\ ~damaged
  /\ \E t, l, f \in avail, v \in Values :
       /\ Cardinality({t, l, f}) = 3
       /\ avail' = avail \ {l, f}
       /\ ref' = [ref EXCEPT ![l] = 1, ![f] = 1]
       /\ inuse' = inuse + 2
       /\ mem' = [mem EXCEPT ![t] = Junk, ![l] = 0, ![f] = v]
       /\ list' = [list EXCEPT ![p] = [r \in Regions |-> IF r = 1 THEN l ELSE Null]]
       /\ vpi' = [vpi EXCEPT ![p] =
                  [r \in Regions |-> IF r = 1 THEN Shared(f) ELSE NoPage]]
       /\ pte' = [pte EXCEPT ![p] = Rebuilt(vpi'[p])]
  /\ tlb' = NoPtes
  /\ dropped' = dropped \cup Held(p)
  /\ UNCHANGED <<kernel, cur, st, forks, damaged>>

-----------------------------------------------------------------------------
(* the rest of the kernel: stacks, page tables, pipes *)

KernelTake(f) ==
  /\ Kalloc(f)
  /\ kernel' = kernel \cup {f}
  /\ UNCHANGED <<mem, spaces, tlb, cur, st, forks, damaged, dropped>>

KernelGive(f) ==
  /\ f \in kernel
  /\ Kfree({f})
  /\ kernel' = kernel \ {f}
  /\ UNCHANGED <<spaces, tlb, cur, st, forks, damaged, dropped>>

\* After userinit: the first process has its program, on its own page.
Init ==
  \E l, f \in Frames, v \in Values :
    /\ l # f
    /\ avail = Frames \ {l, f}
    /\ ref = [g \in Frames |-> IF g \in {l, f} THEN 1 ELSE 0]
    /\ inuse = 2
    /\ mem = [g \in Frames |-> CASE g = f -> v [] g = l -> 0 [] OTHER -> Junk]
    /\ kernel = {}
    /\ list = [p \in Procs |-> [r \in Regions |->
                 IF p = First /\ r = 1 THEN l ELSE Null]]
    /\ vpi = [p \in Procs |-> [r \in Regions |->
                IF p = First /\ r = 1 THEN Own(f) ELSE NoPage]]
    /\ pte = [p \in Procs |-> Rebuilt(vpi[p])]
    /\ tlb = NoPtes
    /\ cur = Null
    /\ st = [p \in Procs |-> IF p = First THEN "active" ELSE "unused"]
    /\ pc = [p \in Procs |-> "user"]
    /\ child = [p \in Procs |-> Null]
    /\ reg = [p \in Procs |-> 1]
    /\ damaged = FALSE /\ dropped = {}

Step(p) ==
  \/ \E r \in Regions : Read(p, r) \/ Fault(p, r) \/ \E v \in Values : Write(p, r, v)
  \/ \E c \in Procs : ForkBegin(p, c) \/ Reap(p, c)
  \/ ForkCopy(p) \/ ForkCount(p) \/ ForkFinish(p) \/ ForkStarved(p)
  \/ SbrkList(p) \/ SbrkPage(p) \/ SbrkStarved(p)
  \/ Exec(p) \/ Exit(p) \/ Switch(p)

Next ==
  \/ \E p \in Procs : Step(p)
  \/ \E f \in Frames : KernelTake(f) \/ KernelGive(f)

Spec == Init /\ [][Next]_vars

-----------------------------------------------------------------------------
(* Properties *)

\* The vpage_infos that name page f, and the ones fork has yet to count.
Users(f) == {x \in Procs \X Regions : vpi[x[1]][x[2]].ppn = f}
Uncounted(f) == {p \in Procs : pc[p] = "count" /\ vpi[p][reg[p]].ppn = f}

\* The reference count is never below the number of address spaces that use
\* the page, but for the fork that has shared it and not yet counted: so
\* kfree and the fault handler never take a page from somebody else.
RefCovers ==
  ~damaged => \A f \in Frames : Cardinality(Users(f)) <= ref[f] + Cardinality(Uncounted(f))

\* Every page that is taken is in somebody's hands, or in nobody's because exec
\* overwrote the caller's space without freeing it, and pages_in_use counts them.
\* Nothing but exec loses a page: not fork, fault, sbrk, exit or wait.
NoLeak ==
  ~damaged =>
    /\ \A f \in Frames \ avail :
         f \in kernel \cup dropped \/ Users(f) # {} \/ \E p \in Procs, r \in Regions : list[p][r] = f
    /\ inuse = Cardinality(Frames \ avail)

\* What the processor may write to directly in user mode, it shares with no
\* other address space: neither the page table nor a cached translation is
\* left writable when fork shares a page.
WritableIsPrivate ==
  \A p \in Procs, r \in Regions :
    InUser(p) /\ Translation(p, r).w /\ ~damaged =>
      Users(Translation(p, r).ppn) = {<<p, r>>}

\* The memory that each running program sees.
aspace ==
  [p \in Procs |-> [r \in Regions |->
     IF st[p] = "active" /\ vpi[p][r].ppn # Null THEN mem[vpi[p][r].ppn] ELSE Null]]

\* Every process behaves as if it had a memory of its own ("execute as if they
\* received a complete copy of the parent's memory", lab3.md:298), until the
\* kernel goes on without the memory it needs.
Private == INSTANCE PrivateMemory WITH
  alive <- {p \in Procs : st[p] = "active"}, running <- cur, space <- aspace,
  reliable <- ~damaged, Program <- 1, Unmapped <- Null, Nobody <- Null
PrivateSpec == Private!Spec
=============================================================================
