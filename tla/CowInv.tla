------------------------------ MODULE CowInv ------------------------------
(***************************************************************************)
(* The inductive invariant of Cow, for any number of processes, regions,   *)
(* pages and values, and what the proofs in CowFork, CowPages and CowReap  *)
(* share: lemmas about kalloc, kfree, the counts and the page tables, the  *)
(* typing of every step, and the memory that a program sees.               *)
(***************************************************************************)
EXTENDS Cow, Integers, TLAPS

Ppns == Frames \cup {Null}
Infos == [ppn : Ppns, w : BOOLEAN, cow : BOOLEAN]
Ptes == [ppn : Ppns, w : BOOLEAN]
Contents == Values \cup {Junk}

\* The types of the variables.
TypeOK ==
  /\ avail \in SUBSET Frames /\ ref \in [Frames -> Nat] /\ inuse \in Int
  /\ mem \in [Frames -> Contents] /\ kernel \in SUBSET Frames
  /\ list \in [Procs -> [Regions -> Ppns]]
  /\ vpi \in [Procs -> [Regions -> Infos]]
  /\ pte \in [Procs -> [Regions -> Ptes]]
  /\ tlb \in [Regions -> Ptes]
  /\ cur \in Procs \cup {Null}
  /\ st \in [Procs -> {"unused", "embryo", "active", "zombie"}]
  /\ pc \in [Procs -> {"user", "copy", "count", "finish", "sbrk"}]
  /\ child \in [Procs -> Procs \cup {Null}]
  /\ reg \in [Procs -> Regions]
  /\ damaged \in BOOLEAN /\ dropped \in SUBSET Frames

\* A process in fork runs or waits for the CPU, and has a child of its own that
\* nobody runs.
Forking == {"copy", "count", "finish"}
ForkInv ==
  \A p \in Procs :
    /\ pc[p] # "user" => st[p] = "active"
    /\ pc[p] \in Forking =>
         /\ child[p] \in Procs /\ st[child[p]] = "embryo"
         /\ \A q \in Procs : pc[q] \in Forking /\ child[q] = child[p] => q = p

\* The regions that fork has copied name the parent's pages, the others none.
Given(p, r) ==
  \/ pc[p] = "copy" /\ r < reg[p]
  \/ pc[p] = "count" /\ r <= reg[p]
  \/ pc[p] = "finish"
CopyInv ==
  \A p \in Procs : pc[p] \in Forking =>
    /\ \A r \in Regions :
         /\ Given(p, r) => vpi[child[p]][r].ppn = vpi[p][r].ppn
         /\ ~Given(p, r) => vpi[child[p]][r].ppn = Null /\ list[child[p]][r] = Null
    /\ pc[p] = "count" => vpi[p][reg[p]].ppn # Null

\* A page is mapped only where there is a list; a free slot has no space; sbrk is
\* about to fill an empty region.
SpaceInv ==
  \A p \in Procs, r \in Regions :
    /\ list[p][r] = Null => vpi[p][r].ppn = Null
    /\ st[p] = "unused" => list[p][r] = Null
    /\ pc[p] = "sbrk" /\ r = Heap => list[p][r] # Null /\ vpi[p][r].ppn = Null

\* Outside of fork the page table is what the vpage_infos say, and the
\* processor has cached nothing else.
TableInv ==
  /\ \A p \in Procs : st[p] # "embryo" /\ pc[p] \notin Forking => pte[p] = Rebuilt(vpi[p])
  /\ cur # Null =>
       st[cur] = "active" /\ \A r \in Regions : tlb[r].ppn # Null => tlb[r] = pte[cur][r]

\* A page is available, the kernel's, one region's list, or mapped, and only one of
\* these; it is mapped in the same region of every space.
FrameInv ==
  /\ \A f \in avail : f \notin kernel /\ ref[f] = 0
  /\ \A f \in kernel : ref[f] = 1
  /\ \A p \in Procs, r \in Regions :
       /\ list[p][r] \notin avail \cup kernel /\ vpi[p][r].ppn \notin avail \cup kernel
       /\ list[p][r] # Null =>
            /\ ref[list[p][r]] = 1
            /\ \A q \in Procs, s \in Regions :
                 /\ vpi[q][s].ppn # list[p][r]
                 /\ list[q][s] = list[p][r] => q = p /\ s = r
       /\ vpi[p][r].ppn # Null =>
            \A q \in Procs, s \in Regions : vpi[q][s].ppn = vpi[p][r].ppn => s = r

Mapped(f) == \E p \in Procs, r \in Regions : vpi[p][r].ppn = f
Listed(f) == \E p \in Procs, r \in Regions : list[p][r] = f

\* The vpage_info that fork has shared with the child but not counted yet.
Pending(c, r) == \E q \in Procs : pc[q] = "count" /\ child[q] = c /\ reg[q] = r
Counted(f) == {x \in Procs \X Regions : vpi[x[1]][x[2]].ppn = f /\ ~Pending(x[1], x[2])}

\* The count is that of the vpage_infos, and more only if exec has dropped one.
CountInv ==
  \A f \in Frames :
    /\ Cardinality(Counted(f)) <= ref[f]
    /\ f \notin dropped /\ Mapped(f) => Cardinality(Counted(f)) = ref[f]

\* A vpage_info that allows writing is the only one of its page.
OwnInv ==
  \A p \in Procs, r \in Regions :
    vpi[p][r].w =>
      /\ vpi[p][r].ppn # Null
      /\ \A q \in Procs, s \in Regions : vpi[q][s].ppn = vpi[p][r].ppn => q = p /\ s = r

\* NoLeak, without its condition.
LeakInv ==
  /\ \A f \in Frames \ avail : f \in kernel \cup dropped \/ Mapped(f) \/ Listed(f)
  /\ inuse = Cardinality(Frames \ avail)

SoundInv ==
  ForkInv /\ CopyInv /\ SpaceInv /\ TableInv /\ FrameInv /\ CountInv /\ OwnInv /\ LeakInv

IInv == TypeOK /\ (~damaged => SoundInv)

-----------------------------------------------------------------------------
(* the counts, kalloc and kfree, and page tables *)

\* What the proofs need to know of the cardinalities of sets of vpage_infos and of
\* pages: CowProofs proves it from the library's theorems on finite sets.
CellCounting ==
  \A S \in SUBSET (Procs \X Regions) :
    /\ Cardinality(S) \in Nat /\ (Cardinality(S) = 0 <=> S = {})
    /\ \A x \in Procs \X Regions :
         /\ Cardinality({x}) = 1
         /\ x \notin S => Cardinality(S \cup {x}) = Cardinality(S) + 1
         /\ x \in S => Cardinality(S \ {x}) = Cardinality(S) - 1
    /\ \A T \in SUBSET S : Cardinality(T) <= Cardinality(S)
PageCounting ==
  \A S \in SUBSET Frames :
    /\ Cardinality(S) \in Nat
    /\ \A f \in Frames :
         /\ Cardinality({f}) = 1
         /\ f \notin S => Cardinality(S \cup {f}) = Cardinality(S) + 1
    /\ \A T \in SUBSET S : Cardinality(S \ T) = Cardinality(S) - Cardinality(T)
Counting == CellCounting /\ PageCounting

\* Regions are numbered from 1, and the heap is one of them.
LEMMA RegionFacts ==
  /\ 1 \in Regions /\ NREGIONS \in Regions /\ Heap \in Regions /\ Heap # 1
  /\ \A r \in Regions : r \in Nat /\ 1 <= r /\ r <= NREGIONS
  /\ \A r \in Regions : r # NREGIONS => r + 1 \in Regions
BY RegionAssumption DEF Regions

\* kalloc keeps the types of the core map.
LEMMA KallocType ==
  ASSUME TypeOK, NEW f \in Frames, Kalloc(f)
  PROVE  avail' \in SUBSET Frames /\ ref' \in [Frames -> Nat] /\ inuse' \in Int
BY DEF TypeOK, Kalloc

\* kfree keeps the types of the core map and of the pages.
LEMMA KfreeType ==
  ASSUME Counting, TypeOK, NEW S \in SUBSET Frames, Kfree(S)
  PROVE  /\ avail' \in SUBSET Frames /\ ref' \in [Frames -> Nat] /\ inuse' \in Int
         /\ mem' \in [Frames -> Contents]
<1> DEFINE left(f) == IF ref[f] > 0 THEN ref[f] - 1 ELSE 0
           freed == {f \in S : left(f) = 0}
<1>2. Cardinality(freed) \in Nat
  BY freed \in SUBSET Frames DEF Counting, PageCounting
<1>3. \A f \in Frames : left(f) \in Nat
  BY DEF TypeOK
<1> QED
  BY <1>2, <1>3 DEF TypeOK, Kfree, Contents

\* The vpage_infos and page table entries that the kernel makes.
LEMMA InfoFacts ==
  /\ NoPage \in Infos /\ NoPage.ppn = Null /\ NoPage.w = FALSE
  /\ \A f \in Ppns : Own(f) \in Infos /\ Own(f).ppn = f /\ Own(f).w = TRUE
  /\ \A f \in Ppns : Shared(f) \in Infos /\ Shared(f).ppn = f /\ Shared(f).w = FALSE
  /\ \A x \in Infos : x.ppn \in Ppns /\ x.w \in BOOLEAN
  /\ \A x \in Ptes : x.ppn \in Ppns /\ x.w \in BOOLEAN
  /\ NoPtes \in [Regions -> Ptes]
BY DEF NoPage, Own, Shared, Infos, Ptes, NoPtes, NoPte, Ppns

\* A vpage_info names a page or none, and so does the pointer to a list.
LEMMA PpnTypes ==
  ASSUME TypeOK
  PROVE  \A q \in Procs, s \in Regions :
           vpi[q][s].ppn \in Frames \cup {Null} /\ list[q][s] \in Frames \cup {Null}
<1>1. vpi \in [Procs -> [Regions -> Infos]] /\ list \in [Procs -> [Regions -> Ppns]]
  BY DEF TypeOK
<1> QED
  BY <1>1, InfoFacts DEF Ppns

\* What an address space has is neither available nor the kernel's.
LEMMA SpacesApart ==
  ASSUME SoundInv
  PROVE  \A q \in Procs, s \in Regions :
           list[q][s] \notin avail \cup kernel /\ vpi[q][s].ppn \notin avail \cup kernel
BY Zenon DEF SoundInv, FrameInv

\* vspaceinvalidate makes page table entries that say what the vpage_infos say.
LEMMA RebuiltFacts ==
  ASSUME NEW infos \in [Regions -> Infos]
  PROVE  /\ Rebuilt(infos) \in [Regions -> Ptes]
         /\ \A r \in Regions : Rebuilt(infos)[r].ppn = infos[r].ppn /\ Rebuilt(infos)[r].w = infos[r].w
BY DEF Rebuilt, Infos, Ptes

\* Sets of vpage_infos grow and shrink by one.
LEMMA CellSets ==
  ASSUME Counting, NEW S \in SUBSET (Procs \X Regions), NEW x \in Procs \X Regions
  PROVE  /\ Cardinality(S) \in Nat /\ (Cardinality(S) = 0 <=> S = {}) /\ Cardinality({x}) = 1
         /\ x \notin S => Cardinality(S \cup {x}) = Cardinality(S) + 1
         /\ x \in S => Cardinality(S \ {x}) = Cardinality(S) - 1
BY Zenon DEF Counting, CellCounting

\* One vpage_info counts for one.
LEMMA SingleCell == ASSUME Counting, NEW x \in Procs \X Regions PROVE Cardinality({x}) = 1
BY {} \in SUBSET (Procs \X Regions), Zenon DEF Counting, CellCounting

\* Nothing counts for nothing.
LEMMA NoCells == ASSUME Counting PROVE Cardinality({}) = 0
BY {} \in SUBSET (Procs \X Regions), Zenon DEF Counting, CellCounting

\* A set of pages grows by one.
LEMMA OneMorePage ==
  ASSUME Counting, NEW S \in SUBSET Frames, NEW f \in Frames, f \notin S
  PROVE  Cardinality(S \cup {f}) = Cardinality(S) + 1
BY Zenon DEF Counting, PageCounting

\* pages_in_use counts the page that kalloc takes.
LEMMA KallocCounts ==
  ASSUME Counting, TypeOK, LeakInv, NEW f \in Frames, Kalloc(f)
  PROVE  /\ avail' = avail \ {f} /\ f \in avail
         /\ \A g \in Frames : ref'[g] = IF g = f THEN 1 ELSE ref[g]
         /\ inuse' = Cardinality(Frames \ avail')
<1>1. Frames \ avail' = (Frames \ avail) \cup {f} /\ f \notin Frames \ avail
  BY DEF Kalloc
<1>3. Cardinality(Frames \ avail') = Cardinality(Frames \ avail) + 1
  BY <1>1, OneMorePage, Frames \ avail \in SUBSET Frames, Zenon
<1> QED
  BY <1>3 DEF Kalloc, LeakInv, TypeOK

\* kfree of taken pages makes those with no other user available, and counts them.
LEMMA KfreeCounts ==
  ASSUME Counting, TypeOK, LeakInv, NEW S \in SUBSET (Frames \ avail), \A f \in S : ref[f] > 0, Kfree(S)
  PROVE  /\ \A g \in Frames : ref'[g] = IF g \in S THEN ref[g] - 1 ELSE ref[g]
         /\ avail' = avail \cup {f \in S : ref[f] = 1}
         /\ inuse' = Cardinality(Frames \ avail')
<1> DEFINE left(f) == IF ref[f] > 0 THEN ref[f] - 1 ELSE 0
           freed == {f \in S : left(f) = 0}
<1>1. \A f \in S : ref[f] \in Nat /\ left(f) = ref[f] - 1
  BY DEF TypeOK
<1>2. freed = {f \in S : ref[f] = 1}
  BY <1>1
<1>3. /\ ref' = [f \in Frames |-> IF f \in S THEN left(f) ELSE ref[f]]
      /\ avail' = avail \cup freed /\ inuse' = inuse - Cardinality(freed)
  BY DEF Kfree
<1>4. Frames \ avail \in SUBSET Frames /\ freed \in SUBSET (Frames \ avail)
  OBVIOUS
<1>5. Frames \ avail' = (Frames \ avail) \ freed
  BY <1>3
<1>6. Cardinality((Frames \ avail) \ freed) = Cardinality(Frames \ avail) - Cardinality(freed)
  BY <1>4, Zenon DEF Counting, PageCounting
<1>7. inuse' = Cardinality(Frames \ avail')
  BY <1>3, <1>5, <1>6, Zenon DEF LeakInv
<1> QED
  BY <1>1, <1>2, <1>3, <1>7

Pages == <<avail, ref, inuse, kernel, list, vpi, dropped>>

\* What is said of pages only changes with them and with the forks that count.
LEMMA PagesKept ==
  ASSUME SoundInv, UNCHANGED Pages,
         \A c \in Procs, r \in Regions : Pending(c, r)' <=> Pending(c, r)
  PROVE  (FrameInv /\ CountInv /\ OwnInv /\ LeakInv)'
<1>1. FrameInv' /\ OwnInv'
  BY DEF SoundInv, FrameInv, OwnInv, Pages
<1>2. \A f : Counted(f)' = Counted(f) /\ (Mapped(f)' <=> Mapped(f)) /\ (Listed(f)' <=> Listed(f))
  BY DEF Counted, Mapped, Listed, Pages
<1> QED
  BY <1>1, <1>2 DEF SoundInv, CountInv, LeakInv, Pages

\* What fork has yet to count only changes with the forks.
LEMMA ForksKept ==
  ASSUME UNCHANGED forks
  PROVE  \A c \in Procs, r \in Regions : Pending(c, r)' <=> Pending(c, r)
BY DEF Pending, forks

\* The forks do not depend on the space of a process that takes no part in one.
LEMMA OthersFork ==
  ASSUME TypeOK, SoundInv, NEW p \in Procs, st[p] # "embryo", pc[p] \notin Forking,
         pc'[p] \notin Forking, pc'[p] # "user" => st'[p] = "active", st'[p] # "embryo",
         \A q \in Procs : q # p => st'[q] = st[q] /\ pc'[q] = pc[q] /\ list'[q] = list[q] /\ vpi'[q] = vpi[q],
         UNCHANGED <<child, reg>>
  PROVE  ForkInv' /\ CopyInv' /\ \A d \in Procs, s \in Regions : Pending(d, s)' <=> Pending(d, s)
<1>1. ASSUME NEW q \in Procs, pc'[q] \in Forking
      PROVE  q # p /\ pc[q] \in Forking /\ pc'[q] = pc[q] /\ child[q] \in Procs /\ child[q] # p
  BY <1>1 DEF SoundInv, ForkInv
<1>2. ForkInv'
  BY <1>1 DEF SoundInv, ForkInv
<1>3. CopyInv'
  <2>1. ASSUME NEW q \in Procs, pc'[q] \in Forking
        PROVE  /\ \A s \in Regions :
                    /\ Given(q, s)' => vpi'[child'[q]][s].ppn = vpi'[q][s].ppn
                    /\ ~Given(q, s)' => vpi'[child'[q]][s].ppn = Null /\ list'[child'[q]][s] = Null
               /\ pc'[q] = "count" => vpi'[q][reg'[q]].ppn # Null
    <3>1. /\ pc[q] \in Forking /\ pc'[q] = pc[q] /\ child'[q] = child[q] /\ reg'[q] = reg[q]
          /\ vpi'[q] = vpi[q] /\ vpi'[child[q]] = vpi[child[q]] /\ list'[child[q]] = list[child[q]]
      BY <1>1, <2>1
    <3>2. \A s \in Regions : Given(q, s)' <=> Given(q, s)
      BY <3>1 DEF Given
    <3> QED
      BY <3>1, <3>2 DEF SoundInv, CopyInv
  <2> QED
    BY <2>1 DEF CopyInv
<1>4. \A q \in Procs : pc'[q] = "count" <=> pc[q] = "count"
  BY DEF Forking
<1>5. \A d \in Procs, s \in Regions : Pending(d, s)' <=> Pending(d, s)
  BY <1>4 DEF Pending
<1> QED
  BY <1>2, <1>3, <1>5

\* The page table and what is cached of it, after vspaceinvalidate of p's space.
LEMMA Invalidated ==
  ASSUME TypeOK, SoundInv, NEW p \in Procs, NEW r \in Regions,
         cur = p, st[p] = "active", pc[p] \notin Forking, cur' = cur, st' = st,
         \A q \in Procs : q # p => pc'[q] = pc[q] /\ vpi'[q] = vpi[q],
         \A s \in Regions : s # r => vpi'[p][s] = vpi[p][s],
         pte' = [pte EXCEPT ![p] = Rebuilt(vpi'[p])],
         tlb' = NoPtes \/ (tlb' = tlb /\ vpi[p][r].ppn = Null)
  PROVE  TableInv'
<1>1. \A q \in Procs : pte'[q] = IF q = p THEN Rebuilt(vpi'[p]) ELSE pte[q]
  BY DEF TypeOK
<1>2. ASSUME NEW q \in Procs, st'[q] # "embryo", pc'[q] \notin Forking
      PROVE  pte'[q] = Rebuilt(vpi'[q])
  BY <1>1, <1>2 DEF SoundInv, TableInv
<1>3. ASSUME NEW s \in Regions, tlb'[s].ppn # Null
      PROVE  tlb'[s] = pte'[p][s]
  <2>1. tlb' = tlb /\ vpi[p][r].ppn = Null
    BY <1>3 DEF NoPtes, NoPte
  <2>2. tlb[s] = pte[p][s] /\ pte[p] = Rebuilt(vpi[p])
    BY <1>3, <2>1, ProcsAssumption DEF SoundInv, TableInv
  <2>3. pte[p][s].ppn = vpi[p][s].ppn
    BY <2>2, RebuiltFacts DEF TypeOK
  <2>4. s # r
    BY <1>3, <2>1, <2>2, <2>3
  <2> QED
    BY <1>1, <2>1, <2>2, <2>4 DEF Rebuilt
<1> QED
  BY <1>2, <1>3 DEF TableInv

\* A set of vpage_infos with no more than one member has no other.
LEMMA OneCell ==
  ASSUME Counting, NEW S \in SUBSET (Procs \X Regions), NEW x \in S, NEW y \in S, Cardinality(S) <= 1
  PROVE  y = x
<1>1. S \ {x} \in SUBSET (Procs \X Regions) /\ x \in Procs \X Regions
  OBVIOUS
<1>2. /\ Cardinality(S \ {x}) = Cardinality(S) - 1 /\ Cardinality(S) \in Nat
      /\ Cardinality(S \ {x}) \in Nat /\ (Cardinality(S \ {x}) = 0 <=> S \ {x} = {})
  BY <1>1, CellSets, Zenon
<1>3. S \ {x} = {}
  BY <1>2
<1> QED
  BY <1>3

\* The process that names a page with a count of one is its only user: a fork that
\* shared the page and has not counted it would be counted itself.
LEMMA SoleUser ==
  ASSUME Counting, TypeOK, SoundInv, NEW p \in Procs, NEW r \in Regions, NEW g \in Frames,
         vpi[p][r].ppn = g, ref[g] = 1, st[p] # "embryo", pc[p] # "count",
         NEW q \in Procs, NEW s \in Regions, vpi[q][s].ppn = g
  PROVE  q = p /\ s = r
<1>1. ASSUME NEW d \in Procs, NEW t \in Regions, st[d] # "embryo" PROVE ~Pending(d, t)
  BY <1>1 DEF Pending, SoundInv, ForkInv, Forking
<1>2. Counted(g) \in SUBSET (Procs \X Regions) /\ Cardinality(Counted(g)) <= 1
  BY DEF Counted, SoundInv, CountInv
<1>3. <<p, r>> \in Counted(g)
  BY <1>1 DEF Counted
<1>4. ASSUME Pending(q, s) PROVE FALSE
  <2>1. PICK t \in Procs : pc[t] = "count" /\ child[t] = q /\ reg[t] = s
    BY <1>4 DEF Pending
  <2>2. st[t] # "embryo"
    BY <2>1 DEF SoundInv, ForkInv
  <2>3. Given(t, s)
    BY <2>1, RegionFacts DEF Given
  <2>4. vpi[t][s].ppn = g
    BY <2>1, <2>3 DEF SoundInv, CopyInv, Forking
  <2>5. <<t, s>> \in Counted(g)
    BY <1>1, <2>2, <2>4 DEF Counted
  <2>6. <<t, s>> = <<p, r>>
    BY <1>2, <1>3, <2>5, OneCell
  <2> QED
    BY <2>1, <2>6
<1>5. <<q, s>> \in Counted(g)
  BY <1>4 DEF Counted
<1>6. <<q, s>> = <<p, r>>
  BY <1>2, <1>3, <1>5, OneCell
<1> QED
  BY <1>6

\* The processor translates as the vpage_infos say: neither the page table nor a
\* cached translation of a program that runs is older than they are.
LEMMA Translates ==
  ASSUME TypeOK, SoundInv, NEW p \in Procs, NEW r \in Regions, InUser(p)
  PROVE  Translation(p, r).ppn = vpi[p][r].ppn /\ Translation(p, r).w = vpi[p][r].w
<1>1. cur = p /\ st[p] = "active" /\ pc[p] \notin Forking /\ cur # Null
  BY ProcsAssumption DEF InUser, Running, Forking
<1>2. pte[p] = Rebuilt(vpi[p]) /\ (tlb[r].ppn # Null => tlb[r] = pte[p][r])
  BY <1>1 DEF SoundInv, TableInv
<1>3. Translation(p, r) = pte[p][r]
  BY <1>2 DEF Translation
<1>4. vpi[p] \in [Regions -> Infos]
  BY DEF TypeOK
<1> QED
  BY <1>2, <1>3, <1>4, RebuiltFacts

\* A page that kalloc gives becomes the list of a region, and no other page is
\* mapped than before.
LEMMA ListAdded ==
  ASSUME Counting, TypeOK, SoundInv, NEW d \in Procs, NEW r \in Regions, NEW f \in Frames,
         Kalloc(f), list[d][r] = Null, list' = [list EXCEPT ![d][r] = f],
         UNCHANGED <<kernel, dropped>>,
         \A q \in Procs, s \in Regions :
           vpi'[q][s].ppn # Null => \E t \in Procs : vpi[t][s].ppn = vpi'[q][s].ppn,
         \A g \in Frames : (Mapped(g)' <=> Mapped(g)) /\ Counted(g)' = Counted(g)
  PROVE  (FrameInv /\ CountInv /\ LeakInv)'
<1>1. /\ avail' = avail \ {f} /\ f \in avail
      /\ \A g \in Frames : ref'[g] = IF g = f THEN 1 ELSE ref[g]
      /\ inuse' = Cardinality(Frames \ avail')
  BY KallocCounts, Zenon DEF SoundInv
<1>2. \A q \in Procs, s \in Regions : list'[q][s] = IF q = d /\ s = r THEN f ELSE list[q][s]
  BY DEF TypeOK
<1>3. /\ f # Null /\ Null \notin avail \cup kernel
      /\ \A q \in Procs, s \in Regions : list[q][s] # f /\ vpi[q][s].ppn # f
      /\ f \notin kernel
  BY <1>1, FramesAssumption DEF SoundInv, FrameInv, TypeOK
<1>4. \A q \in Procs, s \in Regions : vpi'[q][s].ppn # f /\ vpi'[q][s].ppn \notin avail \cup kernel
  BY <1>3 DEF SoundInv, FrameInv
<1>5. FrameInv'
  <2>1. \A g \in avail' : g \notin kernel' /\ ref'[g] = 0
    BY <1>1 DEF SoundInv, FrameInv, TypeOK
  <2>2. \A g \in kernel' : ref'[g] = 1
    BY <1>1, <1>3 DEF SoundInv, FrameInv, TypeOK
  <2>3. ASSUME NEW p \in Procs, NEW s \in Regions
        PROVE  list'[p][s] \notin avail' \cup kernel' /\ vpi'[p][s].ppn \notin avail' \cup kernel'
    BY <1>1, <1>2, <1>3, <1>4 DEF SoundInv, FrameInv
  <2>4. ASSUME NEW p \in Procs, NEW s \in Regions, list'[p][s] # Null
        PROVE  ref'[list'[p][s]] = 1
    BY <1>1, <1>2, <2>4 DEF SoundInv, FrameInv, TypeOK, Ppns
  <2>5. ASSUME NEW p \in Procs, NEW s \in Regions, list'[p][s] # Null,
               NEW q \in Procs, NEW t \in Regions
        PROVE  vpi'[q][t].ppn # list'[p][s] /\ (list'[q][t] = list'[p][s] => q = p /\ t = s)
    BY <1>2, <1>3, <1>4, <2>5 DEF SoundInv, FrameInv
  <2>6. ASSUME NEW p \in Procs, NEW s \in Regions, vpi'[p][s].ppn # Null,
               NEW q \in Procs, NEW t \in Regions, vpi'[q][t].ppn = vpi'[p][s].ppn
        PROVE  t = s
    BY <2>6 DEF SoundInv, FrameInv
  <2> QED
    BY <2>1, <2>2, <2>3, <2>4, <2>5, <2>6 DEF FrameInv
<1>6. CountInv'
  <2>1. ~Mapped(f) /\ ref[f] = 0
    BY <1>1, <1>3 DEF Mapped, SoundInv, FrameInv
  <2>2. Counted(f) = {}
    BY <1>3 DEF Counted
  <2>3. Cardinality(Counted(f)) = 0
    BY <2>2, NoCells
  <2> QED
    BY <1>1, <2>1, <2>3 DEF SoundInv, CountInv
<1>7. LeakInv'
  <2>1. Listed(f)'
    BY <1>2 DEF Listed
  <2>2. \A g \in Frames : Listed(g) => Listed(g)'
    BY <1>2, FramesAssumption DEF Listed
  <2>3. \A g \in Frames \ avail' : g \in kernel' \cup dropped' \/ Mapped(g)' \/ Listed(g)'
    BY <1>1, <2>1, <2>2 DEF SoundInv, LeakInv
  <2> QED
    BY <1>1, <2>3 DEF LeakInv
<1> QED
  BY <1>5, <1>6, <1>7

-----------------------------------------------------------------------------
(* programs, the scheduler, and exit *)

\* Accesses, and the scheduler.
LEMMA AccessStep ==
  ASSUME TypeOK, SoundInv, NEW p \in Procs,
         Switch(p) \/ \E r \in Regions : Read(p, r) \/ \E v \in Values : Write(p, r, v)
  PROVE  SoundInv'
<1> USE DEF core, spaces
<1>1. UNCHANGED Pages /\ UNCHANGED <<pte, st, forks>>
  BY DEF Switch, Read, Write, Pages
<1>2. (FrameInv /\ CountInv /\ OwnInv /\ LeakInv)'
  BY <1>1, PagesKept, ForksKept
<1>3. ForkInv' /\ CopyInv' /\ SpaceInv'
  <2>1. ForkInv' /\ SpaceInv'
    BY <1>1 DEF SoundInv, ForkInv, SpaceInv, Pages, forks
  <2>2. CopyInv'
    BY <1>1 DEF SoundInv, CopyInv, Given, Pages, forks
  <2> QED
    BY <2>1, <2>2, Zenon
<1>4. TableInv'
  <2>1. \A q \in Procs : (st[q] # "embryo" /\ pc[q] \notin Forking => pte[q] = Rebuilt(vpi[q]))'
    BY <1>1 DEF SoundInv, TableInv, Rebuilt, Pages, forks
  <2>2. CASE Switch(p)
    BY <1>1, <2>1, <2>2, Zenon DEF TableInv, Switch, NoPtes, NoPte
  <2>3. ASSUME NEW r \in Regions, cur = p, cur' = cur, st[p] = "active",
               tlb' = [tlb EXCEPT ![r] = Translation(p, r)]
        PROVE  TableInv'
    BY <1>1, <2>1, <2>3 DEF TableInv, Translation, SoundInv, TypeOK
  <2> QED
    BY <2>2, <2>3 DEF Read, Write, InUser, Running
<1> QED
  BY <1>2, <1>3, <1>4 DEF SoundInv

\* The end of a process, by exit or by a fault that is not explained.
LEMMA ExitStep ==
  ASSUME TypeOK, SoundInv, NEW p \in Procs, InUser(p),
         st' = [st EXCEPT ![p] = "zombie"], cur' = Null, tlb' = NoPtes,
         UNCHANGED Pages, UNCHANGED <<pte, forks>>
  PROVE  SoundInv'
<1>1. (FrameInv /\ CountInv /\ OwnInv /\ LeakInv)'
  BY PagesKept, ForksKept
<1>2. pc[p] = "user" /\ st[p] = "active"
  BY DEF InUser, Running
<1>3. ForkInv'
  BY <1>2 DEF SoundInv, ForkInv, TypeOK, forks, Forking
<1>4. CopyInv' /\ SpaceInv'
  BY <1>2 DEF SoundInv, CopyInv, SpaceInv, Given, TypeOK, Pages, forks
<1>5. TableInv'
  BY <1>2 DEF SoundInv, TableInv, Rebuilt, TypeOK, Pages, forks
<1> QED
  BY <1>1, <1>3, <1>4, <1>5 DEF SoundInv

-----------------------------------------------------------------------------
(* the types *)

\* The three parts of the type invariant: the core map and the pages, the address
\* spaces, the processes.
CoreTyped ==
  /\ avail \in SUBSET Frames /\ ref \in [Frames -> Nat] /\ inuse \in Int
  /\ mem \in [Frames -> Contents] /\ kernel \in SUBSET Frames /\ dropped \in SUBSET Frames
SpacesTyped ==
  /\ list \in [Procs -> [Regions -> Ppns]] /\ vpi \in [Procs -> [Regions -> Infos]]
  /\ pte \in [Procs -> [Regions -> Ptes]]
ProcsTyped ==
  /\ tlb \in [Regions -> Ptes] /\ cur \in Procs \cup {Null} /\ damaged \in BOOLEAN
  /\ st \in [Procs -> {"unused", "embryo", "active", "zombie"}]
  /\ pc \in [Procs -> {"user", "copy", "count", "finish", "sbrk"}]
  /\ child \in [Procs -> Procs \cup {Null}] /\ reg \in [Procs -> Regions]

\* Together they are the type invariant.
LEMMA TypeParts ==
  /\ TypeOK <=> CoreTyped /\ SpacesTyped /\ ProcsTyped
  /\ TypeOK' <=> CoreTyped' /\ SpacesTyped' /\ ProcsTyped'
BY Zenon DEF TypeOK, CoreTyped, SpacesTyped, ProcsTyped

\* kalloc, and what the kernel writes to the page, keep the types.
LEMMA KallocTyped ==
  ASSUME CoreTyped, NEW f \in Frames, Kalloc(f), UNCHANGED <<kernel, dropped>>,
         mem' = mem \/ mem' = [mem EXCEPT ![f] = 0]
  PROVE  CoreTyped'
BY ValuesAssumption DEF CoreTyped, Kalloc, Contents

\* A vpage_info, and the page table rebuilt from it, keep the types.
LEMMA InfoTyped ==
  ASSUME SpacesTyped, NEW p \in Procs, NEW r \in Regions, NEW f \in Ppns,
         vpi' = [vpi EXCEPT ![p][r] = Own(f)], list' = list,
         pte' = [pte EXCEPT ![p] = Rebuilt(vpi'[p])]
  PROVE  SpacesTyped'
<1>1. vpi' \in [Procs -> [Regions -> Infos]]
  BY InfoFacts DEF SpacesTyped
<1>2. Rebuilt(vpi'[p]) \in [Regions -> Ptes]
  BY <1>1, RebuiltFacts, Zenon
<1> QED
  BY <1>1, <1>2, Zenon DEF SpacesTyped

\* A program reads, writes, exits or is switched to.
LEMMA TypeUser ==
  ASSUME CoreTyped, SpacesTyped, ProcsTyped, NEW p \in Procs,
         \/ Switch(p) \/ Exit(p)
         \/ \E r \in Regions : Read(p, r) \/ \E v \in Values : Write(p, r, v)
  PROVE  CoreTyped' /\ SpacesTyped' /\ ProcsTyped'
<1>1. UNCHANGED <<list, vpi, pte, avail, ref, inuse, kernel, dropped, damaged, pc, child, reg>>
  BY DEF Switch, Exit, Read, Write, core, spaces, forks
<1>2. SpacesTyped'
  BY <1>1 DEF SpacesTyped
<1>3. mem' \in [Frames -> Contents]
  BY DEF Switch, Exit, Read, Write, core, CoreTyped, Contents
<1>4. CoreTyped'
  BY <1>1, <1>3 DEF CoreTyped
<1>5. tlb' \in [Regions -> Ptes]
  <2>1. \A r \in Regions : Translation(p, r) \in Ptes
    BY DEF Translation, SpacesTyped, ProcsTyped
  <2>2. tlb \in [Regions -> Ptes] /\ NoPtes \in [Regions -> Ptes]
    BY InfoFacts DEF ProcsTyped
  <2>3. \/ tlb' \in {tlb, NoPtes}
        \/ \E r \in Regions : tlb' = [tlb EXCEPT ![r] = Translation(p, r)]
    BY Zenon DEF Switch, Exit, Read, Write
  <2> QED
    BY <2>1, <2>2, <2>3
<1>6. /\ cur' \in Procs \cup {Null}
      /\ st' \in [Procs -> {"unused", "embryo", "active", "zombie"}]
  BY DEF Switch, Exit, Read, Write, ProcsTyped
<1> QED
  BY <1>1, <1>2, <1>4, <1>5, <1>6, Zenon DEF ProcsTyped

\* A copy-on-write fault kills the process or gives it a page of its own.
LEMMA TypeFault ==
  ASSUME CoreTyped, SpacesTyped, ProcsTyped, NEW p \in Procs, NEW r \in Regions, Fault(p, r)
  PROVE  CoreTyped' /\ SpacesTyped' /\ ProcsTyped'
<1>1. /\ tlb' = NoPtes /\ UNCHANGED <<kernel, list, pc, child, reg, damaged, dropped>>
      /\ \/ st' = [st EXCEPT ![p] = "zombie"] /\ cur' = Null
         \/ UNCHANGED <<st, cur>>
  BY Zenon DEF Fault, forks
<1>2. ProcsTyped'
  BY <1>1, InfoFacts, Zenon DEF ProcsTyped
<1>3. vpi[p][r].ppn \in Frames
  <2>1. vpi[p][r].ppn # Null
    BY Zenon DEF Fault
  <2> QED
    BY <2>1, InfoFacts DEF SpacesTyped, Ppns
<1>4. vpi[p][r].ppn \in Ppns
  BY <1>3 DEF Ppns
<1>5. CASE UNCHANGED <<core, vpi, pte>>
  BY <1>1, <1>2, <1>5 DEF CoreTyped, SpacesTyped, core
<1>6. CASE ReusePage(p, r) /\ pte' = [pte EXCEPT ![p] = Rebuilt(vpi'[p])]
  <2>1. vpi' = [vpi EXCEPT ![p][r] = Own(vpi[p][r].ppn)] /\ UNCHANGED core
    BY <1>6 DEF ReusePage, SpacesTyped
  <2> QED
    BY <1>1, <1>2, <1>4, <1>6, <2>1, InfoTyped, Zenon DEF CoreTyped, core
<1>7. CASE CopyPage(p, r) /\ pte' = [pte EXCEPT ![p] = Rebuilt(vpi'[p])] /\ ref[vpi[p][r].ppn] > 1
  <2>1. PICK f \in Frames :
          /\ avail' = avail \ {f}
          /\ ref' = [ref EXCEPT ![f] = 1, ![vpi[p][r].ppn] = @ - 1]
          /\ inuse' = inuse + 1
          /\ mem' = [mem EXCEPT ![f] = mem[vpi[p][r].ppn]]
          /\ vpi' = [vpi EXCEPT ![p][r] = Own(f)]
    BY <1>7, Zenon DEF CopyPage
  <2>2. f \in Ppns
    BY DEF Ppns
  <2>3. SpacesTyped'
    BY <1>1, <1>7, <2>1, <2>2, InfoTyped, Zenon
  <2>4. ref' \in [Frames -> Nat]
    BY <1>3, <1>7, <2>1 DEF CoreTyped
  <2> QED
    BY <1>1, <1>2, <1>3, <2>1, <2>3, <2>4 DEF CoreTyped
<1> QED
  BY <1>5, <1>6, <1>7, Zenon DEF Fault

\* fork starts.
LEMMA TypeForkBegin ==
  ASSUME CoreTyped, SpacesTyped, ProcsTyped, NEW p \in Procs, NEW c \in Procs, ForkBegin(p, c)
  PROVE  CoreTyped' /\ SpacesTyped' /\ ProcsTyped'
<1>1. CoreTyped' /\ SpacesTyped'
  BY DEF ForkBegin, CoreTyped, SpacesTyped, core, spaces
<1>2. ProcsTyped'
  BY RegionFacts DEF ForkBegin, ProcsTyped
<1> QED
  BY <1>1, <1>2

\* The child of a process in fork, and the page that fork counts.
LEMMA ForkTyped ==
  ASSUME TypeOK, SoundInv, NEW p \in Procs, pc[p] \in Forking
  PROVE  /\ child[p] \in Procs /\ reg[p] \in Regions
         /\ pc[p] = "count" => vpi[p][reg[p]].ppn \in Frames
<1>1. child[p] \in Procs /\ reg[p] \in Regions
  BY DEF TypeOK, SoundInv, ForkInv
<1>2. vpi[p][reg[p]] \in Infos
  BY <1>1 DEF TypeOK
<1>3. pc[p] = "count" => vpi[p][reg[p]].ppn # Null
  BY DEF SoundInv, CopyInv, Forking
<1> QED
  BY <1>1, <1>2, <1>3, InfoFacts DEF Ppns

\* fork goes on to the next region.
LEMMA AdvanceTyped ==
  ASSUME ProcsTyped, NEW p \in Procs,
         Advance(p) \/ (pc' = [pc EXCEPT ![p] = "count"] /\ UNCHANGED reg),
         UNCHANGED <<tlb, cur, st, child, damaged>>
  PROVE  ProcsTyped'
BY RegionFacts DEF Advance, ProcsTyped

\* fork copies the vpage_info of a region.
LEMMA TypeForkCopy ==
  ASSUME CoreTyped, SpacesTyped, ProcsTyped, NEW p \in Procs, child[p] \in Procs, reg[p] \in Regions,
         ForkCopy(p)
  PROVE  CoreTyped' /\ SpacesTyped' /\ ProcsTyped'
<1>1. UNCHANGED <<kernel, pte, tlb, cur, st, child, damaged, dropped>>
  BY DEF ForkCopy
<1>2. ProcsTyped'
  <2>1. Advance(p) \/ (pc' = [pc EXCEPT ![p] = "count"] /\ UNCHANGED reg)
    BY Zenon DEF ForkCopy
  <2> QED
    BY <1>1, <2>1, AdvanceTyped, Zenon
<1>3. CASE UNCHANGED <<core, list, vpi>>
  BY <1>1, <1>2, <1>3 DEF CoreTyped, SpacesTyped, core
<1>4. ASSUME NEW f \in Frames, Kalloc(f), mem' = [mem EXCEPT ![f] = 0],
             list' = [list EXCEPT ![child[p]][reg[p]] = f],
             \/ vpi' = vpi
             \/ vpi' = [vpi EXCEPT ![p][reg[p]] = Shared(vpi[p][reg[p]].ppn),
                                   ![child[p]][reg[p]] = Shared(vpi[p][reg[p]].ppn)]
      PROVE  CoreTyped' /\ SpacesTyped' /\ ProcsTyped'
  <2>1. CoreTyped'
    BY <1>1, <1>4, KallocTyped, Zenon
  <2>2. list' \in [Procs -> [Regions -> Ppns]]
    BY <1>4 DEF SpacesTyped, Ppns
  <2>3. vpi' \in [Procs -> [Regions -> Infos]]
    <3>1. vpi \in [Procs -> [Regions -> Infos]]
      BY DEF SpacesTyped
    <3>2. Shared(vpi[p][reg[p]].ppn) \in Infos
      BY <3>1, InfoFacts
    <3> QED
      BY <1>4, <3>1, <3>2
  <2> QED
    BY <1>1, <1>2, <2>1, <2>2, <2>3 DEF SpacesTyped
<1> QED
  BY <1>3, <1>4, Zenon DEF ForkCopy

\* fork counts a page.
LEMMA TypeForkCount ==
  ASSUME CoreTyped, SpacesTyped, ProcsTyped, NEW p \in Procs, vpi[p][reg[p]].ppn \in Frames,
         ForkCount(p)
  PROVE  CoreTyped' /\ SpacesTyped' /\ ProcsTyped'
<1>1. CoreTyped'
  BY DEF ForkCount, CoreTyped
<1>2. SpacesTyped'
  BY DEF ForkCount, SpacesTyped, spaces
<1>3. ProcsTyped'
  <2>1. Advance(p) /\ UNCHANGED <<tlb, cur, st, child, damaged>>
    BY DEF ForkCount
  <2> QED
    BY <2>1, AdvanceTyped, Zenon
<1> QED
  BY <1>1, <1>2, <1>3, Zenon

\* fork ends, with or without memory.
LEMMA TypeForkFinish ==
  ASSUME CoreTyped, SpacesTyped, ProcsTyped, NEW p \in Procs, child[p] \in Procs, reg[p] \in Regions,
         ForkFinish(p) \/ ForkStarved(p)
  PROVE  CoreTyped' /\ SpacesTyped' /\ ProcsTyped'
<1>1. CoreTyped'
  BY DEF ForkFinish, ForkStarved, CoreTyped, core
<1>2. Publish(p) /\ cur' = cur /\ (damaged' = TRUE \/ damaged' = damaged)
  BY DEF ForkFinish, ForkStarved
<1>3. ProcsTyped'
  BY <1>2, RegionFacts, InfoFacts, Zenon DEF ProcsTyped, Publish
<1>4. CASE ForkFinish(p)
  <2>1. Rebuilt(vpi[p]) \in [Regions -> Ptes] /\ Rebuilt(vpi[child[p]]) \in [Regions -> Ptes]
    BY RebuiltFacts, Zenon DEF SpacesTyped
  <2> QED
    BY <1>1, <1>3, <1>4, <2>1, Zenon DEF SpacesTyped, ForkFinish
<1>5. CASE ForkStarved(p)
  BY <1>1, <1>3, <1>5 DEF SpacesTyped, ForkStarved
<1> QED
  BY <1>4, <1>5

\* sbrk gets a list and a page, or one of them, or neither.
LEMMA TypeSbrk ==
  ASSUME CoreTyped, SpacesTyped, ProcsTyped, NEW p \in Procs, SbrkList(p) \/ SbrkPage(p)
  PROVE  CoreTyped' /\ SpacesTyped' /\ ProcsTyped'
<1>1. UNCHANGED <<kernel, dropped>>
  BY DEF SbrkList, SbrkPage
<1>2. ProcsTyped'
  BY DEF ProcsTyped, SbrkList, SbrkPage
<1>3. CASE UNCHANGED <<core, list, vpi, pte>>
  BY <1>1, <1>2, <1>3 DEF CoreTyped, SpacesTyped, core
<1>4. ASSUME NEW f \in Frames, Kalloc(f), mem' = [mem EXCEPT ![f] = 0],
             list' = [list EXCEPT ![p][Heap] = f], UNCHANGED <<vpi, pte>>
      PROVE  CoreTyped' /\ SpacesTyped' /\ ProcsTyped'
  <2>1. CoreTyped'
    BY <1>1, <1>4, KallocTyped, Zenon
  <2> QED
    BY <1>2, <1>4, <2>1, RegionFacts DEF SpacesTyped, Ppns
<1>5. ASSUME NEW f \in Frames, Kalloc(f), mem' = [mem EXCEPT ![f] = 0],
             vpi' = [vpi EXCEPT ![p][Heap] = Own(f)], list' = list,
             pte' = [pte EXCEPT ![p] = Rebuilt(vpi'[p])]
      PROVE  CoreTyped' /\ SpacesTyped' /\ ProcsTyped'
  <2>1. CoreTyped'
    BY <1>1, <1>5, KallocTyped, Zenon
  <2>2. f \in Ppns /\ Heap \in Regions
    BY RegionFacts DEF Ppns
  <2> QED
    BY <1>2, <1>5, <2>1, <2>2, InfoTyped, Zenon
<1> QED
  BY <1>3, <1>4, <1>5 DEF SbrkList, SbrkPage

\* sbrk goes on without a list.
LEMMA TypeSbrkStarved ==
  ASSUME CoreTyped, SpacesTyped, ProcsTyped, NEW p \in Procs, SbrkStarved(p)
  PROVE  CoreTyped' /\ SpacesTyped' /\ ProcsTyped'
<1>1. CoreTyped'
  BY ValuesAssumption, Zenon DEF SbrkStarved, CoreTyped, Contents
<1>2. ProcsTyped'
  BY InfoFacts DEF SbrkStarved, ProcsTyped, forks
<1>3. 1 \in Regions /\ vpi[p][1].ppn \in Ppns
  BY RegionFacts, InfoFacts DEF SpacesTyped
<1>4. /\ vpi' = [vpi EXCEPT ![p][1] = Own(vpi[p][1].ppn)] /\ list' = list
      /\ pte' = [pte EXCEPT ![p] = Rebuilt(vpi'[p])]
  BY <1>3, Zenon DEF SbrkStarved, SpacesTyped
<1> QED
  BY <1>1, <1>2, <1>3, <1>4, InfoTyped, Zenon

\* wait frees the space of a child.
LEMMA TypeReap ==
  ASSUME Counting, TypeOK, NEW p \in Procs, NEW c \in Procs, Reap(p, c)
  PROVE  CoreTyped' /\ SpacesTyped' /\ ProcsTyped'
<1>0. SpacesTyped /\ ProcsTyped /\ CoreTyped
  BY TypeParts, Zenon
<1>1. Kfree(SpacePages(c) \ {Null}) /\ UNCHANGED <<kernel, dropped, tlb, cur, forks, damaged>>
  BY DEF Reap
<1>2. SpacePages(c) \ {Null} \in SUBSET Frames
  BY <1>0, InfoFacts DEF SpacesTyped, SpacePages, Ppns
<1>3. CoreTyped'
  <2>1. /\ avail' \in SUBSET Frames /\ ref' \in [Frames -> Nat] /\ inuse' \in Int
        /\ mem' \in [Frames -> Contents]
    BY <1>1, <1>2, KfreeType, Zenon
  <2> QED
    BY <1>0, <1>1, <2>1 DEF CoreTyped
<1>4. ProcsTyped'
  BY <1>0, <1>1, Zenon DEF Reap, ProcsTyped, forks
<1>5. SpacesTyped'
  BY <1>0, InfoFacts DEF Reap, SpacesTyped, Ppns
<1> QED
  BY <1>3, <1>4, <1>5

\* exec starts on a new page.
LEMMA TypeExec ==
  ASSUME CoreTyped, SpacesTyped, ProcsTyped, NEW p \in Procs, Exec(p)
  PROVE  CoreTyped' /\ SpacesTyped' /\ ProcsTyped'
<1>1. Held(p) \in SUBSET Frames
  BY InfoFacts DEF Held, SpacesTyped, Ppns
<1>2. PICK t, l, f \in avail, v \in Values :
        /\ Cardinality({t, l, f}) = 3
        /\ avail' = avail \ {l, f}
        /\ ref' = [ref EXCEPT ![l] = 1, ![f] = 1]
        /\ inuse' = inuse + 2
        /\ mem' = [mem EXCEPT ![t] = Junk, ![l] = 0, ![f] = v]
        /\ list' = [list EXCEPT ![p] = [r \in Regions |-> IF r = 1 THEN l ELSE Null]]
        /\ vpi' = [vpi EXCEPT ![p] = [r \in Regions |-> IF r = 1 THEN Shared(f) ELSE NoPage]]
        /\ pte' = [pte EXCEPT ![p] = Rebuilt(vpi'[p])]
  BY Zenon DEF Exec
<1>3. l \in Ppns /\ f \in Ppns /\ t \in Frames /\ Null \in Ppns
  BY Zenon DEF CoreTyped, Ppns
<1>4. vpi' \in [Procs -> [Regions -> Infos]]
  BY <1>2, <1>3, InfoFacts DEF SpacesTyped
<1>5. Rebuilt(vpi'[p]) \in [Regions -> Ptes]
  BY <1>4, RebuiltFacts
<1>6. SpacesTyped'
  BY <1>2, <1>3, <1>4, <1>5 DEF SpacesTyped
<1>7. tlb' = NoPtes /\ dropped' = dropped \cup Held(p) /\ UNCHANGED <<kernel, cur, st, forks, damaged>>
  BY Zenon DEF Exec
<1>8. mem' \in [Frames -> Contents]
  BY <1>2, ValuesAssumption, Zenon DEF CoreTyped, Contents
<1>9. CoreTyped'
  <2>1. avail' \in SUBSET Frames /\ kernel' \in SUBSET Frames /\ dropped' \in SUBSET Frames
    BY <1>1, <1>2, <1>7 DEF CoreTyped
  <2>2. ref' \in [Frames -> Nat] /\ inuse' \in Int
    BY <1>2 DEF CoreTyped
  <2> QED
    BY <1>8, <2>1, <2>2, Zenon DEF CoreTyped
<1>10. ProcsTyped'
  BY <1>7, InfoFacts, Zenon DEF ProcsTyped, forks
<1> QED
  BY <1>6, <1>9, <1>10

\* The kernel takes pages for itself and gives them back.
LEMMA TypeKernel ==
  ASSUME Counting, TypeOK, NEW f \in Frames, KernelTake(f) \/ KernelGive(f)
  PROVE  CoreTyped' /\ SpacesTyped' /\ ProcsTyped'
<1>0. SpacesTyped /\ ProcsTyped /\ CoreTyped
  BY TypeParts, Zenon
<1>1. UNCHANGED <<spaces, tlb, cur, st, forks, damaged, dropped>>
  BY DEF KernelTake, KernelGive
<1>2. SpacesTyped' /\ ProcsTyped'
  BY <1>0, <1>1 DEF SpacesTyped, ProcsTyped, spaces, forks
<1>3. ASSUME KernelTake(f) PROVE CoreTyped'
  BY <1>0, <1>3 DEF KernelTake, Kalloc, CoreTyped
<1>4. ASSUME KernelGive(f) PROVE CoreTyped'
  <2>1. {f} \in SUBSET Frames /\ Kfree({f})
    BY <1>4 DEF KernelGive
  <2>2. /\ avail' \in SUBSET Frames /\ ref' \in [Frames -> Nat] /\ inuse' \in Int
        /\ mem' \in [Frames -> Contents]
    BY <2>1, KfreeType, Zenon
  <2> QED
    BY <1>0, <1>1, <1>4, <2>2 DEF KernelGive, CoreTyped
<1> QED
  BY <1>2, <1>3, <1>4

\* The types are those of the program's variables after every step.
LEMMA TypeStep == ASSUME Counting PROVE IInv /\ [Next]_vars => TypeOK'
<1> SUFFICES ASSUME TypeOK, ~damaged => SoundInv, [Next]_vars PROVE TypeOK'
  BY DEF IInv
<1>0. SpacesTyped /\ ProcsTyped /\ CoreTyped
  BY TypeParts, Zenon
<1> DEFINE Typed == CoreTyped' /\ SpacesTyped' /\ ProcsTyped'
<1>1. ASSUME UNCHANGED vars PROVE Typed
  <2>1. UNCHANGED <<core, kernel, dropped>> /\ UNCHANGED spaces /\ UNCHANGED <<tlb, cur, damaged, st, forks>>
    BY <1>1 DEF vars
  <2>2. CoreTyped'
    BY <1>0, <2>1 DEF CoreTyped, core
  <2>3. SpacesTyped'
    BY <1>0, <2>1 DEF SpacesTyped, spaces
  <2>4. ProcsTyped'
    BY <1>0, <2>1 DEF ProcsTyped, forks
  <2> QED
    BY <2>2, <2>3, <2>4
<1>2. ASSUME NEW p \in Procs,
             Switch(p) \/ Exit(p) \/ \E r \in Regions : Read(p, r) \/ \E v \in Values : Write(p, r, v)
      PROVE  Typed
  BY <1>0, <1>2, TypeUser, Zenon
<1>3. ASSUME NEW p \in Procs, NEW r \in Regions, Fault(p, r) PROVE Typed
  BY <1>0, <1>3, TypeFault, Zenon
<1>4. ASSUME NEW p \in Procs, NEW c \in Procs, ForkBegin(p, c) \/ Reap(p, c) PROVE Typed
  BY <1>0, <1>4, TypeForkBegin, TypeReap, Zenon
<1>5. ASSUME NEW p \in Procs, ForkCopy(p) \/ ForkCount(p) \/ ForkFinish(p) \/ ForkStarved(p) PROVE Typed
  <2>1. ~damaged /\ pc[p] \in Forking /\ (ForkCount(p) => pc[p] = "count")
    BY <1>5, Zenon DEF ForkCopy, ForkCount, ForkFinish, ForkStarved, Forking
  <2>2. /\ child[p] \in Procs /\ reg[p] \in Regions
        /\ pc[p] = "count" => vpi[p][reg[p]].ppn \in Frames
    BY <2>1, ForkTyped, Zenon
  <2> QED
    BY <1>0, <1>5, <2>1, <2>2, TypeForkCopy, TypeForkCount, TypeForkFinish, Zenon
<1>6. ASSUME NEW p \in Procs, SbrkList(p) \/ SbrkPage(p) \/ SbrkStarved(p) \/ Exec(p) PROVE Typed
  BY <1>0, <1>6, TypeSbrk, TypeSbrkStarved, TypeExec, Zenon
<1>7. ASSUME NEW f \in Frames, KernelTake(f) \/ KernelGive(f) PROVE Typed
  BY <1>7, TypeKernel, Zenon
<1>8. Typed => TypeOK'
  BY TypeParts, Zenon
<1> HIDE DEF Typed
<1>9. ASSUME NEW p \in Procs, Step(p) PROVE Typed
  BY <1>2, <1>3, <1>4, <1>5, <1>6, <1>9, Zenon DEF Step
<1> QED
  BY <1>1, <1>7, <1>8, <1>9, Zenon DEF Next

-----------------------------------------------------------------------------
(* the refinement of private memories *)

\* What program q sees in region s, if it runs.
View(q, s) ==
  IF st[q] = "active" /\ vpi[q][s].ppn # Null THEN mem[vpi[q][s].ppn] ELSE Null

\* A step that no program notices.
LEMMA Unnoticed ==
  ASSUME UNCHANGED <<cur, damaged>>,
         \A q \in Procs : st'[q] = "active" <=> st[q] = "active",
         \A q \in Procs, s \in Regions : View(q, s)' = View(q, s)
  PROVE  UNCHANGED Private!vars
<1>1. {q \in Procs : st[q] = "active"}' = {q \in Procs : st[q] = "active"}
  OBVIOUS
<1>2. aspace' = aspace
  BY DEF aspace, View
<1> QED
  BY <1>1, <1>2 DEF Private!vars

\* A page that no vpage_info of a running program names may change.
LEMMA OtherPage ==
  ASSUME TypeOK, NEW f \in Frames,
         UNCHANGED <<cur, damaged>>,
         \A q \in Procs : st'[q] = "active" <=> st[q] = "active",
         \A q \in Procs, s \in Regions : st[q] = "active" => vpi[q][s].ppn # f /\ vpi'[q][s].ppn = vpi[q][s].ppn,
         \A g \in Frames : g # f => mem'[g] = mem[g]
  PROVE  UNCHANGED Private!vars
<1>1. ASSUME NEW q \in Procs, NEW s \in Regions PROVE View(q, s)' = View(q, s)
  <2>1. vpi[q][s].ppn \in Frames \cup {Null}
    BY InfoFacts DEF TypeOK, Ppns
  <2> QED
    BY <2>1, Zenon DEF View
<1> QED
  BY <1>1, Unnoticed

\* The memory that changes in one place.
LEMMA OneChange ==
  ASSUME NEW p \in Procs, NEW r \in Regions, NEW x,
         \A q \in Procs, s \in Regions : View(q, s)' = IF q = p /\ s = r THEN x ELSE View(q, s)
  PROVE  aspace' = [aspace EXCEPT ![p][r] = x]
<1>1. /\ aspace = [q \in Procs |-> [s \in Regions |-> View(q, s)]]
      /\ aspace' = [q \in Procs |-> [s \in Regions |-> View(q, s)']]
  BY DEF aspace, View
<1>2. aspace' = [q \in Procs |-> [s \in Regions |-> IF q = p /\ s = r THEN x ELSE View(q, s)]]
  BY <1>1
<1>3. \A q \in Procs : q # p => aspace'[q] = aspace[q]
  BY <1>1, <1>2
<1>4. aspace'[p] = [aspace[p] EXCEPT ![r] = x]
  BY <1>1, <1>2
<1> QED
  BY <1>1, <1>3, <1>4, Zenon

\* The memory of one program that is another as a whole.
LEMMA WholeChange ==
  ASSUME NEW p \in Procs, NEW m, m = [s \in Regions |-> m[s]],
         \A q \in Procs, s \in Regions : View(q, s)' = IF q = p THEN m[s] ELSE View(q, s)
  PROVE  aspace' = [aspace EXCEPT ![p] = m]
<1>1. /\ aspace = [q \in Procs |-> [s \in Regions |-> View(q, s)]]
      /\ aspace' = [q \in Procs |-> [s \in Regions |-> View(q, s)']]
  BY DEF aspace, View
<1>2. aspace'[p] = m
  BY <1>1
<1>3. \A q \in Procs : q # p => aspace'[q] = aspace[q]
  BY <1>1
<1> QED
  BY <1>1, <1>2, <1>3
=============================================================================
