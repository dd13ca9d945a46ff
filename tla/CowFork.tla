------------------------------ MODULE CowFork ------------------------------
(***************************************************************************)
(* Proofs about Cow: the steps of fork keep the invariant, and copying is  *)
(* not seen by the program that forks.                                     *)
(***************************************************************************)
EXTENDS CowInv

\* fork takes a free slot, and the child has nothing yet.
LEMMA ForkBeginStep ==
  ASSUME TypeOK, SoundInv, NEW p \in Procs, NEW c \in Procs, ForkBegin(p, c)
  PROVE  SoundInv'
<1> USE DEF core, spaces
<1>1. /\ pc[p] = "user" /\ st[p] = "active" /\ st[c] = "unused" /\ p # c
      /\ st' = [st EXCEPT ![c] = "embryo"] /\ child' = [child EXCEPT ![p] = c]
      /\ reg' = [reg EXCEPT ![p] = 1] /\ pc' = [pc EXCEPT ![p] = "copy"]
      /\ UNCHANGED Pages /\ UNCHANGED <<pte, tlb, cur>>
  BY DEF ForkBegin, InUser, Running, Pages
<1>2. \A q \in Procs : pc'[q] = (IF q = p THEN "copy" ELSE pc[q]) /\ child'[q] = (IF q = p THEN c ELSE child[q])
                       /\ reg'[q] = (IF q = p THEN 1 ELSE reg[q]) /\ st'[q] = (IF q = c THEN "embryo" ELSE st[q])
  BY <1>1 DEF TypeOK
<1>3. pc[c] = "user" /\ \A q \in Procs : pc[q] \in Forking => child[q] # c
  BY <1>1 DEF SoundInv, ForkInv
<1>4. (FrameInv /\ CountInv /\ OwnInv /\ LeakInv)'
  BY <1>1, <1>2, PagesKept DEF Pending
<1>5. ForkInv'
  BY <1>1, <1>2, <1>3 DEF SoundInv, ForkInv, Forking
<1>6. CopyInv'
  <2>1. \A r \in Regions : vpi[c][r].ppn = Null /\ list[c][r] = Null /\ ~(r < 1)
    BY <1>1, RegionFacts DEF SoundInv, SpaceInv
  <2> QED
    BY <1>1, <1>2, <2>1 DEF SoundInv, CopyInv, Given, Forking, Pages
<1>7. SpaceInv'
  BY <1>1, <1>2 DEF SoundInv, SpaceInv, Pages
<1>8. TableInv'
  BY <1>1, <1>2, <1>3 DEF SoundInv, TableInv, Rebuilt, Pages, Forking
<1> QED
  BY <1>4, <1>5, <1>6, <1>7, <1>8 DEF SoundInv

\* What the end of a region's copy changes.
LEMMA AdvanceFacts ==
  ASSUME TypeOK, NEW p \in Procs, Advance(p)
  PROVE  /\ \A q \in Procs : q # p => pc'[q] = pc[q] /\ reg'[q] = reg[q]
         /\ pc'[p] \in {"copy", "finish"}
         /\ \A r \in Regions : Given(p, r)' <=> r <= reg[p]
<1>1. reg[p] \in Regions /\ \A r \in Regions : r \in Nat /\ 1 <= r /\ r <= NREGIONS
  BY RegionFacts DEF TypeOK
<1>2. CASE reg[p] = NREGIONS
  <2>1. pc'[p] = "finish"
    BY <1>2 DEF TypeOK, Advance
  <2> QED
    BY <1>1, <1>2, <2>1 DEF TypeOK, Advance, Given
<1>3. CASE reg[p] # NREGIONS
  <2>1. pc'[p] = "copy" /\ reg'[p] = reg[p] + 1
    BY <1>3 DEF TypeOK, Advance
  <2> QED
    BY <1>1, <1>3, <2>1 DEF TypeOK, Advance, Given
<1> QED
  BY <1>2, <1>3

\* The forks go on as they were when one of them advances.
LEMMA AdvanceForks ==
  ASSUME TypeOK, SoundInv, NEW p \in Procs, Advance(p), pc[p] \in Forking, UNCHANGED <<child, st>>
  PROVE  /\ ForkInv'
         /\ \A c \in Procs, r \in Regions :
              Pending(c, r)' <=> Pending(c, r) /\ ~(pc[p] = "count" /\ c = child[p] /\ r = reg[p])
<1>1. \A q \in Procs : q # p => pc'[q] = pc[q] /\ reg'[q] = reg[q]
  BY AdvanceFacts
<1>2. pc'[p] \in {"copy", "finish"}
  BY AdvanceFacts
<1>3. ForkInv'
  BY <1>1, <1>2 DEF SoundInv, ForkInv, Forking
<1>4. ASSUME NEW c \in Procs, NEW r \in Regions
      PROVE  Pending(c, r)' <=> Pending(c, r) /\ ~(pc[p] = "count" /\ c = child[p] /\ r = reg[p])
  BY <1>1, <1>2 DEF Pending, SoundInv, ForkInv, Forking
<1> QED
  BY <1>3, <1>4

\* copy_vpi_page counts the page that it has shared.
LEMMA ForkCountStep ==
  ASSUME Counting, TypeOK, SoundInv, NEW p \in Procs, ForkCount(p)
  PROVE  SoundInv'
<1> USE DEF core, spaces
<1>0. PICK c \in Procs, r \in Regions, g \in Frames :
        c = child[p] /\ r = reg[p] /\ g = vpi[p][r].ppn /\ vpi[c][r].ppn = g
  <2>1. pc[p] = "count"
    BY DEF ForkCount
  <2>2. child[p] \in Procs /\ reg[p] \in Regions
    BY <2>1 DEF SoundInv, ForkInv, Forking, TypeOK
  <2>3. vpi[p][reg[p]].ppn \in Frames
    BY <2>1, <2>2, InfoFacts DEF SoundInv, CopyInv, Forking, TypeOK, Ppns
  <2>4. Given(p, reg[p])
    BY <2>1, <2>2, RegionFacts DEF Given
  <2>5. vpi[child[p]][reg[p]].ppn = vpi[p][reg[p]].ppn
    BY <2>1, <2>2, <2>4 DEF SoundInv, CopyInv, Forking
  <2> QED
    BY <2>2, <2>3, <2>5
<1>1. /\ pc[p] = "count" /\ Advance(p) /\ ref' = [ref EXCEPT ![g] = @ + 1]
      /\ UNCHANGED <<avail, inuse, kernel, spaces, tlb, cur, st, child, dropped>>
  BY <1>0 DEF ForkCount
<1>3. ForkInv' /\ \A d \in Procs, s \in Regions : Pending(d, s)' <=> Pending(d, s) /\ ~(d = c /\ s = r)
  BY <1>0, <1>1, AdvanceForks DEF Forking
<1>4. CopyInv'
  <2>1. \A q \in Procs : q # p => pc'[q] = pc[q] /\ reg'[q] = reg[q]
    BY <1>1, AdvanceFacts
  <2>2. pc'[p] \in {"copy", "finish"} /\ \A s \in Regions : Given(p, s)' <=> Given(p, s)
    BY <1>1, AdvanceFacts DEF Given
  <2> QED
    BY <1>1, <2>1, <2>2 DEF SoundInv, CopyInv, Given, Forking
<1>5. SpaceInv' /\ OwnInv'
  <2>1. \A q \in Procs : pc'[q] = "sbrk" => pc[q] = "sbrk"
    BY <1>1, AdvanceFacts
  <2> QED
    BY <1>1, <2>1 DEF SoundInv, SpaceInv, OwnInv
<1>6. TableInv'
  <2>1. \A q \in Procs : pc'[q] \notin Forking => pc[q] \notin Forking
    BY <1>1, AdvanceFacts DEF Forking
  <2> QED
    BY <1>1, <2>1 DEF SoundInv, TableInv, Rebuilt
<1>7. g \notin avail /\ g \notin kernel /\ \A q \in Procs, s \in Regions : list[q][s] # g
  BY <1>0, FramesAssumption DEF SoundInv, FrameInv
<1>8. \A f \in Frames : ref'[f] = IF f = g THEN ref[f] + 1 ELSE ref[f]
  BY <1>0, <1>1 DEF TypeOK
<1>9. FrameInv'
  BY <1>1, <1>7, <1>8 DEF SoundInv, FrameInv, TypeOK, Ppns
<1>10. CountInv'
  <2>1. \A f : Mapped(f)' <=> Mapped(f)
    BY <1>1, Zenon DEF Mapped
  <2>2. ASSUME NEW f \in Frames, f # g PROVE Counted(f)' = Counted(f)
    BY <1>0, <1>1, <1>3, <2>2, Zenon DEF Counted
  <2>3. Counted(g)' = Counted(g) \cup {<<c, r>>} /\ <<c, r>> \notin Counted(g)
    <3>1. Pending(c, r)
      BY <1>0, <1>1 DEF Pending
    <3> QED
      BY <1>0, <1>1, <1>3, <3>1 DEF Counted
  <2>4. Counted(g) \in SUBSET (Procs \X Regions) /\ <<c, r>> \in Procs \X Regions
    BY DEF Counted
  <2>5. Cardinality(Counted(g)) \in Nat /\ Cardinality(Counted(g)') = Cardinality(Counted(g)) + 1
    <3>1. /\ Cardinality(Counted(g)) \in Nat
          /\ Cardinality(Counted(g) \cup {<<c, r>>}) = Cardinality(Counted(g)) + 1
      BY <2>3, <2>4, CellSets, Zenon
    <3> QED
      BY <2>3, <3>1, Zenon
  <2>6. ref[g] \in Nat
    BY DEF TypeOK
  <2> QED
    BY <1>1, <1>8, <2>1, <2>2, <2>5, <2>6 DEF SoundInv, CountInv
<1>11. LeakInv'
  BY <1>1 DEF SoundInv, LeakInv, Mapped, Listed
<1> QED
  BY <1>3, <1>4, <1>5, <1>6, <1>9, <1>10, <1>11 DEF SoundInv

\* The end of vspacecopy: both page tables say what the vpage_infos say.
LEMMA ForkFinishStep ==
  ASSUME TypeOK, SoundInv, NEW p \in Procs, ForkFinish(p)
  PROVE  SoundInv'
<1> DEFINE c == child[p]
<1> USE DEF core
<1>1. /\ pc[p] = "finish" /\ st[p] = "active" /\ cur = p /\ UNCHANGED Pages /\ cur' = cur
      /\ pte' = [pte EXCEPT ![p] = Rebuilt(vpi[p]), ![c] = Rebuilt(vpi[c])]
      /\ st' = [st EXCEPT ![c] = "active"] /\ child' = [child EXCEPT ![p] = Null]
      /\ pc' = [pc EXCEPT ![p] = "user"] /\ tlb' = NoPtes /\ reg' = [reg EXCEPT ![p] = 1]
  BY DEF ForkFinish, Publish, Pages, Running
<1>2. c \in Procs /\ st[c] = "embryo" /\ c # p /\ \A q \in Procs : pc[q] \in Forking /\ child[q] = c => q = p
  BY <1>1 DEF SoundInv, ForkInv, Forking
<1>3. \A q \in Procs :
        /\ pc'[q] = (IF q = p THEN "user" ELSE pc[q]) /\ st'[q] = (IF q = c THEN "active" ELSE st[q])
        /\ child'[q] = (IF q = p THEN Null ELSE child[q]) /\ reg'[q] = (IF q = p THEN 1 ELSE reg[q])
        /\ pte'[q] = IF q \in {p, c} THEN Rebuilt(vpi[q]) ELSE pte[q]
  BY <1>1, <1>2, Zenon DEF TypeOK
<1>4. (FrameInv /\ CountInv /\ OwnInv /\ LeakInv)'
  <2>1. \A d \in Procs, r \in Regions : Pending(d, r)' <=> Pending(d, r)
    BY <1>1, <1>3 DEF Pending
  <2> QED
    BY <1>1, <2>1, PagesKept, Zenon
<1>5. ForkInv' /\ CopyInv'
  <2>1. ASSUME NEW q \in Procs, pc'[q] \in Forking
        PROVE  /\ q # p /\ pc[q] \in Forking /\ pc'[q] = pc[q] /\ child'[q] = child[q] /\ reg'[q] = reg[q]
               /\ child[q] \in Procs /\ child[q] # c
    <3>1. q # p /\ pc'[q] = pc[q] /\ child'[q] = child[q] /\ reg'[q] = reg[q]
      BY <1>3, <2>1 DEF Forking
    <3> QED
      BY <1>2, <2>1, <3>1, Zenon DEF SoundInv, ForkInv
  <2>2. ForkInv'
    <3>1. \A q \in Procs : pc'[q] # "user" => st'[q] = "active"
      BY <1>3 DEF SoundInv, ForkInv
    <3>2. \A q \in Procs : pc'[q] \in Forking => child'[q] \in Procs /\ st'[child'[q]] = "embryo"
      BY <1>3, <2>1 DEF SoundInv, ForkInv
    <3>3. \A q, d \in Procs : pc'[q] \in Forking /\ pc'[d] \in Forking /\ child'[d] = child'[q] => d = q
      <4>1. \A q, d \in Procs : pc[q] \in Forking /\ pc[d] \in Forking /\ child[d] = child[q] => d = q
        BY DEF SoundInv, ForkInv
      <4> QED
        BY <2>1, <4>1
    <3> QED
      BY <3>1, <3>2, <3>3, Zenon DEF ForkInv
  <2>3. vpi' = vpi /\ list' = list
    BY <1>1 DEF Pages
  <2>4. \A q \in Procs, r \in Regions : pc'[q] \in Forking => (Given(q, r)' <=> Given(q, r))
    BY <2>1, Zenon DEF Given
  <2>5. CopyInv'
    <3> SUFFICES ASSUME NEW q \in Procs, pc'[q] \in Forking
                 PROVE  /\ \A r \in Regions :
                             /\ Given(q, r)' => vpi'[child'[q]][r].ppn = vpi'[q][r].ppn
                             /\ ~Given(q, r)' => vpi'[child'[q]][r].ppn = Null /\ list'[child'[q]][r] = Null
                        /\ pc'[q] = "count" => vpi'[q][reg'[q]].ppn # Null
      BY Zenon DEF CopyInv
    <3>1. pc[q] \in Forking /\ pc'[q] = pc[q] /\ child'[q] = child[q] /\ reg'[q] = reg[q]
      BY <2>1, Zenon
    <3>2. /\ \A r \in Regions :
               /\ Given(q, r) => vpi[child[q]][r].ppn = vpi[q][r].ppn
               /\ ~Given(q, r) => vpi[child[q]][r].ppn = Null /\ list[child[q]][r] = Null
          /\ pc[q] = "count" => vpi[q][reg[q]].ppn # Null
      BY <3>1, Zenon DEF SoundInv, CopyInv
    <3> QED
      BY <2>3, <2>4, <3>1, <3>2
  <2> QED
    BY <2>2, <2>5, Zenon
<1>6. SpaceInv'
  BY <1>1, <1>3 DEF SoundInv, SpaceInv, Pages
<1>7. TableInv'
  <2>1. vpi' = vpi /\ \A q \in Procs : Rebuilt(vpi'[q]) = Rebuilt(vpi[q])
    BY <1>1 DEF Pages
  <2>2. \A r \in Regions : tlb'[r].ppn = Null
    BY <1>1 DEF NoPtes, NoPte
  <2> QED
    <3>1. ASSUME NEW q \in Procs, st'[q] # "embryo", pc'[q] \notin Forking
          PROVE  pte'[q] = Rebuilt(vpi[q])
      BY <1>2, <1>3, <3>1, Zenon DEF SoundInv, TableInv
    <3>2. cur' = p /\ st'[p] = "active"
      BY <1>1, <1>2, <1>3
    <3> QED
      BY <2>1, <2>2, <3>1, <3>2, Zenon DEF TableInv
<1> QED
  BY <1>4, <1>5, <1>6, <1>7, Zenon DEF SoundInv

\* copy_vpi_page gives the child a list and shares the parent's page.
LEMMA ForkCopyStep ==
  ASSUME Counting, TypeOK, SoundInv, NEW p \in Procs, ForkCopy(p)
  PROVE  SoundInv'
<1> USE DEF core
<1>0. PICK c \in Procs, r \in Regions :
        c = child[p] /\ r = reg[p] /\ c # p /\ vpi[c][r].ppn = Null /\ list[c][r] = Null
  <2>1. pc[p] = "copy" /\ st[p] = "active"
    BY DEF ForkCopy, Running
  <2>2. child[p] \in Procs /\ reg[p] \in Regions /\ child[p] # p
    BY <2>1 DEF SoundInv, ForkInv, Forking, TypeOK
  <2>3. ~Given(p, reg[p])
    BY <2>1, <2>2, RegionFacts DEF Given
  <2> QED
    BY <2>1, <2>2, <2>3 DEF SoundInv, CopyInv, Forking
<1>1. pc[p] = "copy" /\ UNCHANGED <<kernel, pte, tlb, cur, st, child, dropped>>
  BY DEF ForkCopy
<1>2. ASSUME Advance(p), UNCHANGED vpi, vpi[p][r].ppn = Null,
             \A q \in Procs, s \in Regions : q # c \/ s # r => list'[q][s] = list[q][s]
      PROVE  ForkInv' /\ CopyInv' /\ TableInv' /\ OwnInv'
             /\ \A d \in Procs, s \in Regions : Pending(d, s)' <=> Pending(d, s)
  <2>1. ForkInv' /\ \A d \in Procs, s \in Regions : Pending(d, s)' <=> Pending(d, s)
    BY <1>1, <1>2, AdvanceForks DEF Forking
  <2>2. \A q \in Procs : q # p => pc'[q] = pc[q] /\ reg'[q] = reg[q]
    BY <1>2, AdvanceFacts
  <2>3. pc'[p] \in {"copy", "finish"} /\ \A s \in Regions : Given(p, s)' <=> Given(p, s) \/ s = r
    BY <1>0, <1>1, <1>2, AdvanceFacts, RegionFacts DEF Given
  <2>4. CopyInv'
    <3>1. ASSUME NEW q \in Procs, pc'[q] \in Forking, q # p
          PROVE  /\ \A s \in Regions :
                      /\ Given(q, s)' => vpi'[child'[q]][s].ppn = vpi'[q][s].ppn
                      /\ ~Given(q, s)' => vpi'[child'[q]][s].ppn = Null /\ list'[child'[q]][s] = Null
                 /\ pc'[q] = "count" => vpi'[q][reg'[q]].ppn # Null
      <4>1. pc[q] \in Forking /\ child[q] \in Procs /\ child[q] # c
        BY <1>0, <1>1, <2>2, <3>1 DEF SoundInv, ForkInv, Forking
      <4>2. \A s \in Regions : Given(q, s)' <=> Given(q, s)
        BY <2>2, <3>1 DEF Given
      <4> QED
        BY <1>1, <1>2, <2>2, <3>1, <4>1, <4>2 DEF SoundInv, CopyInv
    <3>2. \A s \in Regions :
            /\ Given(p, s)' => vpi'[child'[p]][s].ppn = vpi'[p][s].ppn
            /\ ~Given(p, s)' => vpi'[child'[p]][s].ppn = Null /\ list'[child'[p]][s] = Null
      BY <1>0, <1>1, <1>2, <2>3 DEF SoundInv, CopyInv, Forking
    <3> QED
      BY <2>3, <3>1, <3>2 DEF CopyInv
  <2>5. TableInv' /\ OwnInv'
    <3>1. \A q \in Procs : pc'[q] \notin Forking => pc[q] \notin Forking
      BY <1>1, <2>2, <2>3 DEF Forking
    <3> QED
      BY <1>1, <1>2, <3>1 DEF SoundInv, TableInv, OwnInv, Rebuilt
  <2> QED
    BY <2>1, <2>4, <2>5
<1>3. CASE list[p][r] = Null
  <2>1. Advance(p) /\ UNCHANGED Pages /\ UNCHANGED <<list, vpi>>
    BY <1>0, <1>3 DEF ForkCopy, Pages
  <2>2. vpi[p][r].ppn = Null
    BY <1>3, Zenon DEF SoundInv, SpaceInv
  <2>3. ForkInv' /\ CopyInv' /\ TableInv' /\ OwnInv'
        /\ \A d \in Procs, s \in Regions : Pending(d, s)' <=> Pending(d, s)
    BY <1>2, <2>1, <2>2
  <2>4. SpaceInv'
    <3>1. \A q \in Procs : pc'[q] = "sbrk" => pc[q] = "sbrk"
      BY <2>1, AdvanceFacts
    <3> QED
      BY <1>1, <2>1, <3>1 DEF SoundInv, SpaceInv
  <2> QED
    BY <2>1, <2>3, <2>4, PagesKept DEF SoundInv
<1>4. ASSUME NEW f \in Frames, Kalloc(f), list' = [list EXCEPT ![c][r] = f],
             vpi[p][r].ppn = Null, Advance(p), UNCHANGED vpi
      PROVE  SoundInv'
  <2>1. \A q \in Procs, s \in Regions : list'[q][s] = IF q = c /\ s = r THEN f ELSE list[q][s]
    BY <1>4 DEF TypeOK
  <2>2. ForkInv' /\ CopyInv' /\ TableInv' /\ OwnInv'
        /\ \A d \in Procs, s \in Regions : Pending(d, s)' <=> Pending(d, s)
    BY <1>2, <1>4, <2>1
  <2>3. SpaceInv'
    <3>1. st[c] # "unused" /\ f # Null /\ pc[c] # "sbrk"
      BY <1>0, <1>1, FramesAssumption DEF SoundInv, ForkInv, Forking
    <3>2. \A q \in Procs : pc'[q] = "sbrk" => pc[q] = "sbrk"
      BY <1>4, AdvanceFacts
    <3> QED
      BY <1>1, <1>4, <2>1, <3>1, <3>2 DEF SoundInv, SpaceInv
  <2>4. \A g \in Frames : (Mapped(g)' <=> Mapped(g)) /\ Counted(g)' = Counted(g)
    BY <1>4, <2>2 DEF Mapped, Counted
  <2>5. \A q \in Procs, s \in Regions :
          vpi'[q][s].ppn # Null => \E t \in Procs : vpi[t][s].ppn = vpi'[q][s].ppn
    BY <1>4
  <2>6. (FrameInv /\ CountInv /\ LeakInv)'
    BY <1>0, <1>1, <1>4, <2>4, <2>5, ListAdded, Zenon
  <2> QED
    BY <2>2, <2>3, <2>6 DEF SoundInv
<1>5. ASSUME NEW f \in Frames, Kalloc(f), list' = [list EXCEPT ![c][r] = f],
             vpi[p][r].ppn # Null,
             vpi' = [vpi EXCEPT ![p][r] = Shared(vpi[p][r].ppn), ![c][r] = Shared(vpi[p][r].ppn)],
             pc' = [pc EXCEPT ![p] = "count"], UNCHANGED reg
      PROVE  SoundInv'
  <2>0. PICK g \in Frames : g = vpi[p][r].ppn
    BY <1>5, InfoFacts DEF TypeOK, Ppns
  <2>1. \A q \in Procs, s \in Regions : list'[q][s] = IF q = c /\ s = r THEN f ELSE list[q][s]
    BY <1>5 DEF TypeOK
  <2>2. \A q \in Procs, s \in Regions :
          vpi'[q][s] = IF q \in {p, c} /\ s = r THEN Shared(g) ELSE vpi[q][s]
    BY <1>0, <1>5, <2>0 DEF TypeOK
  <2>3. \A q \in Procs, s \in Regions : vpi'[q][s].ppn = IF q = c /\ s = r THEN g ELSE vpi[q][s].ppn
    BY <2>0, <2>2, InfoFacts DEF Ppns
  <2>4. \A q \in Procs : pc'[q] = IF q = p THEN "count" ELSE pc[q]
    BY <1>5, Zenon DEF TypeOK
  <2>5. ForkInv'
    BY <1>1, <2>4 DEF SoundInv, ForkInv, Forking
  <2>6. \A d \in Procs, s \in Regions : Pending(d, s)' <=> Pending(d, s) \/ (d = c /\ s = r)
    <3>1. child' = child /\ reg' = reg
      BY <1>1, <1>5
    <3>2. ASSUME NEW d \in Procs, NEW s \in Regions, NEW q \in Procs
          PROVE  pc'[q] = "count" /\ child'[q] = d /\ reg'[q] = s
                 <=> \/ pc[q] = "count" /\ child[q] = d /\ reg[q] = s
                     \/ q = p /\ d = c /\ s = r
      BY <1>0, <1>1, <2>4, <3>1, Zenon
    <3> QED
      BY <3>2 DEF Pending
  <2>7. CopyInv'
    <3>1. ASSUME NEW q \in Procs, pc'[q] \in Forking, q # p
          PROVE  /\ \A s \in Regions :
                      /\ Given(q, s)' => vpi'[child'[q]][s].ppn = vpi'[q][s].ppn
                      /\ ~Given(q, s)' => vpi'[child'[q]][s].ppn = Null /\ list'[child'[q]][s] = Null
                 /\ pc'[q] = "count" => vpi'[q][reg'[q]].ppn # Null
      <4>0. pc[q] \in Forking /\ reg[q] \in Regions
        BY <2>4, <3>1, Zenon DEF TypeOK
      <4>1. child[q] \in Procs /\ child[q] # c /\ q # c
        BY <1>0, <1>1, <3>1, <4>0 DEF SoundInv, ForkInv, Forking
      <4>2. \A s \in Regions : Given(q, s)' <=> Given(q, s)
        BY <1>5, <2>4, <3>1 DEF Given
      <4> QED
        <5>1. child'[q] = child[q] /\ reg'[q] = reg[q] /\ pc'[q] = pc[q]
          BY <1>1, <1>5, <2>4, <3>1
        <5>2. \A s \in Regions : vpi'[child[q]][s].ppn = vpi[child[q]][s].ppn /\ vpi'[q][s].ppn = vpi[q][s].ppn
          BY <2>3, <4>1
        <5>3. \A s \in Regions : list'[child[q]][s] = list[child[q]][s]
          BY <2>1, <4>1
        <5> QED
          BY <4>0, <4>1, <4>2, <5>1, <5>2, <5>3 DEF SoundInv, CopyInv
    <3>2. \A s \in Regions : Given(p, s)' <=> Given(p, s) \/ s = r
      BY <1>0, <1>1, <1>5, <2>4, RegionFacts DEF Given
    <3>3. \A s \in Regions :
            /\ Given(p, s)' => vpi'[child'[p]][s].ppn = vpi'[p][s].ppn
            /\ ~Given(p, s)' => vpi'[child'[p]][s].ppn = Null /\ list'[child'[p]][s] = Null
      BY <1>0, <1>1, <2>0, <2>1, <2>3, <3>2 DEF SoundInv, CopyInv, Forking
    <3>4. vpi'[p][reg'[p]].ppn # Null
      <4>1. reg'[p] = r /\ vpi'[p][r].ppn = vpi[p][r].ppn
        BY <1>0, <1>5, <2>3, Zenon
      <4> QED
        BY <1>5, <4>1, Zenon
    <3> QED
      BY <3>1, <3>3, <3>4 DEF CopyInv
  <2>8. SpaceInv'
    <3>1. st[c] # "unused" /\ f # Null /\ pc[c] # "sbrk"
      BY <1>0, <1>1, FramesAssumption DEF SoundInv, ForkInv, Forking
    <3> QED
      BY <1>1, <2>1, <2>3, <2>4, <3>1 DEF SoundInv, SpaceInv
  <2>9. TableInv'
    <3>1. ASSUME NEW q \in Procs, st[q] # "embryo", pc'[q] \notin Forking
          PROVE  pte'[q] = Rebuilt(vpi'[q])
      <4>1. q # p /\ q # c /\ pc[q] \notin Forking
        BY <1>0, <1>1, <2>4, <3>1 DEF SoundInv, ForkInv, Forking
      <4>2. vpi'[q] = vpi[q]
        BY <1>0, <1>5, <4>1 DEF TypeOK
      <4> QED
        BY <1>1, <3>1, <4>1, <4>2 DEF SoundInv, TableInv
    <3> QED
      BY <1>1, <3>1 DEF SoundInv, TableInv
  <2>10. OwnInv'
    <3>1. ASSUME NEW q \in Procs, NEW s \in Regions, vpi'[q][s].w
          PROVE  /\ vpi'[q][s].ppn # Null
                 /\ \A d \in Procs, t \in Regions : vpi'[d][t].ppn = vpi'[q][s].ppn => d = q /\ t = s
      <4>1. vpi'[q][s] = vpi[q][s] /\ ~(q \in {p, c} /\ s = r)
        BY <2>2, <3>1, InfoFacts DEF Ppns
      <4>2. vpi[q][s].ppn # g
        BY <2>0, <3>1, <4>1 DEF SoundInv, OwnInv
      <4> QED
        BY <2>3, <3>1, <4>1, <4>2 DEF SoundInv, OwnInv
    <3> QED
      BY <3>1 DEF OwnInv
  <2>11. ASSUME NEW h \in Frames
         PROVE  (Mapped(h)' <=> Mapped(h)) /\ Counted(h)' = Counted(h)
    <3>1. Mapped(h)' <=> Mapped(h)
      BY <1>0, <2>0, <2>3, FramesAssumption DEF Mapped
    <3>2. Counted(h)' = Counted(h)
      <4>1. ASSUME NEW q \in Procs, NEW s \in Regions
            PROVE  vpi'[q][s].ppn = h /\ ~Pending(q, s)' <=> vpi[q][s].ppn = h /\ ~Pending(q, s)
        BY <1>0, <2>3, <2>6, FramesAssumption
      <4> QED
        BY <4>1 DEF Counted
    <3> QED
      BY <3>1, <3>2
  <2>12. \A q \in Procs, s \in Regions :
           vpi'[q][s].ppn # Null => \E t \in Procs : vpi[t][s].ppn = vpi'[q][s].ppn
    BY <2>0, <2>3
  <2>13. (FrameInv /\ CountInv /\ LeakInv)'
    BY <1>0, <1>1, <1>5, <2>11, <2>12, ListAdded, Zenon
  <2> QED
    BY <2>5, <2>7, <2>8, <2>9, <2>10, <2>13, Zenon DEF SoundInv
<1> QED
  BY <1>0, <1>3, <1>4, <1>5, Zenon DEF ForkCopy

-----------------------------------------------------------------------------
(* the refinement of private memories *)

\* A write changes one place of the writer's memory, and nobody else's.
LEMMA WriteRefines ==
  ASSUME TypeOK, SoundInv, NEW p \in Procs, NEW r \in Regions, NEW v \in Values, Write(p, r, v)
  PROVE  Private!Write(p, r, v)
<1>1. /\ InUser(p) /\ Translation(p, r).w /\ mem' = [mem EXCEPT ![Translation(p, r).ppn] = v]
      /\ UNCHANGED <<cur, st, vpi>>
  BY DEF Write, spaces
<1>2. Translation(p, r).ppn = vpi[p][r].ppn /\ vpi[p][r].w /\ st[p] = "active"
  BY <1>1, Translates, Zenon DEF InUser, Running
<1>3. PICK g \in Frames :
        /\ g = vpi[p][r].ppn /\ g # Null
        /\ \A q \in Procs, s \in Regions : vpi[q][s].ppn = g => q = p /\ s = r
  <2>1. vpi[p][r].ppn \in Frames \cup {Null}
    BY PpnTypes, Zenon
  <2>2. vpi[p][r].ppn # Null
    BY <1>2, Zenon DEF SoundInv, OwnInv
  <2>3. \A q \in Procs, s \in Regions : vpi[q][s].ppn = vpi[p][r].ppn => q = p /\ s = r
    BY <1>2, Zenon DEF SoundInv, OwnInv
  <2> QED
    BY <2>1, <2>2, <2>3, Zenon
<1>4. \A h \in Frames : mem'[h] = IF h = g THEN v ELSE mem[h]
  BY <1>1, <1>2, <1>3, Zenon DEF TypeOK
<1>5. ASSUME NEW q \in Procs, NEW s \in Regions
      PROVE  View(q, s)' = IF q = p /\ s = r THEN v ELSE View(q, s)
  <2>1. vpi[q][s].ppn \in Frames \cup {Null}
    BY PpnTypes, Zenon
  <2> QED
    BY <1>1, <1>2, <1>3, <1>4, <2>1, Zenon DEF View
<1>6. aspace' = [aspace EXCEPT ![p][r] = v]
  BY <1>5, OneChange
<1>7. aspace[p][r] # Null
  <2>1. mem[g] # Null
    BY ValuesAssumption DEF TypeOK, Contents
  <2> QED
    BY <1>2, <1>3, <2>1 DEF aspace
<1> QED
  BY <1>1, <1>6, <1>7 DEF Private!Write

\* fork gives the child, whose pages are all shared, a complete copy.
LEMMA ForkRefines ==
  ASSUME TypeOK, SoundInv, NEW p \in Procs, ForkFinish(p)
  PROVE  \E c \in Procs : Private!Fork(p, c)
<1>0. PICK c : c = child[p]
  BY Zenon
<1>1. /\ pc[p] = "finish" /\ st[p] = "active" /\ st' = [st EXCEPT ![c] = "active"]
      /\ UNCHANGED <<mem, vpi, cur>>
  BY <1>0 DEF ForkFinish, Publish, Running, core
<1>2. c \in Procs /\ st[c] = "embryo"
  BY <1>0, <1>1 DEF SoundInv, ForkInv, Forking
<1>3. \A q \in Procs : st'[q] = IF q = c THEN "active" ELSE st[q]
  BY <1>1, <1>2 DEF TypeOK
<1>4. \A s \in Regions : vpi[c][s].ppn = vpi[p][s].ppn
  BY <1>0, <1>1, Zenon DEF SoundInv, CopyInv, Forking, Given
<1>5. \A q \in Procs, s \in Regions : View(q, s)' = IF q = c THEN View(p, s) ELSE View(q, s)
  BY <1>1, <1>2, <1>3, <1>4 DEF View
<1>6. aspace' = [aspace EXCEPT ![c] = aspace[p]]
  <2>1. aspace[p] = [s \in Regions |-> aspace[p][s]] /\ \A s \in Regions : aspace[p][s] = View(p, s)
    BY DEF aspace, View
  <2>2. \A q \in Procs, s \in Regions : View(q, s)' = IF q = c THEN aspace[p][s] ELSE View(q, s)
    BY <1>5, <2>1
  <2> QED
    BY <1>2, <2>1, <2>2, WholeChange, Zenon
<1>7. /\ {q \in Procs : st[q] = "active"}' = {q \in Procs : st[q] = "active"} \cup {c}
      /\ c \notin {q \in Procs : st[q] = "active"}
  BY <1>2, <1>3
<1> QED
  BY <1>1, <1>2, <1>6, <1>7, Zenon DEF Private!Fork

\* What fork does before its end happens in the child's space, and in new pages.
LEMMA ForkUnnoticed ==
  ASSUME TypeOK, SoundInv, NEW p \in Procs,
         ForkCopy(p) \/ ForkCount(p) \/ \E c \in Procs : ForkBegin(p, c)
  PROVE  UNCHANGED Private!vars
<1> USE DEF core, spaces
<1>1. CASE ForkCount(p)
  <2>1. \A q \in Procs, s \in Regions : View(q, s)' = View(q, s)
    BY <1>1 DEF ForkCount, View
  <2> QED
    BY <1>1, <2>1, Unnoticed DEF ForkCount
<1>2. ASSUME NEW c \in Procs, ForkBegin(p, c) PROVE UNCHANGED Private!vars
  <2>1. st[c] = "unused" /\ st' = [st EXCEPT ![c] = "embryo"] /\ UNCHANGED <<mem, vpi, cur, damaged>>
    BY <1>2 DEF ForkBegin
  <2>2. \A q \in Procs : st'[q] = "active" <=> st[q] = "active"
    BY <2>1 DEF TypeOK
  <2>3. \A q \in Procs, s \in Regions : View(q, s)' = View(q, s)
    BY <2>1, <2>2, Zenon DEF View
  <2> QED
    BY <2>1, <2>2, <2>3, Unnoticed
<1>3. CASE ForkCopy(p)
  <2>0. PICK c \in Procs, r \in Regions : c = child[p] /\ r = reg[p] /\ c # p /\ st[c] = "embryo"
    <3>1. pc[p] = "copy" /\ st[p] = "active"
      BY <1>3, Zenon DEF ForkCopy, Running
    <3> QED
      BY <3>1, Zenon DEF SoundInv, ForkInv, Forking, TypeOK
  <2>1. UNCHANGED <<cur, st, damaged>>
    BY <1>3, Zenon DEF ForkCopy
  <2>2. CASE UNCHANGED <<mem, vpi>>
    <3>1. \A q \in Procs, s \in Regions : View(q, s)' = View(q, s)
      BY <2>1, <2>2, Zenon DEF View
    <3> QED
      BY <2>1, <3>1, Unnoticed
  <2>3. ASSUME NEW f \in Frames, Kalloc(f), mem' = [mem EXCEPT ![f] = 0],
               \/ UNCHANGED vpi
               \/ vpi' = [vpi EXCEPT ![p][r] = Shared(vpi[p][r].ppn), ![c][r] = Shared(vpi[p][r].ppn)]
        PROVE  UNCHANGED Private!vars
    <3>1. Shared(vpi[p][r].ppn).ppn = vpi[p][r].ppn
      BY Zenon DEF Shared
    <3>2. \A q \in Procs, s \in Regions : q # c => vpi'[q][s].ppn = vpi[q][s].ppn
      <4>1. CASE UNCHANGED vpi
        BY <4>1, Zenon
      <4>2. CASE vpi' = [vpi EXCEPT ![p][r] = Shared(vpi[p][r].ppn), ![c][r] = Shared(vpi[p][r].ppn)]
        <5>1. \A q \in Procs, s \in Regions :
                vpi'[q][s] = IF q \in {p, c} /\ s = r THEN Shared(vpi[p][r].ppn) ELSE vpi[q][s]
          BY <2>0, <4>2, Zenon DEF TypeOK
        <5> QED
          BY <3>1, <5>1, Zenon
      <4> QED
        BY <2>3, <4>1, <4>2
    <3>3. \A q \in Procs, s \in Regions : st[q] = "active" => vpi[q][s].ppn # f /\ vpi'[q][s].ppn = vpi[q][s].ppn
      BY <2>0, <2>3, <3>2 DEF SoundInv, FrameInv, Kalloc
    <3>4. \A g \in Frames : g # f => mem'[g] = mem[g]
      BY <2>3 DEF TypeOK
    <3> QED
      BY <2>1, <3>3, <3>4, OtherPage, Zenon
  <2> QED
    BY <1>3, <2>0, <2>2, <2>3, Zenon DEF ForkCopy
<1> QED
  BY <1>1, <1>2, <1>3, Zenon
=============================================================================
