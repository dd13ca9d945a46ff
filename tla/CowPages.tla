------------------------------ MODULE CowPages ------------------------------
(***************************************************************************)
(* Proofs about Cow: steps that give pages to address spaces and to the    *)
(* kernel (sbrk, the page-fault handler, walkpml4, freevm) keep the        *)
(* invariant, and new memory is zero.                                      *)
(***************************************************************************)
EXTENDS CowInv

\* A page that kalloc gives takes the place of the page, if any, that p has in r,
\* which has other users.
LEMMA PageAdded ==
  ASSUME Counting, TypeOK, SoundInv, NEW p \in Procs, NEW r \in Regions, NEW f \in avail,
         st[p] # "embryo", vpi[p][r].ppn # Null => ref[vpi[p][r].ppn] > 1,
         avail' = avail \ {f}, vpi' = [vpi EXCEPT ![p][r] = Own(f)],
         \A h \in Frames :
           ref'[h] = IF h = f THEN 1 ELSE IF h = vpi[p][r].ppn THEN ref[h] - 1 ELSE ref[h],
         inuse' = inuse + 1, UNCHANGED <<kernel, list, dropped>>,
         \A d \in Procs, s \in Regions : Pending(d, s)' <=> Pending(d, s)
  PROVE  (FrameInv /\ CountInv /\ OwnInv /\ LeakInv)'
<1>0. PICK old : old = vpi[p][r].ppn
  OBVIOUS
<1>1. f \in Frames /\ f # Null /\ Own(f).ppn = f /\ Own(f).w = TRUE /\ old \in Ppns /\ f # old
  BY <1>0, FramesAssumption, InfoFacts DEF TypeOK, Ppns, SoundInv, FrameInv
<1>2. \A q \in Procs, s \in Regions : vpi'[q][s] = IF q = p /\ s = r THEN Own(f) ELSE vpi[q][s]
  BY DEF TypeOK
<1>3. \A q \in Procs, s \in Regions : vpi'[q][s].ppn = IF q = p /\ s = r THEN f ELSE vpi[q][s].ppn
  BY <1>1, <1>2
<1>4. /\ \A q \in Procs, s \in Regions : list[q][s] # f /\ vpi[q][s].ppn # f
      /\ f \notin kernel /\ ref[f] = 0
  BY DEF SoundInv, FrameInv
<1>5. \A h \in Frames : ref'[h] = IF h = f THEN 1 ELSE IF h = old THEN ref[h] - 1 ELSE ref[h]
  BY <1>0
<1>6. ~Pending(p, r)
  BY DEF Pending, SoundInv, ForkInv, Forking
<1>7. old \notin avail /\ old \notin kernel
  BY <1>0, Zenon DEF SoundInv, FrameInv
<1>8. FrameInv'
  <2>1. \A g \in avail' : g \notin kernel' /\ ref'[g] = 0
    BY <1>5, <1>7 DEF SoundInv, FrameInv, TypeOK
  <2>2. \A g \in kernel' : ref'[g] = 1
    BY <1>4, <1>5, <1>7 DEF SoundInv, FrameInv, TypeOK
  <2>3. ASSUME NEW q \in Procs, NEW s \in Regions
        PROVE  list'[q][s] \notin avail' \cup kernel' /\ vpi'[q][s].ppn \notin avail' \cup kernel'
    BY <1>3, <1>4 DEF SoundInv, FrameInv
  <2>4. ASSUME NEW q \in Procs, NEW s \in Regions, list'[q][s] # Null
        PROVE  ref'[list'[q][s]] = 1
    BY <1>0, <1>4, <1>5, <2>4 DEF SoundInv, FrameInv, TypeOK, Ppns
  <2>5. ASSUME NEW q \in Procs, NEW s \in Regions, list'[q][s] # Null,
               NEW d \in Procs, NEW t \in Regions
        PROVE  vpi'[d][t].ppn # list'[q][s] /\ (list'[d][t] = list'[q][s] => d = q /\ t = s)
    BY <1>3, <1>4, <2>5 DEF SoundInv, FrameInv
  <2>6. ASSUME NEW q \in Procs, NEW s \in Regions, vpi'[q][s].ppn # Null,
               NEW d \in Procs, NEW t \in Regions, vpi'[d][t].ppn = vpi'[q][s].ppn
        PROVE  t = s
    BY <1>3, <1>4, <2>6 DEF SoundInv, FrameInv
  <2> QED
    BY <2>1, <2>2, <2>3, <2>4, <2>5, <2>6 DEF FrameInv
<1>9. ASSUME NEW h \in Frames, h # f, h # old
      PROVE  Counted(h)' = Counted(h) /\ (Mapped(h)' <=> Mapped(h))
  <2>1. \A q \in Procs, s \in Regions : vpi'[q][s].ppn = h <=> vpi[q][s].ppn = h
    BY <1>0, <1>3, <1>9
  <2> QED
    BY <2>1 DEF Counted, Mapped
<1>10. Cardinality(Counted(f)') = 1
  <2>1. Counted(f)' = {<<p, r>>}
    BY <1>3, <1>4, <1>6 DEF Counted
  <2> QED
    BY <2>1, CellSets, {} \in SUBSET (Procs \X Regions), <<p, r>> \in Procs \X Regions, Zenon
<1>11. ASSUME old # Null
       PROVE  /\ Cardinality(Counted(old)) \in Nat /\ <<p, r>> \in Counted(old)
              /\ Cardinality({x \in Procs \X Regions : vpi'[x[1]][x[2]].ppn = old /\ ~Pending(x[1], x[2])'})
                   = Cardinality(Counted(old)) - 1
  <2>1. /\ Counted(old) \in SUBSET (Procs \X Regions) /\ <<p, r>> \in Counted(old)
        /\ <<p, r>> \in Procs \X Regions
    BY <1>0, <1>6 DEF Counted
  <2>2. {x \in Procs \X Regions : vpi'[x[1]][x[2]].ppn = old /\ ~Pending(x[1], x[2])'} = Counted(old) \ {<<p, r>>}
    BY <1>0, <1>1, <1>3 DEF Counted
  <2> QED
    <3>1. /\ Cardinality(Counted(old)) \in Nat
          /\ Cardinality(Counted(old) \ {<<p, r>>}) = Cardinality(Counted(old)) - 1
      BY <2>1, CellSets, Zenon
    <3> QED
      BY <2>1, <2>2, <3>1, Zenon
<1>12. ASSUME old # Null, old \notin dropped
       PROVE  \E q \in Procs, s \in Regions : vpi'[q][s].ppn = old
  <2>1. Mapped(old) /\ old \in Frames
    BY <1>0, <1>1, <1>12 DEF Mapped, Ppns
  <2>2. Cardinality(Counted(old)) > 1
    BY <1>0, <1>12, <2>1 DEF SoundInv, CountInv
  <2>3. PICK x \in Counted(old) : x # <<p, r>>
    <3> SUFFICES ASSUME Counted(old) = {<<p, r>>} PROVE FALSE
      BY <1>11, <1>12
    <3>1. Cardinality({<<p, r>>}) = 1
      BY CellSets, {} \in SUBSET (Procs \X Regions), <<p, r>> \in Procs \X Regions, Zenon
    <3> QED
      BY <2>2, <3>1
  <2>4. PICK q \in Procs, s \in Regions : x = <<q, s>>
    BY DEF Counted
  <2>5. vpi[q][s].ppn = old /\ ~(q = p /\ s = r)
    BY <2>3, <2>4 DEF Counted
  <2> QED
    BY <1>3, <2>5
<1>13. CountInv'
  <2>1. ASSUME NEW h \in Frames
        PROVE  /\ Cardinality(Counted(h)') <= ref'[h]
               /\ h \notin dropped /\ Mapped(h)' => Cardinality(Counted(h)') = ref'[h]
    <3>1. CASE h = f
      BY <1>5, <1>10, <3>1
    <3>2. CASE h = old
      <4>1. h # Null /\ h # f /\ ref[h] \in Nat /\ Mapped(h)
        BY <1>0, <1>1, <3>2, FramesAssumption, Zenon DEF TypeOK, Mapped
      <4>2. Cardinality(Counted(h)') = Cardinality(Counted(h)) - 1 /\ Cardinality(Counted(h)) \in Nat
        BY <1>11, <3>2, <4>1 DEF Counted
      <4> QED
        BY <1>5, <3>2, <4>1, <4>2 DEF SoundInv, CountInv
    <3>3. CASE h # f /\ h # old
      BY <1>5, <1>9, <3>3 DEF SoundInv, CountInv
    <3> QED
      BY <3>1, <3>2, <3>3
  <2> QED
    BY <2>1 DEF CountInv
<1>14. OwnInv'
  <2>1. ASSUME NEW q \in Procs, NEW s \in Regions, vpi'[q][s].w
        PROVE  /\ vpi'[q][s].ppn # Null
               /\ \A d \in Procs, t \in Regions : vpi'[d][t].ppn = vpi'[q][s].ppn => d = q /\ t = s
    BY <1>1, <1>2, <1>3, <1>4, <2>1 DEF SoundInv, OwnInv
  <2> QED
    BY <2>1 DEF OwnInv
<1>15. LeakInv'
  <2>1. Mapped(f)'
    BY <1>3 DEF Mapped
  <2>2. old # Null /\ old \notin dropped => Mapped(old)'
    BY <1>12 DEF Mapped
  <2>3. \A g : Listed(g)' <=> Listed(g)
    BY DEF Listed
  <2>4. \A g \in Frames \ avail' : g \in kernel' \cup dropped' \/ Mapped(g)' \/ Listed(g)'
    BY <1>9, <2>1, <2>2, <2>3, FramesAssumption DEF SoundInv, LeakInv
  <2>5. inuse' = Cardinality(Frames \ avail')
    <3>1. Frames \ avail' = (Frames \ avail) \cup {f} /\ f \notin Frames \ avail
      BY <1>1
    <3>2. Cardinality(Frames \ avail') = Cardinality(Frames \ avail) + 1
      BY <3>1, OneMorePage, Frames \ avail \in SUBSET Frames, Zenon
    <3> QED
      BY <3>2 DEF SoundInv, LeakInv
  <2> QED
    BY <2>4, <2>5 DEF LeakInv
<1> QED
  BY <1>8, <1>13, <1>14, <1>15

\* sbrk gives the heap a list.
LEMMA SbrkListStep ==
  ASSUME Counting, TypeOK, SoundInv, NEW p \in Procs, SbrkList(p)
  PROVE  SoundInv'
<1> USE DEF core
<1>1. /\ pc[p] = "user" /\ st[p] = "active" /\ vpi[p][Heap].ppn = Null /\ pc' = [pc EXCEPT ![p] = "sbrk"]
      /\ UNCHANGED <<kernel, vpi, pte, tlb, cur, st, child, reg, dropped>>
  BY DEF SbrkList, InUser, Running
<1>2. \A q \in Procs : pc'[q] = IF q = p THEN "sbrk" ELSE pc[q]
  BY <1>1 DEF TypeOK
<1>3. \A q \in Procs : q # p => list'[q] = list[q]
  BY DEF SbrkList, TypeOK
<1>4. ForkInv' /\ CopyInv' /\ \A d \in Procs, s \in Regions : Pending(d, s)' <=> Pending(d, s)
  BY <1>1, <1>2, <1>3, OthersFork DEF Forking
<1>5. TableInv' /\ OwnInv'
  BY <1>1, <1>2 DEF SoundInv, TableInv, OwnInv, Rebuilt, Forking
<1>6. CASE list[p][Heap] # Null
  <2>1. UNCHANGED Pages
    BY <1>1, <1>6 DEF SbrkList, Pages
  <2>2. SpaceInv'
    BY <1>1, <1>2, <1>6, <2>1 DEF SoundInv, SpaceInv, Pages
  <2> QED
    BY <1>4, <1>5, <2>1, <2>2, PagesKept DEF SoundInv
<1>7. ASSUME NEW f \in Frames, Kalloc(f), list' = [list EXCEPT ![p][Heap] = f], list[p][Heap] = Null
      PROVE  SoundInv'
  <2>1. \A q \in Procs, s \in Regions : list'[q][s] = IF q = p /\ s = Heap THEN f ELSE list[q][s]
    BY <1>7, RegionFacts DEF TypeOK
  <2>2. SpaceInv'
    BY <1>1, <1>2, <2>1, FramesAssumption DEF SoundInv, SpaceInv
  <2>3. \A g \in Frames : (Mapped(g)' <=> Mapped(g)) /\ Counted(g)' = Counted(g)
    BY <1>1, <1>4 DEF Mapped, Counted
  <2>4. \A q \in Procs, s \in Regions :
          vpi'[q][s].ppn # Null => \E t \in Procs : vpi[t][s].ppn = vpi'[q][s].ppn
    BY <1>1
  <2>5. Heap \in Regions
    BY RegionFacts
  <2>6. (FrameInv /\ CountInv /\ LeakInv)'
    BY <1>1, <1>7, <2>3, <2>4, <2>5, ListAdded, Zenon
  <2> QED
    BY <1>4, <1>5, <2>2, <2>6 DEF SoundInv
<1> QED
  BY <1>6, <1>7 DEF SbrkList

\* sbrk maps a page; that the old translation of it stays cached does no harm,
\* as there was none.
LEMMA SbrkPageStep ==
  ASSUME Counting, TypeOK, SoundInv, NEW p \in Procs, SbrkPage(p)
  PROVE  SoundInv'
<1> USE DEF core
<1>1. /\ pc[p] = "sbrk" /\ cur = p /\ st[p] = "active" /\ pc' = [pc EXCEPT ![p] = "user"]
      /\ UNCHANGED <<kernel, list, tlb, cur, st, child, reg, dropped>>
  BY DEF SbrkPage, Running
<1>2. \A q \in Procs : pc'[q] = IF q = p THEN "user" ELSE pc[q]
  BY <1>1 DEF TypeOK
<1>3. \A q \in Procs : q # p => vpi'[q] = vpi[q]
  BY DEF SbrkPage, TypeOK
<1>4. ForkInv' /\ CopyInv' /\ \A d \in Procs, s \in Regions : Pending(d, s)' <=> Pending(d, s)
  BY <1>1, <1>2, <1>3, OthersFork DEF Forking
<1>5. Heap \in Regions /\ list[p][Heap] # Null /\ vpi[p][Heap].ppn = Null
  BY <1>1, RegionFacts DEF SoundInv, SpaceInv
<1>6. CASE UNCHANGED <<core, vpi, pte>>
  <2>1. UNCHANGED Pages
    BY <1>1, <1>6 DEF Pages
  <2>2. SpaceInv' /\ TableInv'
    BY <1>1, <1>2, <1>6 DEF SoundInv, SpaceInv, TableInv, Rebuilt, Forking
  <2> QED
    BY <1>4, <2>1, <2>2, PagesKept DEF SoundInv
<1>7. ASSUME NEW f \in Frames, Kalloc(f), vpi' = [vpi EXCEPT ![p][Heap] = Own(f)],
             pte' = [pte EXCEPT ![p] = Rebuilt(vpi'[p])]
      PROVE  SoundInv'
  <2>1. \A q \in Procs, s \in Regions : vpi'[q][s] = IF q = p /\ s = Heap THEN Own(f) ELSE vpi[q][s]
    BY <1>5, <1>7 DEF TypeOK
  <2>2. SpaceInv'
    BY <1>1, <1>2, <1>5, <2>1 DEF SoundInv, SpaceInv
  <2>3. TableInv'
    <3>1. pc[p] \notin Forking
      BY <1>1 DEF Forking
    <3>2. \A q \in Procs : q # p => pc'[q] = pc[q] /\ vpi'[q] = vpi[q]
      BY <1>2, <1>3
    <3>3. \A s \in Regions : s # Heap => vpi'[p][s] = vpi[p][s]
      BY <2>1
    <3>4. cur = p /\ st[p] = "active" /\ cur' = cur /\ st' = st /\ tlb' = tlb
      BY <1>1
    <3> QED
      BY <1>5, <1>7, <3>1, <3>2, <3>3, <3>4, Invalidated, Zenon
  <2>4. \A h \in Frames :
          ref'[h] = IF h = f THEN 1 ELSE IF h = vpi[p][Heap].ppn THEN ref[h] - 1 ELSE ref[h]
    BY <1>5, <1>7, FramesAssumption DEF Kalloc, TypeOK
  <2>5. (FrameInv /\ CountInv /\ OwnInv /\ LeakInv)'
    <3>1. f \in avail /\ avail' = avail \ {f} /\ inuse' = inuse + 1
      BY <1>7 DEF Kalloc
    <3>2. st[p] # "embryo" /\ UNCHANGED <<kernel, list, dropped>>
      BY <1>1
    <3> QED
      BY <1>4, <1>5, <1>7, <2>4, <3>1, <3>2, PageAdded, Zenon
  <2> QED
    BY <1>4, <2>2, <2>3, <2>5 DEF SoundInv
<1> QED
  BY <1>6, <1>7 DEF SbrkPage

\* The fault handler copies a page with other users, and lets the only user of a
\* page write to it.
LEMMA FaultStep ==
  ASSUME Counting, TypeOK, SoundInv, NEW p \in Procs, NEW r \in Regions, Fault(p, r)
  PROVE  SoundInv'
<1> USE DEF core
<1>0. PICK g \in Frames : g = vpi[p][r].ppn
  <2>1. vpi[p][r].ppn # Null
    BY Zenon DEF Fault
  <2> QED
    BY <2>1, PpnTypes, Zenon
<1>1. /\ pc[p] = "user" /\ cur = p /\ st[p] = "active" /\ tlb' = NoPtes
      /\ UNCHANGED <<kernel, list, forks, dropped>>
  BY DEF Fault, InUser, Running
<1>2. CASE st' = [st EXCEPT ![p] = "zombie"] /\ cur' = Null /\ UNCHANGED <<core, vpi, pte>>
  <2>1. UNCHANGED Pages /\ UNCHANGED <<pte, forks>> /\ InUser(p)
    BY <1>1, <1>2 DEF Pages, InUser, Running
  <2> QED
    BY <1>1, <1>2, <2>1, ExitStep, Zenon
<1>3. ASSUME NEW f \in Ppns, vpi' = [vpi EXCEPT ![p][r] = Own(f)], f # Null, UNCHANGED <<st, cur>>,
             pte' = [pte EXCEPT ![p] = Rebuilt(vpi'[p])]
      PROVE  ForkInv' /\ CopyInv' /\ SpaceInv' /\ TableInv'
             /\ \A d \in Procs, s \in Regions : Pending(d, s)' <=> Pending(d, s)
  <2>1. \A q \in Procs, s \in Regions : vpi'[q][s] = IF q = p /\ s = r THEN Own(f) ELSE vpi[q][s]
    BY <1>3 DEF TypeOK
  <2>2. \A q \in Procs : q # p => vpi'[q] = vpi[q]
    BY <1>3 DEF TypeOK
  <2>3. pc[p] \notin Forking /\ pc' = pc /\ UNCHANGED <<child, reg>>
    BY <1>1 DEF Forking, forks
  <2>4. ForkInv' /\ CopyInv' /\ \A d \in Procs, s \in Regions : Pending(d, s)' <=> Pending(d, s)
    BY <1>1, <1>3, <2>2, <2>3, OthersFork
  <2>5. TableInv'
    <3>1. \A q \in Procs : q # p => pc'[q] = pc[q] /\ vpi'[q] = vpi[q]
      BY <2>2, <2>3
    <3>2. \A s \in Regions : s # r => vpi'[p][s] = vpi[p][s]
      BY <2>1
    <3>3. cur = p /\ st[p] = "active" /\ cur' = cur /\ st' = st /\ tlb' = NoPtes /\ pc[p] \notin Forking
      BY <1>1, <1>3, <2>3
    <3> QED
      BY <1>3, <3>1, <3>2, <3>3, Invalidated, Zenon
  <2>6. SpaceInv'
    <3>1. list[p][r] # Null /\ pc[p] # "sbrk"
      BY <1>0, <1>1, FramesAssumption DEF SoundInv, SpaceInv
    <3> QED
      BY <1>1, <1>3, <2>1, <2>3, <3>1 DEF SoundInv, SpaceInv
  <2> QED
    BY <2>4, <2>5, <2>6
<1>4. CASE ReusePage(p, r) /\ UNCHANGED <<st, cur>> /\ ref[g] = 1
           /\ pte' = [pte EXCEPT ![p] = Rebuilt(vpi'[p])]
  <2>1. vpi' = [vpi EXCEPT ![p][r] = Own(g)] /\ UNCHANGED core
    BY <1>0, <1>4 DEF ReusePage
  <2>2. g \in Ppns /\ g # Null
    BY FramesAssumption DEF Ppns
  <2>3. ForkInv' /\ CopyInv' /\ SpaceInv' /\ TableInv'
        /\ \A d \in Procs, s \in Regions : Pending(d, s)' <=> Pending(d, s)
    BY <1>3, <1>4, <2>1, <2>2, Zenon
  <2>4. \A q \in Procs, s \in Regions : vpi'[q][s] = IF q = p /\ s = r THEN Own(g) ELSE vpi[q][s]
    BY <2>1 DEF TypeOK
  <2>5. \A q \in Procs, s \in Regions : vpi'[q][s].ppn = vpi[q][s].ppn
    BY <1>0, <2>2, <2>4, InfoFacts
  <2>6. FrameInv'
    BY <1>1, <2>1, <2>5 DEF SoundInv, FrameInv
  <2>7. \A h : Counted(h)' = Counted(h) /\ (Mapped(h)' <=> Mapped(h)) /\ (Listed(h)' <=> Listed(h))
    BY <1>1, <2>3, <2>5 DEF Counted, Mapped, Listed
  <2>8. CountInv' /\ LeakInv'
    BY <1>1, <2>1, <2>7 DEF SoundInv, CountInv, LeakInv
  <2>9. OwnInv'
    <3>1. ASSUME NEW q \in Procs, NEW s \in Regions, vpi[q][s].ppn = g PROVE q = p /\ s = r
      BY <1>0, <1>1, <1>4, <3>1, SoleUser
    <3>2. ASSUME NEW q \in Procs, NEW s \in Regions, vpi'[q][s].w
          PROVE  /\ vpi'[q][s].ppn # Null
                 /\ \A d \in Procs, t \in Regions : vpi'[d][t].ppn = vpi'[q][s].ppn => d = q /\ t = s
      BY <1>0, <2>2, <2>4, <2>5, <3>1, <3>2 DEF SoundInv, OwnInv
    <3> QED
      BY <3>2 DEF OwnInv
  <2> QED
    BY <2>3, <2>6, <2>8, <2>9 DEF SoundInv
<1>5. CASE CopyPage(p, r) /\ UNCHANGED <<st, cur>> /\ ref[g] > 1
           /\ pte' = [pte EXCEPT ![p] = Rebuilt(vpi'[p])]
  <2>1. PICK f \in Frames :
          /\ f \in avail
          /\ avail' = avail \ {f}
          /\ ref' = [ref EXCEPT ![f] = 1, ![g] = @ - 1]
          /\ inuse' = inuse + 1
          /\ vpi' = [vpi EXCEPT ![p][r] = Own(f)]
    BY <1>0, <1>5, Zenon DEF CopyPage
  <2>2. f \in Ppns /\ f # Null /\ f # g
    BY <1>0, <2>1, FramesAssumption DEF Ppns, SoundInv, FrameInv
  <2>3. ForkInv' /\ CopyInv' /\ SpaceInv' /\ TableInv'
        /\ \A d \in Procs, s \in Regions : Pending(d, s)' <=> Pending(d, s)
    BY <1>3, <1>5, <2>1, <2>2, Zenon
  <2>4. \A h \in Frames :
          ref'[h] = IF h = f THEN 1 ELSE IF h = vpi[p][r].ppn THEN ref[h] - 1 ELSE ref[h]
    BY <1>0, <2>1, <2>2, Zenon DEF TypeOK
  <2>5. st[p] # "embryo" /\ UNCHANGED <<kernel, list, dropped>> /\ ref[vpi[p][r].ppn] > 1
    BY <1>0, <1>1, <1>5
  <2>6. (FrameInv /\ CountInv /\ OwnInv /\ LeakInv)'
    BY <2>1, <2>3, <2>4, <2>5, PageAdded, Zenon
  <2> QED
    BY <2>3, <2>6 DEF SoundInv
<1>6. ref[g] \in Nat
  BY DEF TypeOK
<1> QED
  BY <1>0, <1>2, <1>4, <1>5, <1>6 DEF Fault

\* kalloc for the kernel itself.
LEMMA KernelTakeStep ==
  ASSUME Counting, TypeOK, SoundInv, NEW f \in Frames, KernelTake(f)
  PROVE  SoundInv'
<1> USE DEF core, spaces, forks
<1>1. Kalloc(f) /\ kernel' = kernel \cup {f} /\ UNCHANGED <<mem, spaces, tlb, cur, st, forks, damaged, dropped>>
  BY DEF KernelTake
<1>2. /\ avail' = avail \ {f} /\ f \in avail
      /\ \A g \in Frames : ref'[g] = IF g = f THEN 1 ELSE ref[g]
      /\ inuse' = Cardinality(Frames \ avail')
  BY <1>1, KallocCounts DEF SoundInv
<1>3. ForkInv' /\ CopyInv' /\ SpaceInv' /\ OwnInv' /\ TableInv'
  <2>1. ForkInv' /\ CopyInv'
    BY <1>1 DEF SoundInv, ForkInv, CopyInv, Given
  <2>2. SpaceInv' /\ OwnInv'
    BY <1>1 DEF SoundInv, SpaceInv, OwnInv
  <2>3. TableInv'
    BY <1>1 DEF SoundInv, TableInv, Rebuilt
  <2> QED
    BY <2>1, <2>2, <2>3, Zenon
<1>4. \A q \in Procs, s \in Regions : list[q][s] # f /\ vpi[q][s].ppn # f
  BY <1>2 DEF SoundInv, FrameInv
<1>5. FrameInv'
  <2>1. \A g \in avail' : g \notin kernel' /\ ref'[g] = 0
    BY <1>1, <1>2, Zenon DEF SoundInv, FrameInv, TypeOK
  <2>2. \A g \in kernel' : ref'[g] = 1
    BY <1>1, <1>2, Zenon DEF SoundInv, FrameInv, TypeOK
  <2>3. \A q \in Procs, s \in Regions : list[q][s] # Null => ref'[list[q][s]] = 1
    BY <1>2, <1>4 DEF SoundInv, FrameInv, TypeOK, Ppns
  <2>4. \A q \in Procs, s \in Regions :
          list[q][s] \notin avail' \cup kernel' /\ vpi[q][s].ppn \notin avail' \cup kernel'
    <3>1. \A q \in Procs, s \in Regions :
            list[q][s] \notin avail \cup kernel /\ vpi[q][s].ppn \notin avail \cup kernel
      BY Zenon DEF SoundInv, FrameInv
    <3>2. avail' \cup kernel' \subseteq avail \cup kernel \cup {f}
      BY <1>1, <1>2
    <3> QED
      BY <1>4, <3>1, <3>2, Zenon
  <2>5. list' = list /\ vpi' = vpi
    BY <1>1
  <2> QED
    BY <2>1, <2>2, <2>3, <2>4, <2>5 DEF SoundInv, FrameInv
<1>6. \A h : Counted(h)' = Counted(h) /\ (Mapped(h)' <=> Mapped(h)) /\ (Listed(h)' <=> Listed(h))
  BY <1>1 DEF Counted, Mapped, Listed, Pending
<1>7. CountInv'
  <2>1. ~Mapped(f) /\ Counted(f) = {}
    BY <1>4 DEF Mapped, Counted
  <2>2. Cardinality(Counted(f)) = 0
    BY <2>1, NoCells
  <2>3. dropped' = dropped
    BY <1>1
  <2>4. ref'[f] >= 0 /\ \A h \in Frames : h # f => ref'[h] = ref[h]
    BY <1>2
  <2> QED
    BY <1>6, <2>1, <2>2, <2>3, <2>4 DEF SoundInv, CountInv
<1>8. LeakInv'
  BY <1>1, <1>2, <1>6 DEF SoundInv, LeakInv
<1> QED
  BY <1>3, <1>5, <1>7, <1>8 DEF SoundInv

\* kfree of a page of the kernel's own.
LEMMA KernelGiveStep ==
  ASSUME Counting, TypeOK, SoundInv, NEW f \in Frames, KernelGive(f)
  PROVE  SoundInv'
<1> USE DEF spaces, forks
<1>1. f \in kernel /\ Kfree({f}) /\ kernel' = kernel \ {f} /\ UNCHANGED <<spaces, tlb, cur, st, forks, damaged, dropped>>
  BY DEF KernelGive
<1>2. /\ \A g \in Frames : ref'[g] = IF g = f THEN 0 ELSE ref[g]
      /\ avail' = avail \cup {f}
      /\ inuse' = Cardinality(Frames \ avail')
  <2>1. {f} \in SUBSET (Frames \ avail) /\ ref[f] = 1 /\ \A g \in {f} : ref[g] > 0
    BY <1>1 DEF SoundInv, FrameInv
  <2>2. /\ \A g \in Frames : ref'[g] = IF g \in {f} THEN ref[g] - 1 ELSE ref[g]
        /\ avail' = avail \cup {g \in {f} : ref[g] = 1}
        /\ inuse' = Cardinality(Frames \ avail')
    BY <1>1, <2>1, KfreeCounts, Zenon DEF SoundInv
  <2> QED
    BY <2>1, <2>2
<1>3. ForkInv' /\ CopyInv' /\ SpaceInv' /\ OwnInv' /\ TableInv'
  <2>1. ForkInv' /\ CopyInv'
    BY <1>1 DEF SoundInv, ForkInv, CopyInv, Given
  <2>2. SpaceInv' /\ OwnInv'
    BY <1>1 DEF SoundInv, SpaceInv, OwnInv
  <2>3. TableInv'
    BY <1>1 DEF SoundInv, TableInv, Rebuilt
  <2> QED
    BY <2>1, <2>2, <2>3, Zenon
<1>4. \A q \in Procs, s \in Regions : list[q][s] # f /\ vpi[q][s].ppn # f
  <2>1. f \in avail \cup kernel
    BY <1>1, Zenon
  <2> QED
    BY <2>1, SpacesApart, Zenon
<1>5. FrameInv'
  <2>1. \A g \in avail' : g \notin kernel' /\ ref'[g] = 0
    BY <1>1, <1>2 DEF SoundInv, FrameInv, TypeOK
  <2>2. \A g \in kernel' : ref'[g] = 1
    BY <1>1, <1>2, Zenon DEF SoundInv, FrameInv, TypeOK
  <2>3. \A q \in Procs, s \in Regions : list[q][s] # Null => ref'[list[q][s]] = 1
    <3>1. \A q \in Procs, s \in Regions : list[q][s] \in Frames \cup {Null}
      BY PpnTypes, Zenon
    <3>2. \A q \in Procs, s \in Regions : list[q][s] # Null => ref[list[q][s]] = 1
      BY Zenon DEF SoundInv, FrameInv
    <3> QED
      BY <1>2, <1>4, <3>1, <3>2
  <2>4. \A q \in Procs, s \in Regions :
          list[q][s] \notin avail' \cup kernel' /\ vpi[q][s].ppn \notin avail' \cup kernel'
    <3>1. \A q \in Procs, s \in Regions :
            list[q][s] \notin avail \cup kernel /\ vpi[q][s].ppn \notin avail \cup kernel
      BY SpacesApart, Zenon
    <3>2. avail' \cup kernel' \subseteq avail \cup kernel \cup {f}
      BY <1>1, <1>2, Zenon
    <3> QED
      BY <1>4, <3>1, <3>2
  <2>5. list' = list /\ vpi' = vpi
    BY <1>1, Zenon
  <2> QED
    BY <2>1, <2>2, <2>3, <2>4, <2>5 DEF SoundInv, FrameInv
<1>6. \A h : Counted(h)' = Counted(h) /\ (Mapped(h)' <=> Mapped(h)) /\ (Listed(h)' <=> Listed(h))
  BY <1>1, Zenon DEF Counted, Mapped, Listed, Pending
<1>7. CountInv'
  <2>1. ~Mapped(f) /\ Counted(f) = {}
    BY <1>4 DEF Mapped, Counted
  <2>2. Cardinality(Counted(f)) = 0
    BY <2>1, NoCells
  <2>3. dropped' = dropped
    BY <1>1
  <2>4. ref'[f] >= 0 /\ \A h \in Frames : h # f => ref'[h] = ref[h]
    BY <1>2
  <2> QED
    BY <1>6, <2>1, <2>2, <2>3, <2>4 DEF SoundInv, CountInv
<1>8. LeakInv'
  BY <1>1, <1>2, <1>6, Zenon DEF SoundInv, LeakInv
<1> QED
  BY <1>3, <1>5, <1>7, <1>8 DEF SoundInv

-----------------------------------------------------------------------------
(* the refinement of private memories *)

\* sbrk gives a page of zeroes, or nothing.
LEMMA GrowRefines ==
  ASSUME TypeOK, SoundInv, NEW p \in Procs, SbrkPage(p)
  PROVE  Private!Grow(p, Heap) \/ UNCHANGED <<core, vpi>>
<1> SUFFICES ASSUME ~UNCHANGED <<core, vpi>> PROVE Private!Grow(p, Heap)
  OBVIOUS
<1>1. PICK f \in Frames : Kalloc(f) /\ mem' = [mem EXCEPT ![f] = 0] /\ vpi' = [vpi EXCEPT ![p][Heap] = Own(f)]
  BY DEF SbrkPage
<1>2. pc[p] = "sbrk" /\ st[p] = "active" /\ UNCHANGED <<cur, st>> /\ Heap \in Regions
  BY RegionFacts DEF SbrkPage, Running
<1>3. vpi[p][Heap].ppn = Null
  BY <1>2 DEF SoundInv, SpaceInv
<1>4. f # Null /\ Own(f).ppn = f
  BY InfoFacts, FramesAssumption DEF Ppns
<1>5. \A q \in Procs, s \in Regions : vpi[q][s].ppn # f
  BY <1>1 DEF SoundInv, FrameInv, Kalloc
<1>6. \A q \in Procs, s \in Regions : vpi'[q][s].ppn = IF q = p /\ s = Heap THEN f ELSE vpi[q][s].ppn
  BY <1>1, <1>2, <1>4 DEF TypeOK
<1>7. \A h \in Frames : mem'[h] = IF h = f THEN 0 ELSE mem[h]
  BY <1>1 DEF TypeOK
<1>8. ASSUME NEW q \in Procs, NEW s \in Regions
      PROVE  View(q, s)' = IF q = p /\ s = Heap THEN 0 ELSE View(q, s)
  <2>1. vpi[q][s].ppn \in Frames \cup {Null}
    BY PpnTypes, Zenon
  <2> QED
    BY <1>2, <1>4, <1>5, <1>6, <1>7, <2>1, Zenon DEF View
<1>9. aspace' = [aspace EXCEPT ![p][Heap] = 0]
  BY <1>2, <1>8, OneChange
<1>10. aspace[p][Heap] = Null
  BY <1>2, <1>3 DEF aspace
<1> QED
  BY <1>2, <1>9, <1>10 DEF Private!Grow
=============================================================================
