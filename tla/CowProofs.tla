------------------------------ MODULE CowProofs ------------------------------
(***************************************************************************)
(* The theorems about Cow: every step keeps the invariant and is a step of *)
(* PrivateMemory or of nobody.  Hence counts cover the users of a page, no *)
(* page is lost but by exec, what can be written to is private, and        *)
(* copy-on-write implements private memories.                              *)
(***************************************************************************)
EXTENDS CowFork, CowPages, CowReap

\* userinit's state satisfies the invariant.
LEMMA InitInv == ASSUME Counting PROVE Init => IInv
<1> SUFFICES ASSUME Init PROVE IInv
  OBVIOUS
<1>1. PICK l, f \in Frames, v \in Values :
    /\ l # f
    /\ avail = Frames \ {l, f}
    /\ ref = [g \in Frames |-> IF g \in {l, f} THEN 1 ELSE 0]
    /\ inuse = 2
    /\ mem = [g \in Frames |-> CASE g = f -> v [] g = l -> 0 [] OTHER -> Junk]
    /\ kernel = {}
    /\ list = [p \in Procs |-> [r \in Regions |-> IF p = First /\ r = 1 THEN l ELSE Null]]
    /\ vpi = [p \in Procs |-> [r \in Regions |-> IF p = First /\ r = 1 THEN Own(f) ELSE NoPage]]
    /\ pte = [p \in Procs |-> Rebuilt(vpi[p])]
    /\ tlb = NoPtes
    /\ cur = Null
    /\ st = [p \in Procs |-> IF p = First THEN "active" ELSE "unused"]
    /\ pc = [p \in Procs |-> "user"]
    /\ child = [p \in Procs |-> Null]
    /\ reg = [p \in Procs |-> 1]
    /\ damaged = FALSE /\ dropped = {}
  BY Zenon DEF Init
<1>2. /\ f \in Ppns /\ l \in Ppns /\ Null \in Ppns /\ f # Null /\ l # Null
      /\ 1 \in Regions /\ First \in Procs
  BY FramesAssumption, RegionFacts, ProcsAssumption DEF Ppns
<1>3. Own(f) \in Infos /\ NoPage \in Infos /\ Own(f).ppn = f /\ NoPage.ppn = Null /\ NoPage.w = FALSE
  BY <1>2, InfoFacts
<1>4. \A p \in Procs, r \in Regions :
        /\ list[p][r] = IF p = First /\ r = 1 THEN l ELSE Null
        /\ vpi[p][r] = IF p = First /\ r = 1 THEN Own(f) ELSE NoPage
  BY <1>1
<1>5. \A p \in Procs, r \in Regions : vpi[p][r].ppn = IF p = First /\ r = 1 THEN f ELSE Null
  BY <1>3, <1>4
<1>6. TypeOK
  <2>1. vpi \in [Procs -> [Regions -> Infos]]
    BY <1>1, <1>3
  <2>2. pte \in [Procs -> [Regions -> Ptes]]
    BY <1>1, <2>1, RebuiltFacts, Zenon
  <2>3. mem \in [Frames -> Contents]
    BY <1>1, ValuesAssumption DEF Contents
  <2>4. list \in [Procs -> [Regions -> Ppns]] /\ tlb \in [Regions -> Ptes]
    BY <1>1, <1>2, InfoFacts
  <2>5. avail \in SUBSET Frames /\ ref \in [Frames -> Nat] /\ inuse \in Int /\ kernel \in SUBSET Frames
    BY <1>1
  <2>6. /\ st \in [Procs -> {"unused", "embryo", "active", "zombie"}]
        /\ pc \in [Procs -> {"user", "copy", "count", "finish", "sbrk"}]
        /\ child \in [Procs -> Procs \cup {Null}] /\ reg \in [Procs -> Regions]
        /\ cur \in Procs \cup {Null} /\ damaged \in BOOLEAN /\ dropped \in SUBSET Frames
    BY <1>1, <1>2, Zenon
  <2> QED
    BY <2>1, <2>2, <2>3, <2>4, <2>5, <2>6, Zenon DEF TypeOK
<1>7. ForkInv /\ CopyInv
  BY <1>1 DEF ForkInv, CopyInv, Forking
<1>8. SpaceInv
  BY <1>1, <1>2, <1>4, <1>5 DEF SpaceInv
<1>9. TableInv
  BY <1>1 DEF TableInv
<1>10. FrameInv
  <2>1. \A g \in avail : g \notin kernel /\ ref[g] = 0
    BY <1>1
  <2>2. ref[l] = 1 /\ l \notin avail /\ f \notin avail /\ Null \notin avail /\ kernel = {}
    BY <1>1, FramesAssumption
  <2> QED
    BY <1>1, <1>2, <1>4, <1>5, <2>1, <2>2 DEF FrameInv
<1>11. OwnInv
  BY <1>2, <1>3, <1>4, <1>5 DEF OwnInv
<1>12. CountInv
  <2>1. \A p \in Procs, r \in Regions : ~Pending(p, r)
    BY <1>1 DEF Pending
  <2>2. Counted(f) = {<<First, 1>>}
    BY <1>2, <1>5, <2>1 DEF Counted
  <2>3. Cardinality(Counted(f)) = 1
    BY <1>2, <2>2, SingleCell, <<First, 1>> \in Procs \X Regions, Zenon
  <2>4. ASSUME NEW h \in Frames, h # f PROVE ~Mapped(h) /\ Cardinality(Counted(h)) = 0
    <3>1. Counted(h) = {} /\ ~Mapped(h)
      BY <1>5, <2>4, FramesAssumption DEF Counted, Mapped
    <3> QED
      BY <3>1, NoCells, Zenon
  <2>5. \A h \in Frames : ref[h] = IF h \in {l, f} THEN 1 ELSE 0
    BY <1>1
  <2> QED
    BY <2>3, <2>4, <2>5 DEF CountInv
<1>13. LeakInv
  <2>1. Mapped(f) /\ Listed(l)
    BY <1>2, <1>4, <1>5 DEF Mapped, Listed
  <2>2. Frames \ avail = {l} \cup {f}
    BY <1>1
  <2>3. {l} \in SUBSET Frames /\ f \notin {l}
    BY <1>1
  <2>4. Cardinality({l}) = 1
    BY <2>3, Zenon DEF Counting, PageCounting
  <2>5. Cardinality({l} \cup {f}) = Cardinality({l}) + 1
    BY <2>3, OneMorePage, Zenon
  <2> QED
    <3>1. \A g \in Frames \ avail : Mapped(g) \/ Listed(g)
      BY <2>1, <2>2
    <3>2. inuse = Cardinality(Frames \ avail)
      <4>1. inuse = 2
        BY <1>1
      <4>2. Cardinality(Frames \ avail) = 1 + 1
        BY <2>2, <2>4, <2>5, Zenon
      <4> QED
        BY <4>1, <4>2
    <3> QED
      BY <3>1, <3>2 DEF LeakInv
<1> QED
  BY <1>1, <1>6, <1>7, <1>8, <1>9, <1>10, <1>11, <1>12, <1>13 DEF IInv, SoundInv

\* Once the kernel has gone on without a page it needed, that stays so.
LEMMA DamageStays ==
  ASSUME [Next]_vars, damaged
  PROVE  damaged'
<1>1. CASE UNCHANGED vars
  BY <1>1 DEF vars
<1>2. ASSUME NEW p \in Procs, Step(p) PROVE damaged'
  <2>1. ASSUME NEW r \in Regions, Read(p, r) \/ Fault(p, r) \/ \E v \in Values : Write(p, r, v) PROVE damaged'
    BY <2>1, Zenon DEF Read, Fault, Write
  <2>2. ASSUME NEW c \in Procs, ForkBegin(p, c) \/ Reap(p, c) PROVE damaged'
    BY <2>2 DEF ForkBegin, Reap
  <2>3. CASE ForkCopy(p) \/ ForkCount(p) \/ ForkFinish(p) \/ ForkStarved(p)
    BY <2>3 DEF ForkCopy, ForkCount, ForkFinish, ForkStarved
  <2>4. CASE SbrkList(p) \/ SbrkPage(p) \/ SbrkStarved(p)
    BY <2>4 DEF SbrkList, SbrkPage, SbrkStarved
  <2>5. CASE Exec(p) \/ Exit(p) \/ Switch(p)
    BY <2>5 DEF Exec, Exit, Switch
  <2> QED
    BY <1>2, <2>1, <2>2, <2>3, <2>4, <2>5 DEF Step
<1>3. ASSUME NEW f \in Frames, KernelTake(f) \/ KernelGive(f) PROVE damaged'
  BY <1>3, Zenon DEF KernelTake, KernelGive
<1> QED
  BY <1>1, <1>2, <1>3 DEF Next

\* Every step keeps it.
LEMMA NextInv == ASSUME Counting PROVE IInv /\ [Next]_vars => IInv'
<1> SUFFICES ASSUME IInv, [Next]_vars PROVE IInv'
  OBVIOUS
<1>1. TypeOK'
  BY TypeStep
<1>2. ASSUME ~damaged' PROVE SoundInv'
  <2>1. TypeOK /\ SoundInv
    BY <1>2, DamageStays DEF IInv
  <2>2. CASE UNCHANGED vars
    <3>1. UNCHANGED Pages /\ UNCHANGED <<pte, tlb, cur, st, pc, child, reg>> /\ UNCHANGED forks
      BY <2>2 DEF vars, core, spaces, forks, Pages
    <3>2. (FrameInv /\ CountInv /\ OwnInv /\ LeakInv)'
      BY <2>1, <3>1, PagesKept, ForksKept, Zenon
    <3>3. ForkInv' /\ SpaceInv' /\ TableInv'
      BY <2>1, <3>1 DEF SoundInv, ForkInv, SpaceInv, TableInv, Rebuilt, Pages
    <3>4. CopyInv'
      BY <2>1, <3>1 DEF SoundInv, CopyInv, Given, Pages
    <3> QED
      BY <3>2, <3>3, <3>4 DEF SoundInv
  <2>3. ASSUME NEW p \in Procs, Step(p) PROVE SoundInv'
    <3>1. CASE ForkStarved(p) \/ SbrkStarved(p)
      BY <1>2, <3>1 DEF ForkStarved, SbrkStarved
    <3>2. CASE Exit(p)
      <4>1. UNCHANGED Pages /\ UNCHANGED <<pte, forks>>
        BY <3>2 DEF Exit, core, spaces, Pages
      <4> QED
        BY <2>1, <3>2, <4>1, ExitStep, Zenon DEF Exit
    <3>3. ASSUME NEW r \in Regions, Fault(p, r) PROVE SoundInv'
      BY <2>1, <3>3, FaultStep
    <3>4. ASSUME NEW c \in Procs, ForkBegin(p, c) \/ Reap(p, c) PROVE SoundInv'
      BY <2>1, <3>4, ForkBeginStep, ReapStep
    <3>5. CASE ForkCopy(p) \/ ForkCount(p) \/ ForkFinish(p)
      BY <2>1, <3>5, ForkCopyStep, ForkCountStep, ForkFinishStep
    <3>6. CASE SbrkList(p) \/ SbrkPage(p) \/ Exec(p)
      BY <2>1, <3>6, SbrkListStep, SbrkPageStep, ExecStep
    <3>7. CASE Switch(p) \/ \E r \in Regions : Read(p, r) \/ \E v \in Values : Write(p, r, v)
      BY <2>1, <3>7, AccessStep
    <3> QED
      BY <2>3, <3>1, <3>2, <3>3, <3>4, <3>5, <3>6, <3>7, Zenon DEF Step
  <2>4. ASSUME NEW f \in Frames, KernelTake(f) \/ KernelGive(f) PROVE SoundInv'
    BY <2>1, <2>4, KernelTakeStep, KernelGiveStep
  <2> QED
    BY <2>2, <2>3, <2>4 DEF Next
<1> QED
  BY <1>1, <1>2 DEF IInv

-----------------------------------------------------------------------------
(* the refinement of private memories *)

\* A step of the running program is one of the abstract one.
LEMMA Acts ==
  ASSUME ~damaged, ~damaged', NEW p \in Procs, cur = p, st[p] = "active", Private!Step(p)
  PROVE  Private!Next
<1>1. p \in {q \in Procs : st[q] = "active"}
  OBVIOUS
<1>2. UNCHANGED (~damaged)
  OBVIOUS
<1> QED
  BY <1>1, <1>2 DEF Private!Next

\* The end of a process takes its memory away.
LEMMA ExitRefines ==
  ASSUME TypeOK, NEW p \in Procs, st' = [st EXCEPT ![p] = "zombie"], cur' = Null, UNCHANGED <<mem, vpi>>
  PROVE  Private!Exit(p)
<1>1. \A q \in Procs : st'[q] = IF q = p THEN "zombie" ELSE st[q]
  BY DEF TypeOK
<1>2. {q \in Procs : st[q] = "active"}' = {q \in Procs : st[q] = "active"} \ {p}
  BY <1>1
<1>3. \A q \in Procs, s \in Regions : View(q, s)' = IF q = p THEN Null ELSE View(q, s)
  BY <1>1 DEF View
<1>4. aspace' = [aspace EXCEPT ![p] = Private!NoMemory]
  BY <1>3, Zenon DEF aspace, View, Private!NoMemory
<1> QED
  BY <1>2, <1>4 DEF Private!Exit

\* A fault copies the page or ends the process; nobody else notices.
LEMMA FaultRefines ==
  ASSUME TypeOK, SoundInv, NEW p \in Procs, NEW r \in Regions, Fault(p, r)
  PROVE  Private!Exit(p) \/ UNCHANGED Private!vars
<1> USE DEF core
<1>0. PICK g \in Frames : g = vpi[p][r].ppn
  BY InfoFacts DEF Fault, TypeOK, Ppns
<1>1. damaged' = damaged
  BY Zenon DEF Fault
<1>2. CASE st' = [st EXCEPT ![p] = "zombie"] /\ cur' = Null /\ UNCHANGED <<core, vpi, pte>>
  BY <1>2, ExitRefines, Zenon
<1>3. CASE ReusePage(p, r) /\ UNCHANGED <<st, cur>>
  <2>1. vpi' = [vpi EXCEPT ![p][r] = Own(g)] /\ mem' = mem
    BY <1>0, <1>3 DEF ReusePage
  <2>2. Own(g).ppn = g
    BY InfoFacts DEF Ppns
  <2>3. \A q \in Procs, s \in Regions : vpi'[q][s].ppn = vpi[q][s].ppn
    BY <1>0, <2>1, <2>2 DEF TypeOK
  <2>4. \A q \in Procs, s \in Regions : View(q, s)' = View(q, s)
    BY <1>3, <2>1, <2>3 DEF View
  <2> QED
    BY <1>1, <1>3, <2>4, Unnoticed
<1>4. CASE CopyPage(p, r) /\ UNCHANGED <<st, cur>>
  <2>1. PICK f \in Frames :
          /\ f \in avail
          /\ mem' = [mem EXCEPT ![f] = mem[g]]
          /\ vpi' = [vpi EXCEPT ![p][r] = Own(f)]
    BY <1>0, <1>4, Zenon DEF CopyPage
  <2>2. Own(f).ppn = f /\ f # Null /\ g # Null
    BY InfoFacts, FramesAssumption DEF Ppns
  <2>3. \A q \in Procs, s \in Regions : vpi'[q][s].ppn = IF q = p /\ s = r THEN f ELSE vpi[q][s].ppn
    BY <2>1, <2>2 DEF TypeOK
  <2>4. \A q \in Procs, s \in Regions : vpi[q][s].ppn # f
    BY <2>1 DEF SoundInv, FrameInv
  <2>5. \A h \in Frames : mem'[h] = IF h = f THEN mem[g] ELSE mem[h]
    BY <2>1 DEF TypeOK
  <2>6. ASSUME NEW q \in Procs, NEW s \in Regions PROVE View(q, s)' = View(q, s)
    <3>1. vpi[q][s].ppn \in Frames \cup {Null}
      BY PpnTypes, Zenon
    <3> QED
      BY <1>0, <1>4, <2>2, <2>3, <2>4, <2>5, <3>1, Zenon DEF View
  <2> QED
    BY <1>1, <1>4, <2>6, Unnoticed
<1> QED
  BY <1>2, <1>3, <1>4, Zenon DEF Fault

\* Every step of the kernel and of the programs is a step of private memories.
LEMMA StepRefines == IInv /\ IInv' /\ [Next]_vars => [Private!Next]_Private!vars
<1> SUFFICES ASSUME IInv, IInv', [Next]_vars, ~damaged' PROVE [Private!Next]_Private!vars
  BY DEF Private!Next
<1>1. ~damaged /\ TypeOK /\ SoundInv /\ SoundInv'
  BY DamageStays DEF IInv
<1> USE DEF core, spaces
<1>2. CASE UNCHANGED vars
  <2>1. UNCHANGED <<cur, damaged, st, vpi, mem>>
    BY <1>2 DEF vars
  <2>2. \A q \in Procs, s \in Regions : View(q, s)' = View(q, s)
    BY <2>1 DEF View
  <2> QED
    BY <2>1, <2>2, Unnoticed
<1>3. ASSUME NEW p \in Procs, NEW r \in Regions, Read(p, r) PROVE UNCHANGED Private!vars
  <2>1. UNCHANGED <<cur, damaged, st, vpi, mem>>
    BY <1>3 DEF Read
  <2>2. \A q \in Procs, s \in Regions : View(q, s)' = View(q, s)
    BY <2>1 DEF View
  <2> QED
    BY <2>1, <2>2, Unnoticed
<1>4. ASSUME NEW p \in Procs, NEW r \in Regions, NEW v \in Values, Write(p, r, v) PROVE Private!Next
  BY <1>1, <1>4, WriteRefines, Acts, Zenon DEF Private!Step, Write, InUser, Running
<1>5. ASSUME NEW p \in Procs, NEW r \in Regions, Fault(p, r) PROVE [Private!Next]_Private!vars
  BY <1>1, <1>5, FaultRefines, Acts, Zenon DEF Private!Step, Fault, InUser, Running
<1>6. ASSUME NEW p \in Procs, NEW c \in Procs, ForkBegin(p, c) PROVE UNCHANGED Private!vars
  BY <1>1, <1>6, ForkUnnoticed
<1>7. ASSUME NEW p \in Procs, ForkCopy(p) \/ ForkCount(p) PROVE UNCHANGED Private!vars
  BY <1>1, <1>7, ForkUnnoticed
<1>8. ASSUME NEW p \in Procs, ForkFinish(p) PROVE Private!Next
  <2>1. \E c \in Procs : Private!Fork(p, c)
    BY <1>1, <1>8, ForkRefines
  <2>2. Private!Step(p)
    BY <2>1 DEF Private!Step
  <2> QED
    BY <1>1, <1>8, <2>2, Acts, Zenon DEF ForkFinish, Running
<1>9. ASSUME NEW p \in Procs, NEW c \in Procs, Reap(p, c) PROVE UNCHANGED Private!vars
  <2>1. /\ st[c] = "zombie" /\ st' = [st EXCEPT ![c] = "unused"] /\ Kfree(SpacePages(c) \ {Null})
        /\ vpi' = [vpi EXCEPT ![c] = [r \in Regions |-> NoPage]] /\ UNCHANGED <<cur, damaged>>
    BY <1>9 DEF Reap
  <2>2. \A q \in Procs : (st'[q] = "active" <=> st[q] = "active") /\ (st[q] = "active" => vpi'[q] = vpi[q])
    BY <1>1, <2>1 DEF TypeOK
  <2>3. SpacePages(c) \ {Null} \in SUBSET Frames
    BY <1>1, InfoFacts DEF TypeOK, SpacePages, Ppns
  <2> QED
    BY <1>1, <2>1, <2>2, <2>3, KfreeUnnoticed
<1>10. ASSUME NEW p \in Procs, ForkStarved(p) \/ SbrkStarved(p) PROVE FALSE
  BY <1>10 DEF ForkStarved, SbrkStarved
<1>11. ASSUME NEW p \in Procs, SbrkList(p) PROVE UNCHANGED Private!vars
  <2>1. UNCHANGED <<cur, damaged, st, vpi>>
    BY <1>11 DEF SbrkList
  <2>2. CASE UNCHANGED mem
    <3>1. \A q \in Procs, s \in Regions : View(q, s)' = View(q, s)
      BY <2>1, <2>2 DEF View
    <3> QED
      BY <2>1, <3>1, Unnoticed
  <2>3. ASSUME NEW f \in Frames, Kalloc(f), mem' = [mem EXCEPT ![f] = 0] PROVE UNCHANGED Private!vars
    <3>1. \A q \in Procs, s \in Regions : vpi[q][s].ppn # f
      <4>1. f \in avail
        BY <2>3 DEF Kalloc
      <4> QED
        BY <1>1, <4>1 DEF SoundInv, FrameInv
    <3>2. \A g \in Frames : g # f => mem'[g] = mem[g]
      BY <1>1, <2>3 DEF TypeOK
    <3> QED
      BY <1>1, <2>1, <3>1, <3>2, OtherPage
  <2> QED
    BY <1>11, <2>2, <2>3 DEF SbrkList
<1>12. ASSUME NEW p \in Procs, SbrkPage(p) PROVE [Private!Next]_Private!vars
  <2>1. UNCHANGED <<cur, damaged, st>> /\ cur = p /\ st[p] = "active"
    BY <1>12 DEF SbrkPage, Running
  <2>2. CASE UNCHANGED <<core, vpi>>
    <3>1. \A q \in Procs, s \in Regions : View(q, s)' = View(q, s)
      BY <2>1, <2>2 DEF View
    <3> QED
      BY <2>1, <3>1, Unnoticed
  <2>3. CASE Private!Grow(p, Heap)
    BY <1>1, <2>1, <2>3, Acts, RegionFacts DEF Private!Step
  <2> QED
    BY <1>1, <1>12, <2>2, <2>3, GrowRefines
<1>13. ASSUME NEW p \in Procs, Exec(p) PROVE Private!Next
  <2>1. Private!Exec(p)
    BY <1>1, <1>13, ExecRefines, Zenon
  <2> QED
    BY <1>1, <1>13, <2>1, Acts, Zenon DEF Private!Step, Exec, InUser, Running
<1>14. ASSUME NEW p \in Procs, Exit(p) PROVE Private!Next
  <2>1. Private!Exit(p)
    BY <1>1, <1>14, ExitRefines, Zenon DEF Exit
  <2> QED
    BY <1>1, <1>14, <2>1, Acts, Zenon DEF Private!Step, Exit, InUser, Running
<1>15. ASSUME NEW p \in Procs, Switch(p) PROVE Private!Next
  <2>1. cur' = p /\ st[p] = "active" /\ UNCHANGED <<damaged, st, vpi, mem>>
    BY <1>15 DEF Switch
  <2>2. aspace' = aspace /\ {q \in Procs : st[q] = "active"}' = {q \in Procs : st[q] = "active"}
    BY <2>1 DEF aspace
  <2>3. Private!Switch
    BY <2>1, <2>2 DEF Private!Switch
  <2> QED
    BY <2>1, <2>3 DEF Private!Next
<1>16. ASSUME NEW f \in Frames, KernelTake(f) PROVE UNCHANGED Private!vars
  <2>1. UNCHANGED <<cur, damaged, st, vpi, mem>>
    BY <1>16 DEF KernelTake
  <2>2. \A q \in Procs, s \in Regions : View(q, s)' = View(q, s)
    BY <2>1 DEF View
  <2> QED
    BY <2>1, <2>2, Unnoticed
<1>17. ASSUME NEW f \in Frames, KernelGive(f) PROVE UNCHANGED Private!vars
  BY <1>1, <1>17, KfreeUnnoticed, {f} \in SUBSET Frames DEF KernelGive
<1> QED
  BY <1>2, <1>3, <1>4, <1>5, <1>6, <1>7, <1>8, <1>9, <1>10, <1>11, <1>12, <1>13, <1>14, <1>15, <1>16, <1>17
  DEF Next, Step

\* The first process has a memory of its own.
LEMMA InitRefines == Init => Private!Init
<1> SUFFICES ASSUME Init PROVE Private!Init
  OBVIOUS
<1>1. PICK l, f \in Frames, v \in Values :
        /\ l # f
        /\ mem = [g \in Frames |-> CASE g = f -> v [] g = l -> 0 [] OTHER -> Junk]
        /\ vpi = [p \in Procs |-> [r \in Regions |-> IF p = First /\ r = 1 THEN Own(f) ELSE NoPage]]
        /\ st = [p \in Procs |-> IF p = First THEN "active" ELSE "unused"]
        /\ cur = Null /\ damaged = FALSE
  BY DEF Init
<1>2. f # Null /\ Own(f).ppn = f /\ NoPage.ppn = Null /\ mem[f] = v /\ First \in Procs
  BY <1>1, InfoFacts, FramesAssumption, ProcsAssumption DEF Ppns
<1> DEFINE m == [r \in Regions |-> IF r = 1 THEN v ELSE Null]
<1>3. m \in Private!Memories
  BY DEF Private!Memories
<1>4. \A q \in Procs, s \in Regions : View(q, s) = IF q = First /\ s = 1 THEN v ELSE Null
  BY <1>1, <1>2 DEF View
<1>5. aspace = [q \in Procs |-> IF q = First THEN m ELSE Private!NoMemory]
  BY <1>4 DEF aspace, View, Private!NoMemory
<1>6. {q \in Procs : st[q] = "active"} = {First}
  BY <1>1, <1>2
<1> QED
  BY <1>1, <1>2, <1>3, <1>5, <1>6 DEF Private!Init

-----------------------------------------------------------------------------
(* the theorems *)

INSTANCE FiniteSetTheorems

\* There are finitely many processes, regions and pages, so the vpage_infos and the
\* pages can be counted (proc.h, vspace.h, kalloc.c).
LEMMA CountingHolds == Counting
<1>1. IsFiniteSet(Procs \X Regions)
  <2>1. IsFiniteSet(Regions)
    BY RegionAssumption, FS_Interval DEF Regions
  <2> QED
    BY <2>1, ProcsAssumption, FS_Product
<1>2. CellCounting
  <2> SUFFICES ASSUME NEW S \in SUBSET (Procs \X Regions) PROVE
        /\ Cardinality(S) \in Nat /\ (Cardinality(S) = 0 <=> S = {})
        /\ \A x \in Procs \X Regions :
             /\ Cardinality({x}) = 1
             /\ x \notin S => Cardinality(S \cup {x}) = Cardinality(S) + 1
             /\ x \in S => Cardinality(S \ {x}) = Cardinality(S) - 1
        /\ \A T \in SUBSET S : Cardinality(T) <= Cardinality(S)
    BY Zenon DEF CellCounting
  <2>1. IsFiniteSet(S)
    BY <1>1, FS_Subset, Zenon
  <2>2. Cardinality(S) \in Nat /\ (Cardinality(S) = 0 <=> S = {})
    BY <2>1, FS_CardinalityType, FS_EmptySet, Zenon
  <2>3. ASSUME NEW x \in Procs \X Regions
        PROVE  /\ Cardinality({x}) = 1
               /\ x \notin S => Cardinality(S \cup {x}) = Cardinality(S) + 1
               /\ x \in S => Cardinality(S \ {x}) = Cardinality(S) - 1
    BY <2>1, FS_Singleton, FS_AddElement, FS_RemoveElement, Zenon
  <2>4. \A T \in SUBSET S : Cardinality(T) <= Cardinality(S)
    BY <2>1, FS_Subset, Zenon
  <2> QED
    BY <2>2, <2>3, <2>4, Zenon
<1>3. PageCounting
  <2> SUFFICES ASSUME NEW S \in SUBSET Frames PROVE
        /\ Cardinality(S) \in Nat
        /\ \A f \in Frames :
             /\ Cardinality({f}) = 1
             /\ f \notin S => Cardinality(S \cup {f}) = Cardinality(S) + 1
        /\ \A T \in SUBSET S : Cardinality(S \ T) = Cardinality(S) - Cardinality(T)
    BY Zenon DEF PageCounting
  <2>1. IsFiniteSet(S)
    BY FramesAssumption, FS_Subset, Zenon
  <2>2. Cardinality(S) \in Nat
    BY <2>1, FS_CardinalityType, Zenon
  <2>3. ASSUME NEW f \in Frames
        PROVE  Cardinality({f}) = 1 /\ (f \notin S => Cardinality(S \cup {f}) = Cardinality(S) + 1)
    BY <2>1, FS_Singleton, FS_AddElement, Zenon
  <2>4. ASSUME NEW T \in SUBSET S PROVE Cardinality(S \ T) = Cardinality(S) - Cardinality(T)
    <3>1. S \cap T = T
      OBVIOUS
    <3>2. Cardinality(S \ T) = Cardinality(S) - Cardinality(S \cap T)
      BY <2>1, FS_Difference, Zenon
    <3> QED
      BY <3>1, <3>2, Zenon
  <2> QED
    BY <2>2, <2>3, <2>4, Zenon
<1> QED
  BY <1>2, <1>3 DEF Counting

\* The invariant holds in every state.
THEOREM Invariance == Spec => []IInv
<1>1. Init => IInv
  BY InitInv, CountingHolds, Zenon
<1>2. IInv /\ [Next]_vars => IInv'
  BY NextInv, CountingHolds, Zenon
<1> QED
  BY <1>1, <1>2, PTL DEF Spec

\* The counts that copy_vpi_page, the fault handler and kfree keep cover the users
\* of every page, whatever fork is interrupted by.
THEOREM RefCoversHolds == Spec => []RefCovers
<1>1. IInv => RefCovers
  <2> SUFFICES ASSUME TypeOK, SoundInv, NEW f \in Frames
               PROVE  Cardinality(Users(f)) <= ref[f] + Cardinality(Uncounted(f))
    BY DEF IInv, RefCovers
  <2> DEFINE late == {x \in Users(f) : Pending(x[1], x[2])}
             cell == [q \in Uncounted(f) |-> <<child[q], reg[q]>>]
  <2>1. Users(f) = Counted(f) \cup late /\ Counted(f) \cap late = {}
    BY DEF Users, Counted
  <2>2. ASSUME NEW q \in Procs, pc[q] = "count"
        PROVE  /\ child[q] \in Procs /\ reg[q] \in Regions
               /\ vpi[child[q]][reg[q]].ppn = vpi[q][reg[q]].ppn
    <3>1. child[q] \in Procs /\ reg[q] \in Regions
      BY <2>2 DEF SoundInv, ForkInv, Forking, TypeOK
    <3>2. Given(q, reg[q])
      BY <2>2, <3>1, RegionFacts DEF Given
    <3> QED
      BY <2>2, <3>1, <3>2, Zenon DEF SoundInv, CopyInv, Forking
  <2>3. cell \in [Uncounted(f) -> late]
    <3>1. ASSUME NEW q \in Uncounted(f) PROVE <<child[q], reg[q]>> \in late
      <4>1. q \in Procs /\ pc[q] = "count" /\ vpi[q][reg[q]].ppn = f
        BY DEF Uncounted
      <4>2. child[q] \in Procs /\ reg[q] \in Regions /\ vpi[child[q]][reg[q]].ppn = f
        BY <2>2, <4>1
      <4>3. Pending(child[q], reg[q])
        BY <4>1 DEF Pending
      <4> QED
        BY <4>2, <4>3 DEF Users
    <3> QED
      BY <3>1
  <2>4. \A x \in late : \E q \in Uncounted(f) : cell[q] = x
    <3>1. ASSUME NEW x \in late PROVE \E q \in Uncounted(f) : cell[q] = x
      <4>1. PICK d \in Procs, s \in Regions : x = <<d, s>> /\ vpi[d][s].ppn = f /\ Pending(d, s)
        BY DEF Users
      <4>2. PICK q \in Procs : pc[q] = "count" /\ child[q] = d /\ reg[q] = s
        BY <4>1 DEF Pending
      <4>3. q \in Uncounted(f)
        BY <2>2, <4>1, <4>2, Zenon DEF Uncounted
      <4> QED
        BY <4>1, <4>2, <4>3, Zenon
    <3> QED
      BY <3>1
  <2>5. cell \in Surjection(Uncounted(f), late)
    BY <2>3, <2>4, Zenon DEF Surjection
  <2>6. IsFiniteSet(Uncounted(f))
    BY ProcsAssumption, FS_Subset, Uncounted(f) \in SUBSET Procs DEF Uncounted
  <2>7. IsFiniteSet(late) /\ Cardinality(late) <= Cardinality(Uncounted(f))
    BY <2>5, <2>6, FS_Surjection, Zenon
  <2>8. IsFiniteSet(Counted(f))
    <3>1. Counted(f) \in SUBSET (Procs \X Regions)
      BY DEF Counted
    <3>2. IsFiniteSet(Regions)
      BY RegionAssumption, FS_Interval DEF Regions
    <3>3. IsFiniteSet(Procs \X Regions)
      BY <3>2, ProcsAssumption, FS_Product, Zenon
    <3> QED
      BY <3>1, <3>3, FS_Subset, Zenon
  <2>9. Cardinality(Users(f)) = Cardinality(Counted(f)) + Cardinality(late) - Cardinality({})
    BY <2>1, <2>7, <2>8, FS_Union, Zenon
  <2>10. /\ Cardinality({}) = 0 /\ Cardinality(late) \in Nat /\ Cardinality(Counted(f)) \in Nat
         /\ Cardinality(Uncounted(f)) \in Nat
    BY <2>6, <2>7, <2>8, FS_EmptySet, FS_CardinalityType, Zenon
  <2>11. Cardinality(Counted(f)) <= ref[f] /\ ref[f] \in Nat
    BY Zenon DEF SoundInv, CountInv, TypeOK
  <2> QED
    BY <2>7, <2>9, <2>10, <2>11
<1> QED
  BY <1>1, Invariance, PTL

\* Nothing but exec loses a page, and pages_in_use is exact.
THEOREM NoLeakHolds == Spec => []NoLeak
<1>1. IInv => NoLeak
  <2> SUFFICES ASSUME TypeOK, SoundInv, NEW f \in Frames \ avail
               PROVE  /\ \/ f \in kernel \cup dropped
                         \/ Users(f) # {}
                         \/ \E p \in Procs, r \in Regions : list[p][r] = f
                      /\ inuse = Cardinality(Frames \ avail)
    BY DEF IInv, NoLeak, SoundInv, LeakInv
  <2>1. ASSUME Mapped(f) PROVE Users(f) # {}
    <3>1. PICK p \in Procs, r \in Regions : vpi[p][r].ppn = f
      BY <2>1 DEF Mapped
    <3>2. <<p, r>> \in Users(f)
      BY <3>1, Zenon DEF Users
    <3> QED
      BY <3>2
  <2> QED
    BY <2>1 DEF SoundInv, LeakInv, Listed
<1> QED
  BY <1>1, Invariance, PTL

\* A program writes without a fault only to pages that are its own.
THEOREM WritableIsPrivateHolds == Spec => []WritableIsPrivate
<1>1. IInv => WritableIsPrivate
  <2> SUFFICES ASSUME TypeOK, SoundInv, NEW p \in Procs, NEW r \in Regions, InUser(p), Translation(p, r).w
               PROVE  Users(Translation(p, r).ppn) = {<<p, r>>}
    BY DEF IInv, WritableIsPrivate
  <2>1. Translation(p, r).ppn = vpi[p][r].ppn /\ vpi[p][r].w
    BY Translates
  <2>2. \A q \in Procs, s \in Regions : vpi[q][s].ppn = vpi[p][r].ppn <=> q = p /\ s = r
    BY <2>1 DEF SoundInv, OwnInv
  <2>3. \A x \in Procs \X Regions : vpi[x[1]][x[2]].ppn = vpi[p][r].ppn <=> x = <<p, r>>
    BY <2>2
  <2> QED
    BY <2>1, <2>3 DEF Users
<1> QED
  BY <1>1, Invariance, PTL

\* Copy-on-write is not visible: the kernel's pages, page tables and counts give
\* every program a memory of its own, until kalloc's failure is overlooked.
THEOREM CowRefinesPrivate == Spec => PrivateSpec
BY InitRefines, StepRefines, Invariance, PTL DEF Spec, PrivateSpec, Private!Spec
=============================================================================
