------------------------------ MODULE CowReap ------------------------------
(***************************************************************************)
(* Proofs about Cow: wait gives back what a dead process had, and exec     *)
(* replaces an address space.  Both keep the invariant.                    *)
(***************************************************************************)
EXTENDS CowInv

\* What Reap leaves of the space of c and of the others, place by place.
Emptied(c) ==
  /\ \A q \in Procs :
       /\ st'[q] = (IF q = c THEN "unused" ELSE st[q])
       /\ q # c => list'[q] = list[q] /\ vpi'[q] = vpi[q] /\ pte'[q] = pte[q]
  /\ \A s \in Regions : list'[c][s] = Null /\ vpi'[c][s].ppn = Null /\ vpi'[c][s].w = FALSE
  /\ pte'[c] = NoPtes
  /\ UNCHANGED <<kernel, tlb, cur, forks, dropped>>

\* The pages of the space of c, and what giving back each of them once does.
InSpace(c, f) == f # Null /\ \E r \in Regions : f = list[c][r] \/ f = vpi[c][r].ppn
GivenBack(c) ==
  /\ \A g \in Frames : ref'[g] = IF InSpace(c, g) THEN ref[g] - 1 ELSE ref[g]
  /\ avail' = avail \cup {f \in Frames : InSpace(c, f) /\ ref[f] = 1}
  /\ inuse' = Cardinality(Frames \ avail')

\* The parent reaps a zombie, which is in no system call, and not itself.
LEMMA ReapFacts ==
  ASSUME TypeOK, SoundInv, NEW p \in Procs, NEW c \in Procs, Reap(p, c)
  PROVE  /\ Emptied(c) /\ Kfree(SpacePages(c) \ {Null})
         /\ cur = p /\ st[p] = "active" /\ st[c] = "zombie" /\ pc[c] = "user" /\ c # p
<1>1. /\ cur = p /\ st[p] = "active" /\ st[c] = "zombie" /\ Kfree(SpacePages(c) \ {Null})
      /\ list' = [list EXCEPT ![c] = [r \in Regions |-> Null]]
      /\ vpi' = [vpi EXCEPT ![c] = [r \in Regions |-> NoPage]]
      /\ pte' = [pte EXCEPT ![c] = NoPtes]
      /\ st' = [st EXCEPT ![c] = "unused"]
      /\ UNCHANGED <<kernel, tlb, cur, forks, dropped>>
  BY DEF Reap, InUser, Running
<1>2. pc[c] = "user" /\ c # p
  BY <1>1 DEF SoundInv, ForkInv, TypeOK
<1>3. Emptied(c)
  BY <1>1, InfoFacts DEF TypeOK, Emptied
<1> QED
  BY <1>1, <1>2, <1>3

\* The other spaces and their forks are as they were.
LEMMA ReapSpaces ==
  ASSUME TypeOK, SoundInv, NEW p \in Procs, NEW c \in Procs, Emptied(c),
         cur = p, st[p] = "active", st[c] = "zombie", pc[c] = "user", c # p
  PROVE  /\ ForkInv' /\ CopyInv' /\ SpaceInv' /\ TableInv' /\ OwnInv'
         /\ \A d \in Procs, s \in Regions : Pending(d, s)' <=> Pending(d, s)
<1>1. ForkInv' /\ CopyInv' /\ \A d \in Procs, s \in Regions : Pending(d, s)' <=> Pending(d, s)
  <2>1. pc' = pc /\ UNCHANGED <<child, reg>> /\ pc[c] \notin Forking
    BY DEF Emptied, forks, Forking
  <2>2. /\ pc'[c] \notin Forking /\ (pc'[c] # "user" => st'[c] = "active") /\ st'[c] # "embryo"
        /\ st[c] # "embryo"
    BY <2>1 DEF Emptied
  <2>3. \A q \in Procs : q # c => st'[q] = st[q] /\ pc'[q] = pc[q] /\ list'[q] = list[q] /\ vpi'[q] = vpi[q]
    BY <2>1 DEF Emptied
  <2> QED
    BY <2>1, <2>2, <2>3, OthersFork
<1>2. SpaceInv'
  BY DEF SoundInv, SpaceInv, Emptied, forks
<1>3. OwnInv'
  BY FramesAssumption DEF SoundInv, OwnInv, Emptied
<1>4. TableInv'
  <2>1. Rebuilt(vpi'[c]) = NoPtes
    <3>1. \A s \in Regions : vpi'[c][s].ppn = Null /\ vpi'[c][s].w = FALSE
      BY DEF Emptied
    <3> QED
      BY <3>1, Zenon DEF Rebuilt, NoPtes, NoPte
  <2>2. \A q \in Procs : st'[q] # "embryo" /\ pc'[q] \notin Forking => pte'[q] = Rebuilt(vpi'[q])
    BY <2>1 DEF SoundInv, TableInv, Emptied, forks
  <2>3. cur' = p /\ st'[p] = "active" /\ \A s \in Regions : tlb'[s].ppn # Null => tlb'[s] = pte'[p][s]
    BY ProcsAssumption DEF SoundInv, TableInv, Emptied
  <2> QED
    BY <2>2, <2>3 DEF TableInv
<1> QED
  BY <1>1, <1>2, <1>3, <1>4

\* vspacefree gives back the pages of the space, none of which is available or the
\* kernel's.
LEMMA ReapPages ==
  ASSUME TypeOK, SoundInv, NEW c \in Procs, st[c] = "zombie", pc[c] = "user"
  PROVE  /\ \A f : f \in SpacePages(c) \ {Null} <=> InSpace(c, f)
         /\ \A f : InSpace(c, f) => f \in Frames /\ f \notin avail /\ f \notin kernel
<1>1. pte[c] = Rebuilt(vpi[c])
  BY DEF SoundInv, TableInv, Forking
<1>2. \A r \in Regions : pte[c][r].ppn = vpi[c][r].ppn
  BY <1>1, RebuiltFacts, Zenon DEF TypeOK
<1>3. \A r \in Regions : list[c][r] \in Ppns /\ vpi[c][r].ppn \in Ppns
  BY InfoFacts DEF TypeOK
<1>4. \A f : f \in SpacePages(c) \ {Null} <=> InSpace(c, f)
  BY <1>2 DEF SpacePages, InSpace
<1>5. \A f : InSpace(c, f) => f \in Frames /\ f \notin avail /\ f \notin kernel
  BY <1>3 DEF SoundInv, FrameInv, Ppns, InSpace
<1> QED
  BY <1>4, <1>5

\* A page that a space maps is counted there, in one region.
LEMMA CountedHere ==
  ASSUME Counting, TypeOK, SoundInv, NEW c \in Procs, pc[c] = "user", st[c] = "zombie",
         NEW r \in Regions, NEW h \in Frames, vpi[c][r].ppn = h
  PROVE  /\ <<c, r>> \in Counted(h) /\ Cardinality(Counted(h)) \in Nat /\ ref[h] \in Nat /\ ref[h] > 0
         /\ Cardinality(Counted(h) \ {<<c, r>>}) = Cardinality(Counted(h)) - 1
<1>1. Counted(h) \in SUBSET (Procs \X Regions) /\ <<c, r>> \in Counted(h) /\ <<c, r>> \in Procs \X Regions
  BY DEF Counted, Pending, SoundInv, ForkInv, Forking
<1>2. /\ Cardinality(Counted(h) \ {<<c, r>>}) = Cardinality(Counted(h)) - 1
      /\ Cardinality(Counted(h)) \in Nat /\ (Cardinality(Counted(h)) = 0 <=> Counted(h) = {})
  BY <1>1, CellSets, Zenon
<1>3. Cardinality(Counted(h)) # 0
  BY <1>1, <1>2
<1>4. ref[h] \in Nat /\ Cardinality(Counted(h)) <= ref[h]
  BY DEF SoundInv, CountInv, TypeOK
<1> QED
  BY <1>1, <1>2, <1>3, <1>4

\* The counts go down by one, and the pages that nobody else uses become available.
LEMMA ReapKfree ==
  ASSUME Counting, TypeOK, SoundInv, NEW c \in Procs, st[c] = "zombie", pc[c] = "user",
         Kfree(SpacePages(c) \ {Null})
  PROVE  GivenBack(c)
<1> DEFINE S == SpacePages(c) \ {Null}
<1>1. \A f : f \in S <=> InSpace(c, f)
  BY ReapPages
<1>2. S \in SUBSET (Frames \ avail)
  BY <1>1, ReapPages
<1>3. ASSUME NEW f \in S PROVE ref[f] > 0
  <2>1. f \in Frames /\ \E r \in Regions : f = list[c][r] \/ f = vpi[c][r].ppn
    BY <1>1, <1>2 DEF InSpace
  <2>2. PICK r \in Regions : f = list[c][r] \/ f = vpi[c][r].ppn
    BY <2>1
  <2>3. CASE f = list[c][r]
    BY <2>1, <2>3, FramesAssumption DEF SoundInv, FrameInv
  <2>4. CASE f = vpi[c][r].ppn
    BY <2>1, <2>4, CountedHere, Zenon
  <2> QED
    BY <2>2, <2>3, <2>4
<1>4. /\ \A g \in Frames : ref'[g] = IF g \in S THEN ref[g] - 1 ELSE ref[g]
      /\ avail' = avail \cup {f \in S : ref[f] = 1}
      /\ inuse' = Cardinality(Frames \ avail')
  BY <1>2, <1>3, KfreeCounts, Zenon DEF SoundInv
<1> HIDE DEF S
<1>5. {f \in S : ref[f] = 1} = {f \in Frames : InSpace(c, f) /\ ref[f] = 1}
  BY <1>1, <1>2
<1> QED
  BY <1>1, <1>4, <1>5 DEF GivenBack

\* A page that becomes available is in no other space.
LEMMA ReapSole ==
  ASSUME Counting, TypeOK, SoundInv, NEW c \in Procs, st[c] = "zombie", pc[c] = "user",
         NEW f, InSpace(c, f), ref[f] = 1, NEW q \in Procs, q # c, NEW s \in Regions
  PROVE  list[q][s] # f /\ vpi[q][s].ppn # f
<1>1. f \in Frames /\ f # Null
  BY ReapPages DEF InSpace
<1>2. PICK r \in Regions : f = list[c][r] \/ f = vpi[c][r].ppn
  BY DEF InSpace
<1>3. CASE f = list[c][r]
  BY <1>1, <1>3 DEF SoundInv, FrameInv
<1>4. CASE f = vpi[c][r].ppn
  <2>1. vpi[q][s].ppn # f
    BY <1>1, <1>4, SoleUser
  <2>2. list[q][s] # f
    BY <1>1, <1>4 DEF SoundInv, FrameInv
  <2> QED
    BY <2>1, <2>2
<1> QED
  BY <1>2, <1>3, <1>4

\* Every page is still in one place only.
LEMMA ReapFrames ==
  ASSUME Counting, TypeOK, SoundInv, NEW c \in Procs, st[c] = "zombie", pc[c] = "user",
         Emptied(c), GivenBack(c)
  PROVE  FrameInv'
<1>1. \A f : InSpace(c, f) => f \in Frames /\ f \notin avail /\ f \notin kernel
  BY ReapPages, Zenon
<1>2. kernel' = kernel /\ \A g \in avail' : g \in Frames
  BY Zenon DEF Emptied, GivenBack, TypeOK
<1>3. \A g \in avail' : g \notin kernel' /\ ref'[g] = 0
  BY <1>1, <1>2 DEF SoundInv, FrameInv, TypeOK, GivenBack
<1>4. \A g \in kernel' : ref'[g] = 1
  BY <1>1, <1>2 DEF SoundInv, FrameInv, TypeOK, GivenBack
<1>5. ASSUME NEW q \in Procs, NEW s \in Regions
      PROVE  list'[q][s] \notin avail' \cup kernel' /\ vpi'[q][s].ppn \notin avail' \cup kernel'
  <2>1. CASE q = c
    BY <1>2, <2>1, FramesAssumption DEF Emptied, TypeOK
  <2>2. CASE q # c
    <3>1. list'[q][s] = list[q][s] /\ vpi'[q][s] = vpi[q][s]
      BY <2>2 DEF Emptied
    <3>2. list[q][s] \notin avail \cup kernel /\ vpi[q][s].ppn \notin avail \cup kernel
      BY DEF SoundInv, FrameInv
    <3> QED
      BY <1>2, <2>2, <3>1, <3>2, ReapSole DEF GivenBack
  <2> QED
    BY <2>1, <2>2
<1>6. ASSUME NEW q \in Procs, NEW s \in Regions, list'[q][s] # Null
      PROVE  ref'[list'[q][s]] = 1
  <2>1. q # c /\ list'[q][s] = list[q][s] /\ list[q][s] \in Frames
    BY <1>6 DEF Emptied, TypeOK, Ppns
  <2>2. ~InSpace(c, list[q][s]) /\ ref[list[q][s]] = 1
    BY <1>6, <2>1 DEF SoundInv, FrameInv, InSpace
  <2> QED
    BY <2>1, <2>2 DEF GivenBack
<1>7. ASSUME NEW q \in Procs, NEW s \in Regions, list'[q][s] # Null,
             NEW d \in Procs, NEW t \in Regions
      PROVE  vpi'[d][t].ppn # list'[q][s] /\ (list'[d][t] = list'[q][s] => d = q /\ t = s)
  BY <1>7 DEF SoundInv, FrameInv, Emptied
<1>8. ASSUME NEW q \in Procs, NEW s \in Regions, vpi'[q][s].ppn # Null,
             NEW d \in Procs, NEW t \in Regions, vpi'[d][t].ppn = vpi'[q][s].ppn
      PROVE  t = s
  BY <1>8 DEF SoundInv, FrameInv, Emptied
<1> QED
  BY <1>3, <1>4, <1>5, <1>6, <1>7, <1>8 DEF FrameInv

\* The counts are still those of the vpage_infos.
LEMMA ReapCounts ==
  ASSUME Counting, TypeOK, SoundInv, NEW c \in Procs, st[c] = "zombie", pc[c] = "user",
         Emptied(c), GivenBack(c),
         \A d \in Procs, s \in Regions : Pending(d, s)' <=> Pending(d, s), NEW h \in Frames
  PROVE  /\ Cardinality(Counted(h)') <= ref'[h]
         /\ h \notin dropped' /\ Mapped(h)' => Cardinality(Counted(h)') = ref'[h]
<1>0. ref[h] \in Nat /\ dropped' = dropped /\ h # Null
  BY FramesAssumption DEF TypeOK, Emptied
<1>1. ASSUME NEW r \in Regions, vpi[c][r].ppn = h
      PROVE  /\ Cardinality(Counted(h)') <= ref'[h]
             /\ h \notin dropped' => Cardinality(Counted(h)') = ref'[h]
  <2>1. \A s \in Regions : vpi[c][s].ppn = h => s = r
    BY <1>0, <1>1 DEF SoundInv, FrameInv
  <2>2. \A q \in Procs, s \in Regions : vpi'[q][s].ppn = h <=> vpi[q][s].ppn = h /\ <<q, s>> # <<c, r>>
    BY <1>0, <1>1, <2>1 DEF Emptied
  <2>3. Counted(h)' = Counted(h) \ {<<c, r>>}
    BY <2>2 DEF Counted
  <2>4. Cardinality(Counted(h)') = Cardinality(Counted(h)) - 1 /\ Cardinality(Counted(h)) \in Nat
    <3>1. /\ Cardinality(Counted(h) \ {<<c, r>>}) = Cardinality(Counted(h)) - 1
          /\ Cardinality(Counted(h)) \in Nat
      BY <1>1, CountedHere, Zenon
    <3> QED
      BY <2>3, <3>1, Zenon
  <2>5. ref'[h] = ref[h] - 1 /\ Mapped(h)
    BY <1>0, <1>1 DEF GivenBack, InSpace, Mapped
  <2> QED
    BY <1>0, <2>4, <2>5 DEF SoundInv, CountInv
<1>2. CASE \A r \in Regions : vpi[c][r].ppn # h
  <2>1. \A q \in Procs, s \in Regions : vpi'[q][s].ppn = h <=> vpi[q][s].ppn = h
    BY <1>0, <1>2 DEF Emptied
  <2>2. Counted(h)' = Counted(h) /\ (Mapped(h)' <=> Mapped(h))
    BY <2>1 DEF Counted, Mapped
  <2>3. CASE ~InSpace(c, h)
    BY <1>0, <2>2, <2>3 DEF SoundInv, CountInv, GivenBack
  <2>4. CASE InSpace(c, h)
    <3>1. PICK r \in Regions : h = list[c][r]
      BY <1>2, <2>4, Zenon DEF InSpace
    <3>2. ~Mapped(h) /\ Counted(h) = {} /\ ref[h] = 1
      BY <1>0, <3>1 DEF Mapped, Counted, SoundInv, FrameInv
    <3>3. Cardinality(Counted(h)) = 0 /\ ref'[h] = 0
      BY <2>4, <3>2, NoCells DEF GivenBack
    <3> QED
      BY <2>2, <3>2, <3>3
  <2> QED
    BY <2>3, <2>4
<1> QED
  BY <1>1, <1>2

\* A page of the space that does not become available has another user.
LEMMA ReapShared ==
  ASSUME Counting, TypeOK, SoundInv, NEW c \in Procs, st[c] = "zombie", pc[c] = "user", Emptied(c),
         NEW g \in Frames, NEW s \in Regions, vpi[c][s].ppn = g, ref[g] # 1, g \notin dropped
  PROVE  Mapped(g)'
<1>1. Cardinality(Counted(g)) = ref[g]
  BY DEF Mapped, SoundInv, CountInv
<1>2. /\ ref[g] \in Nat /\ ref[g] > 0
      /\ Cardinality(Counted(g) \ {<<c, s>>}) = Cardinality(Counted(g)) - 1
  BY CountedHere, Zenon
<1>3. Cardinality(Counted(g) \ {<<c, s>>}) # 0
  BY <1>1, <1>2
<1>4. PICK x : x \in Counted(g) \ {<<c, s>>}
  BY <1>3, NoCells, Zenon
<1>5. PICK d \in Procs, t \in Regions : x = <<d, t>> /\ vpi[d][t].ppn = g
  BY <1>4 DEF Counted
<1>6. d # c
  <2>1. \A u \in Regions : vpi[c][u].ppn = g => u = s
    BY FramesAssumption DEF SoundInv, FrameInv
  <2> QED
    BY <1>4, <1>5, <2>1
<1> QED
  BY <1>5, <1>6 DEF Mapped, Emptied

\* Nothing is lost.
LEMMA ReapLeak ==
  ASSUME Counting, TypeOK, SoundInv, NEW c \in Procs, st[c] = "zombie", pc[c] = "user",
         Emptied(c), GivenBack(c)
  PROVE  LeakInv'
<1>1. ASSUME NEW g \in Frames \ avail' PROVE g \in kernel' \cup dropped' \/ Mapped(g)' \/ Listed(g)'
  <2>1. /\ g \in Frames /\ g \notin avail /\ (InSpace(c, g) => ref[g] # 1) /\ g # Null
        /\ kernel' = kernel /\ dropped' = dropped
    BY FramesAssumption DEF GivenBack, Emptied
  <2>2. ASSUME NEW q \in Procs, NEW s \in Regions, list[q][s] = g PROVE Listed(g)'
    <3>1. q # c
      BY <2>1, <2>2 DEF SoundInv, FrameInv, InSpace
    <3> QED
      BY <2>2, <3>1 DEF Listed, Emptied
  <2>3. ASSUME NEW q \in Procs, NEW s \in Regions, vpi[q][s].ppn = g, g \notin dropped PROVE Mapped(g)'
    <3>1. CASE q # c
      BY <2>3, <3>1 DEF Mapped, Emptied
    <3>2. CASE q = c
      <4>1. ref[g] # 1
        BY <2>1, <2>3, <3>2 DEF InSpace
      <4> QED
        BY <2>1, <2>3, <3>2, <4>1, ReapShared
    <3> QED
      BY <3>1, <3>2
  <2> QED
    BY <2>1, <2>2, <2>3 DEF SoundInv, LeakInv, Mapped, Listed
<1> QED
  BY <1>1 DEF LeakInv, GivenBack

\* vspacefree gives back the lists of a zombie and the pages that it used alone,
\* and leaves the shared ones to their other users.
LEMMA ReapStep ==
  ASSUME Counting, TypeOK, SoundInv, NEW p \in Procs, NEW c \in Procs, Reap(p, c)
  PROVE  SoundInv'
<1>1. /\ Emptied(c) /\ Kfree(SpacePages(c) \ {Null})
      /\ cur = p /\ st[p] = "active" /\ st[c] = "zombie" /\ pc[c] = "user" /\ c # p
  BY ReapFacts, Zenon
<1>2. /\ ForkInv' /\ CopyInv' /\ SpaceInv' /\ TableInv' /\ OwnInv'
      /\ \A d \in Procs, s \in Regions : Pending(d, s)' <=> Pending(d, s)
  BY <1>1, ReapSpaces
<1>3. GivenBack(c)
  BY <1>1, ReapKfree
<1>4. CountInv'
  BY <1>1, <1>2, <1>3, ReapCounts DEF CountInv
<1> QED
  BY <1>1, <1>2, <1>3, <1>4, ReapFrames, ReapLeak DEF SoundInv

\* exec takes two pages, the list l and the page f of the new space.
TakenTwo(l, f) ==
  /\ l \in avail /\ f \in avail /\ l # f
  /\ avail' = avail \ {l, f} /\ inuse' = inuse + 2 /\ kernel' = kernel
  /\ \A h \in Frames : ref'[h] = IF h \in {l, f} THEN 1 ELSE ref[h]

\* What it leaves of the space of p and of the others, place by place.
NewSpace(p, l, f) ==
  /\ \A q \in Procs : q # p => list'[q] = list[q] /\ vpi'[q] = vpi[q] /\ pte'[q] = pte[q]
  /\ \A s \in Regions :
       /\ list'[p][s] = (IF s = 1 THEN l ELSE Null)
       /\ vpi'[p][s].ppn = (IF s = 1 THEN f ELSE Null) /\ ~vpi'[p][s].w

-----------------------------------------------------------------------------
(* exec *)

\* exec replaces the space of the running process.
LEMMA ExecFacts ==
  ASSUME Counting, TypeOK, NEW p \in Procs, Exec(p)
  PROVE  /\ cur = p /\ st[p] = "active" /\ pc[p] = "user"
         /\ UNCHANGED <<cur, st, forks>> /\ tlb' = NoPtes /\ pte'[p] = Rebuilt(vpi'[p])
         /\ dropped' = dropped \cup Held(p)
         /\ \E l, f \in Frames : TakenTwo(l, f) /\ NewSpace(p, l, f)
<1>1. PICK t, l, f \in avail, v \in Values :
        /\ Cardinality({t, l, f}) = 3
        /\ avail' = avail \ {l, f}
        /\ ref' = [ref EXCEPT ![l] = 1, ![f] = 1]
        /\ inuse' = inuse + 2
        /\ mem' = [mem EXCEPT ![t] = Junk, ![l] = 0, ![f] = v]
        /\ list' = [list EXCEPT ![p] = [r \in Regions |-> IF r = 1 THEN l ELSE Null]]
        /\ vpi' = [vpi EXCEPT ![p] = [r \in Regions |-> IF r = 1 THEN Shared(f) ELSE NoPage]]
        /\ pte' = [pte EXCEPT ![p] = Rebuilt(vpi'[p])]
  BY Zenon DEF Exec
<1>2. /\ cur = p /\ st[p] = "active" /\ pc[p] = "user" /\ tlb' = NoPtes
      /\ dropped' = dropped \cup Held(p) /\ UNCHANGED <<kernel, cur, st, forks>>
  BY DEF Exec, InUser, Running
<1>3. t \in Frames /\ l \in Frames /\ f \in Frames /\ f \in Ppns
  BY DEF TypeOK, Ppns
<1>4. l # f
  <2> SUFFICES ASSUME l = f PROVE FALSE
    OBVIOUS
  <2>1. {t, l, f} = {t} \cup {l} /\ {t} \in SUBSET Frames /\ (l \in {t} => {t} \cup {l} = {t})
    BY <1>3
  <2>2. Cardinality({t}) = 1 /\ (l \notin {t} => Cardinality({t} \cup {l}) = Cardinality({t}) + 1)
    BY <1>3, <2>1, Zenon DEF Counting, PageCounting
  <2>3. Cardinality({t, l, f}) = 1 \/ Cardinality({t, l, f}) = 1 + 1
    BY <2>1, <2>2, Zenon
  <2> QED
    BY <1>1, <2>3
<1>5. /\ \A q \in Procs : q # p => list'[q] = list[q] /\ vpi'[q] = vpi[q] /\ pte'[q] = pte[q]
      /\ pte'[p] = Rebuilt(vpi'[p])
  BY <1>1 DEF TypeOK
<1>6. \A s \in Regions :
        /\ list'[p][s] = (IF s = 1 THEN l ELSE Null)
        /\ vpi'[p][s].ppn = (IF s = 1 THEN f ELSE Null) /\ ~vpi'[p][s].w
  BY <1>1, <1>3, InfoFacts DEF TypeOK
<1>7. \A h \in Frames : ref'[h] = IF h \in {l, f} THEN 1 ELSE ref[h]
  BY <1>1, <1>3 DEF TypeOK
<1>8. TakenTwo(l, f)
  BY <1>1, <1>2, <1>4, <1>7, Zenon DEF TakenTwo
<1>9. NewSpace(p, l, f)
  BY <1>5, <1>6, Zenon DEF NewSpace
<1> QED
  BY <1>2, <1>3, <1>5, <1>8, <1>9

\* An available page is nobody's.
LEMMA AvailableFacts ==
  ASSUME TypeOK, SoundInv, NEW g \in avail
  PROVE  /\ g \in Frames /\ g # Null /\ g \notin kernel /\ ref[g] = 0
         /\ \A q \in Procs, s \in Regions : list[q][s] # g /\ vpi[q][s].ppn # g
BY FramesAssumption DEF TypeOK, SoundInv, FrameInv

\* The other spaces and their forks are as they were.
LEMMA ExecSpaces ==
  ASSUME TypeOK, SoundInv, NEW p \in Procs, cur = p, st[p] = "active", pc[p] = "user",
         NEW l \in Frames, NEW f \in Frames, TakenTwo(l, f), NewSpace(p, l, f),
         UNCHANGED <<cur, st, forks>>, tlb' = NoPtes, pte'[p] = Rebuilt(vpi'[p])
  PROVE  /\ ForkInv' /\ CopyInv' /\ SpaceInv' /\ TableInv' /\ OwnInv'
         /\ \A d \in Procs, s \in Regions : Pending(d, s)' <=> Pending(d, s)
<1>0. \A q \in Procs, s \in Regions : vpi[q][s].ppn # f
  BY AvailableFacts, Zenon DEF TakenTwo
<1>1. ForkInv' /\ CopyInv' /\ \A d \in Procs, s \in Regions : Pending(d, s)' <=> Pending(d, s)
  <2>1. pc' = pc /\ st' = st /\ UNCHANGED <<child, reg>> /\ pc[p] \notin Forking
    BY DEF forks, Forking
  <2>2. \A q \in Procs : q # p => st'[q] = st[q] /\ pc'[q] = pc[q] /\ list'[q] = list[q] /\ vpi'[q] = vpi[q]
    BY <2>1 DEF NewSpace
  <2>3. /\ pc'[p] \notin Forking /\ (pc'[p] # "user" => st'[p] = "active") /\ st'[p] # "embryo"
        /\ st[p] # "embryo"
    BY <2>1
  <2> QED
    BY <2>1, <2>2, <2>3, OthersFork
<1>2. SpaceInv'
  BY FramesAssumption DEF SoundInv, SpaceInv, NewSpace, forks
<1>3. OwnInv'
  BY <1>0, FramesAssumption DEF SoundInv, OwnInv, NewSpace
<1>4. TableInv'
  <2>1. \A s \in Regions : tlb'[s].ppn = Null
    BY Zenon DEF NoPtes, NoPte
  <2> QED
    BY <2>1, Zenon DEF SoundInv, TableInv, NewSpace, forks
<1> QED
  BY <1>1, <1>2, <1>3, <1>4

\* Every page is still in one place only.
LEMMA ExecFrames ==
  ASSUME TypeOK, SoundInv, NEW p \in Procs, NEW l \in Frames, NEW f \in Frames, TakenTwo(l, f), NewSpace(p, l, f)
  PROVE  FrameInv'
<1>0. /\ l \in avail /\ f \in avail /\ l # f /\ avail' = avail \ {l, f} /\ kernel' = kernel
      /\ l # Null /\ f # Null
  BY FramesAssumption DEF TakenTwo
<1>1. \A g \in {l, f} : g \notin kernel /\ ref[g] = 0
  BY <1>0, AvailableFacts
<1>2. \A q \in Procs, s \in Regions : list[q][s] \notin {l, f} /\ vpi[q][s].ppn \notin {l, f}
  BY <1>0, AvailableFacts
<1>3. \A h \in Frames : ref'[h] = IF h \in {l, f} THEN 1 ELSE ref[h]
  BY Zenon DEF TakenTwo
<1>4. \A g \in avail' : g \notin kernel' /\ ref'[g] = 0
  BY <1>0, <1>3, Zenon DEF SoundInv, FrameInv, TypeOK
<1>5. \A g \in kernel' : ref'[g] = 1
  BY <1>0, <1>1, <1>3, Zenon DEF SoundInv, FrameInv, TypeOK
<1>6. ASSUME NEW q \in Procs, NEW s \in Regions
      PROVE  list'[q][s] \notin avail' \cup kernel' /\ vpi'[q][s].ppn \notin avail' \cup kernel'
  <2>1. CASE q = p
    BY <1>0, <1>1, <2>1, FramesAssumption DEF TypeOK, NewSpace
  <2>2. CASE q # p
    BY <1>0, <2>2, Zenon DEF SoundInv, FrameInv, NewSpace
  <2> QED
    BY <2>1, <2>2, Zenon
<1>7. ASSUME NEW q \in Procs, NEW s \in Regions, list'[q][s] # Null
      PROVE  ref'[list'[q][s]] = 1
  <2>1. CASE q = p
    <3>1. list'[q][s] = l
      BY <1>7, <2>1, Zenon DEF NewSpace
    <3> QED
      BY <1>3, <3>1
  <2>2. CASE q # p
    <3>1. list'[q][s] = list[q][s] /\ list[q][s] \in Frames
      BY <1>7, <2>2, PpnTypes DEF NewSpace
    <3>2. list[q][s] \notin {l, f}
      BY <1>2, Zenon
    <3>3. ref[list[q][s]] = 1
      BY <1>7, <3>1, Zenon DEF SoundInv, FrameInv
    <3> QED
      BY <1>3, <3>1, <3>2, <3>3, Zenon
  <2> QED
    BY <2>1, <2>2
<1>8. ASSUME NEW q \in Procs, NEW s \in Regions, list'[q][s] # Null,
             NEW d \in Procs, NEW u \in Regions
      PROVE  vpi'[d][u].ppn # list'[q][s] /\ (list'[d][u] = list'[q][s] => d = q /\ u = s)
  <2>1. CASE q = p
    <3>1. list'[q][s] = l /\ s = 1
      BY <1>8, <2>1 DEF NewSpace
    <3>2. CASE d = p
      BY <1>0, <2>1, <3>1, <3>2 DEF NewSpace
    <3>3. CASE d # p
      BY <1>2, <3>1, <3>3 DEF NewSpace
    <3> QED
      BY <3>2, <3>3
  <2>2. CASE q # p /\ d = p
    BY <1>0, <1>2, <1>8, <2>2 DEF NewSpace
  <2>3. CASE q # p /\ d # p
    BY <1>8, <2>3 DEF SoundInv, FrameInv, NewSpace
  <2> QED
    BY <2>1, <2>2, <2>3
<1>9. ASSUME NEW q \in Procs, NEW s \in Regions, vpi'[q][s].ppn # Null,
             NEW d \in Procs, NEW u \in Regions, vpi'[d][u].ppn = vpi'[q][s].ppn
      PROVE  u = s
  <2>1. CASE q = p \/ d = p
    BY <1>0, <1>2, <1>9, <2>1 DEF NewSpace
  <2>2. CASE q # p /\ d # p
    <3>1. vpi'[q] = vpi[q] /\ vpi'[d] = vpi[d]
      BY <2>2, Zenon DEF NewSpace
    <3>2. \A a, b \in Procs, x, y \in Regions :
            vpi[a][x].ppn # Null /\ vpi[b][y].ppn = vpi[a][x].ppn => y = x
      BY DEF SoundInv, FrameInv
    <3> QED
      BY <1>9, <3>1, <3>2
  <2> QED
    BY <2>1, <2>2, Zenon
<1> QED
  BY <1>4, <1>5, <1>6, <1>7, <1>8, <1>9 DEF FrameInv

\* The counts are those of the vpage_infos, or more for the pages that exec drops.
LEMMA ExecCounts ==
  ASSUME Counting, TypeOK, SoundInv, NEW p \in Procs, st[p] = "active", pc[p] = "user",
         NEW l \in Frames, NEW f \in Frames,
         TakenTwo(l, f), NewSpace(p, l, f), dropped' = dropped \cup Held(p),
         \A d \in Procs, s \in Regions : Pending(d, s)' <=> Pending(d, s), NEW h \in Frames
  PROVE  /\ Cardinality(Counted(h)') <= ref'[h]
         /\ h \notin dropped' /\ Mapped(h)' => Cardinality(Counted(h)') = ref'[h]
<1>0. /\ l # f /\ ref[h] \in Nat /\ h # Null
      /\ <<p, 1>> \in Procs \X Regions /\ 1 \in Regions
  BY FramesAssumption, RegionFacts, Zenon DEF TypeOK, TakenTwo
<1>1. \A q \in Procs, s \in Regions : vpi[q][s].ppn \notin {l, f}
  BY SpacesApart DEF TakenTwo
<1>2. CASE h = f
  <2>1. ~Pending(p, 1)
    BY Zenon DEF Pending, SoundInv, ForkInv, Forking
  <2>2. \A q \in Procs, s \in Regions : vpi'[q][s].ppn = h <=> q = p /\ s = 1
    BY <1>0, <1>1, <1>2 DEF NewSpace
  <2>3. Counted(h)' = {<<p, 1>>}
    BY <1>0, <2>1, <2>2 DEF Counted
  <2>4. Cardinality(Counted(h)') = 1
    BY <1>0, <2>3, SingleCell, Zenon
  <2> QED
    <3>1. ref'[h] = 1
      BY <1>2 DEF TakenTwo
    <3> QED
      BY <2>4, <3>1
<1>3. CASE h # f
  <2>1. \A q \in Procs, s \in Regions : vpi'[q][s].ppn = h <=> vpi[q][s].ppn = h /\ q # p
    BY <1>0, <1>3, Zenon DEF NewSpace
  <2>2. Counted(h)' \in SUBSET Counted(h) /\ Counted(h) \in SUBSET (Procs \X Regions)
    BY <2>1 DEF Counted
  <2>3. Cardinality(Counted(h)') <= Cardinality(Counted(h))
    BY <2>2, Zenon DEF Counting, CellCounting
  <2>4. Cardinality(Counted(h)') \in Nat /\ Cardinality(Counted(h)) \in Nat
    BY <1>0, <2>2, CellSets, Counted(h)' \in SUBSET (Procs \X Regions), Zenon
  <2>5. CASE h = l
    <3>1. ref[h] = 0 /\ ref'[h] = 1
      BY <2>5, AvailableFacts, Zenon DEF TakenTwo
    <3>2. ~Mapped(h)'
      BY <1>1, <2>1, <2>5, Zenon DEF Mapped
    <3> QED
      BY <2>3, <2>4, <3>1, <3>2 DEF SoundInv, CountInv
  <2>6. CASE h # l
    <3>1. ref'[h] = ref[h]
      BY <1>3, <2>6, Zenon DEF TakenTwo
    <3>2. ASSUME h \notin dropped', Mapped(h)' PROVE Counted(h)' = Counted(h) /\ Mapped(h) /\ h \notin dropped
      <4>1. \A s \in Regions : vpi[p][s].ppn # h
        BY <1>0, <3>2 DEF Held
      <4> QED
        BY <1>0, <2>1, <3>2, <4>1 DEF Counted, Mapped
    <3>3. Cardinality(Counted(h)) <= ref[h] /\ (h \notin dropped /\ Mapped(h) => Cardinality(Counted(h)) = ref[h])
      BY Zenon DEF SoundInv, CountInv
    <3>4. h \notin dropped' /\ Mapped(h)' => Cardinality(Counted(h)') = ref'[h]
      BY <3>1, <3>2, <3>3, Zenon
    <3> QED
      BY <1>0, <2>3, <2>4, <3>1, <3>3, <3>4
  <2> QED
    BY <2>5, <2>6
<1> QED
  BY <1>2, <1>3

\* What exec loses is dropped, and pages_in_use counts it.
LEMMA ExecLeak ==
  ASSUME Counting, TypeOK, SoundInv, NEW p \in Procs, NEW l \in Frames, NEW f \in Frames, 
         TakenTwo(l, f), NewSpace(p, l, f), dropped' = dropped \cup Held(p)
  PROVE  LeakInv'
<1>0. /\ avail' = avail \ {l, f} /\ l \in avail /\ f \in avail /\ l # f /\ kernel' = kernel
      /\ inuse' = inuse + 2
  BY DEF TakenTwo
<1>1. Mapped(f)' /\ Listed(l)'
  BY RegionFacts DEF Mapped, Listed, NewSpace
<1>2. ASSUME NEW g \in Frames \ avail', g \notin {l, f}
      PROVE  g \in kernel' \cup dropped' \/ Mapped(g)' \/ Listed(g)'
  <2>1. g \notin avail /\ g # Null
    BY <1>0, <1>2, FramesAssumption, Zenon
  <2>2. Mapped(g) => Mapped(g)' \/ g \in dropped'
    BY <1>0, <2>1 DEF Mapped, Held, NewSpace
  <2>3. Listed(g) => Listed(g)' \/ g \in dropped'
    BY <1>0, <2>1 DEF Listed, Held, NewSpace
  <2> QED
    BY <1>0, <2>1, <2>2, <2>3 DEF SoundInv, LeakInv
<1>3. inuse' = Cardinality(Frames \ avail')
  <2> DEFINE A == Frames \ avail
             B == A \cup {l}
  <2>1. /\ Frames \ avail' = B \cup {f} /\ A \in SUBSET Frames /\ l \notin A
        /\ B \in SUBSET Frames /\ f \notin B
    BY <1>0
  <2>2. Cardinality(B) = Cardinality(A) + 1
    BY <2>1, OneMorePage, Zenon
  <2>3. Cardinality(B \cup {f}) = Cardinality(B) + 1
    BY <2>1, OneMorePage, Zenon
  <2>4. inuse = Cardinality(A) /\ inuse \in Int
    BY DEF SoundInv, LeakInv, TypeOK
  <2>5. Cardinality(A) \in Int /\ Cardinality(B \cup {f}) = Cardinality(A) + 1 + 1 /\ inuse = Cardinality(A)
    BY <2>2, <2>3, <2>4, Zenon
  <2>6. Cardinality(Frames \ avail') = Cardinality(B \cup {f})
    BY <2>1, Zenon
  <2> HIDE DEF A, B
  <2> QED
    BY <1>0, <2>5, <2>6
<1> QED
  BY <1>1, <1>2, <1>3 DEF LeakInv

\* exec drops what the program had and starts on a new page.
LEMMA ExecStep ==
  ASSUME Counting, TypeOK, SoundInv, NEW p \in Procs, Exec(p)
  PROVE  SoundInv'
<1>1. /\ cur = p /\ st[p] = "active" /\ pc[p] = "user"
      /\ UNCHANGED <<cur, st, forks>> /\ tlb' = NoPtes /\ pte'[p] = Rebuilt(vpi'[p])
      /\ dropped' = dropped \cup Held(p)
  BY ExecFacts, Zenon
<1>2. PICK l \in Frames, f \in Frames : TakenTwo(l, f) /\ NewSpace(p, l, f)
  BY ExecFacts, Zenon
<1>3. /\ ForkInv' /\ CopyInv' /\ SpaceInv' /\ TableInv' /\ OwnInv'
      /\ \A d \in Procs, s \in Regions : Pending(d, s)' <=> Pending(d, s)
  BY <1>1, <1>2, ExecSpaces, Zenon
<1>4. CountInv'
  BY <1>1, <1>2, <1>3, ExecCounts, Zenon DEF CountInv
<1> QED
  BY <1>1, <1>2, <1>3, <1>4, ExecFrames, ExecLeak, Zenon DEF SoundInv

-----------------------------------------------------------------------------
(* the refinement of private memories *)

\* exec leaves nothing of the old memory.
LEMMA ExecRefines ==
  ASSUME TypeOK, SoundInv, NEW p \in Procs, Exec(p)
  PROVE  Private!Exec(p)
<1>1. PICK t, l, f \in avail, v \in Values :
        /\ Cardinality({t, l, f}) = 3
        /\ avail' = avail \ {l, f}
        /\ ref' = [ref EXCEPT ![l] = 1, ![f] = 1]
        /\ inuse' = inuse + 2
        /\ mem' = [mem EXCEPT ![t] = Junk, ![l] = 0, ![f] = v]
        /\ list' = [list EXCEPT ![p] = [r \in Regions |-> IF r = 1 THEN l ELSE Null]]
        /\ vpi' = [vpi EXCEPT ![p] = [r \in Regions |-> IF r = 1 THEN Shared(f) ELSE NoPage]]
        /\ pte' = [pte EXCEPT ![p] = Rebuilt(vpi'[p])]
  BY Zenon DEF Exec
<1>2. st[p] = "active" /\ UNCHANGED <<cur, st>>
  BY Zenon DEF Exec, InUser, Running
<1>3. f \in Frames /\ f # Null /\ f \in Ppns
  BY FramesAssumption DEF TypeOK, Ppns
<1>4. \A q \in Procs, s \in Regions : vpi[q][s].ppn \notin {t, l, f}
  BY DEF SoundInv, FrameInv
<1>5. \A s \in Regions : vpi'[p][s].ppn = IF s = 1 THEN f ELSE Null
  <2>1. \A s \in Regions : vpi'[p][s] = IF s = 1 THEN Shared(f) ELSE NoPage
    BY <1>1 DEF TypeOK
  <2> QED
    BY <1>3, <2>1, InfoFacts
<1>6. \A q \in Procs : q # p => vpi'[q] = vpi[q]
  BY <1>1, Zenon DEF TypeOK
<1>7. mem'[f] = v /\ \A h \in Frames : h \notin {t, l, f} => mem'[h] = mem[h]
  BY <1>1, <1>3, Zenon DEF TypeOK
<1>8. ASSUME NEW q \in Procs, NEW s \in Regions
      PROVE  View(q, s)' = IF q = p THEN (IF s = 1 THEN v ELSE Null) ELSE View(q, s)
  <2>1. vpi[q][s].ppn \in Frames \cup {Null}
    BY PpnTypes, Zenon
  <2> QED
    <3>1. CASE q = p
      BY <1>2, <1>3, <1>5, <1>7, <3>1 DEF View
    <3>2. CASE q # p
      BY <1>2, <1>4, <1>6, <1>7, <2>1, <3>2 DEF View
    <3> QED
      BY <3>1, <3>2, Zenon
<1>9. aspace' = [aspace EXCEPT ![p] = [Private!NoMemory EXCEPT ![1] = v]]
  <2> DEFINE m == [Private!NoMemory EXCEPT ![1] = v]
  <2>1. m = [s \in Regions |-> m[s]] /\ \A s \in Regions : m[s] = IF s = 1 THEN v ELSE Null
    BY RegionFacts DEF Private!NoMemory
  <2> HIDE DEF m
  <2>2. \A q \in Procs, s \in Regions : View(q, s)' = IF q = p THEN m[s] ELSE View(q, s)
    BY <1>8, <2>1
  <2>3. aspace' = [aspace EXCEPT ![p] = m]
    BY <2>1, <2>2, WholeChange, Zenon
  <2> QED
    BY <2>3 DEF m
<1> QED
  BY <1>2, <1>9, Zenon DEF Private!Exec

\* kfree clears pages that nobody names any more.
LEMMA KfreeUnnoticed ==
  ASSUME TypeOK, SoundInv', NEW S \in SUBSET Frames, Kfree(S), UNCHANGED <<cur, damaged>>,
         \A q \in Procs : st'[q] = "active" <=> st[q] = "active",
         \A q \in Procs : st[q] = "active" => vpi'[q] = vpi[q]
  PROVE  UNCHANGED Private!vars
<1>1. \A q \in Procs, s \in Regions : st[q] = "active" => vpi[q][s].ppn \notin avail'
  BY Zenon DEF SoundInv, FrameInv
<1>2. \A f \in Frames : f \notin avail' => mem'[f] = mem[f]
  BY Zenon DEF Kfree
<1>3. ASSUME NEW q \in Procs, NEW s \in Regions PROVE View(q, s)' = View(q, s)
  <2>1. vpi[q][s].ppn \in Frames \cup {Null}
    BY PpnTypes, Zenon
  <2> QED
    BY <1>1, <1>2, <2>1, Zenon DEF View
<1> QED
  BY <1>3, Unnoticed
=============================================================================
