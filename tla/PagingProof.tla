---------------------------- MODULE PagingProof ----------------------------
(***************************************************************************)
(* Proofs about Paging: for any number of processes and threads, any size  *)
(* of a table and any amount of memory, and whatever addresses programs    *)
(* access, the spaces agree on the kernel, no frame has two entries, pages *)
(* stay where they are, and an access takes two faults at most. The facts  *)
(* need each other: a switch finds the right directory because all spaces  *)
(* share the kernel's tables, a fault leaves them alone because the frame  *)
(* that a table was given has no other use, and what one fault mapped is   *)
(* there for the next try because no other fault moves it.                 *)
(***************************************************************************)
EXTENDS Paging, TLAPS

Counts     == 0..ManyFaults
ProgramJob == [op : {"touch"}, addr : Touched, faults : Counts]
AccessJob  == [op : {"touch", "copy"}, addr : KernAddr \cup UserAddr, faults : Counts]
SyncJob    == [op : {"sync"}, addr : inUse, faults : Counts, proc : Proc]

\* Programs that were destroyed have no access under way, and the kernel has
\* one only while it runs.
JobsOK ==
    /\ job \in [AnyThread -> {NoJob} \cup ProgramJob \cup AccessJob \cup SyncJob]
    /\ \A t \in Thread : job[t] # NoJob => job[t] \in ProgramJob /\ Owner[t] \in Live
    /\ job[Ksetup] # NoJob =>
         /\ cur = Ksetup
         /\ \/ job[Ksetup] \in AccessJob
            \/ /\ job[Ksetup] \in SyncJob
               /\ space[job[Ksetup].proc] = None
               /\ \A q \in Live : space[q] # job[Ksetup].addr

TypeOK ==
    /\ cur \in AnyThread
    /\ mem \in [Frame -> [Slot -> Frame]]
    /\ cr3 \in Frame
    /\ p \in 1..KernStart
    /\ inUse \subseteq KernAddr
    /\ space \in [Proc -> inUse \cup {None}]
    /\ \A q, r \in Live : space[q] = space[r] => q = r
    /\ JobsOK

\* How many faults an access to a still takes in the space of directory d.
Missing(d, a) == IF mem[d][a[1]] = 0 THEN 2 ELSE IF Walk(d, a) = 0 THEN 1 ELSE 0

SpaceOf(t) == IF t = Ksetup THEN cr3 ELSE PdOf(Owner[t])

\* The faults an access took and those it still takes.
FaultsCounted == \A t \in AnyThread :
    Resolvable(t) => job[t].faults + Missing(SpaceOf(t), job[t].addr) =< 2

IInv == TypeOK /\ KernelShared /\ OwnSpace /\ OneUse /\ FaultsCounted

\* What a step leaves alone: tables stay in directories, and pages in tables.
MappingsKept == \A d \in Pds : \A a \in UserAddr \cup KernAddr :
    /\ mem[d][a[1]] # 0 => mem'[d][a[1]] # 0
    /\ Walk(d, a) # 0 => Walk(d, a)' = Walk(d, a)

-----------------------------------------------------------------------------
(* What the invariant says of frames                                       *)

LEMMA Shape ==
    /\ KernSlot \subseteq Slot /\ UserSlot \subseteq Slot /\ Last \in Slot
    /\ Last \notin KernSlot /\ Last \notin UserSlot
    /\ KernSlot \cap UserSlot = {}
    /\ KernPd = KernStart /\ KernPd \in Frame /\ KernPd > 0 /\ 0 \in Frame
    /\ 0 \in KernSlot
    /\ \A i \in KernSlot : KernTable(i) \in Frame /\ KernTable(i) > KernStart /\ KernTable(i) # 0
    /\ \A i, j \in KernSlot : KernTable(i) = KernTable(j) => i = j
    /\ \A n \in 1..KernStart : n \in Frame
BY PagingAssumption DEF KernSlot, UserSlot, Slot, KernPd, KernTable, Frame

\* An entry in use, by its frame and its index.
LEMMA TwoEntries ==
    ASSUME OneUse,
           NEW f, NEW i, NEW g, NEW j,
           <<f, i>> \in Entries, <<g, j>> \in Entries,
           mem[f][i] = mem[g][j], mem[f][i] # 0
    PROVE  f = g /\ i = j /\ mem[f][i] < p
<1>1. /\ At(<<f, i>>) = mem[f][i]
      /\ At(<<g, j>>) = mem[g][j]
  BY DEF At
<1>2. <<g, j>> = <<f, i>> /\ At(<<f, i>>) < p
  BY <1>1 DEF OneUse
<1> QED  BY <1>1, <1>2

LEMMA KernelEntry ==
    ASSUME NEW i \in KernSlot, NEW j \in Slot
    PROVE  <<KernTable(i), j>> \in Entries
BY DEF Entries, KernTables

\* The directories of the processes are frames that were handed out.
LEMMA Directories ==
    ASSUME IInv, NEW q \in Live
    PROVE  /\ q \in Proc
           /\ space[q] \in inUse
           /\ space[q][1] \in KernSlot
           /\ space[q][2] \in Slot
           /\ space[q] = <<space[q][1], space[q][2]>>
           /\ PdOf(q) = mem[KernTable(space[q][1])][space[q][2]]
           /\ PdOf(q) # 0
           /\ PdOf(q) < p
           /\ PdOf(q) \in Frame
<1>1. q \in Proc /\ space[q] \in inUse /\ space[q] \in KernAddr
  BY DEF IInv, TypeOK, Live
<1>2. space[q][1] \in KernSlot /\ space[q][2] \in Slot /\ space[q] = <<space[q][1], space[q][2]>>
  BY <1>1 DEF KernAddr
<1>3. mem[KernPd][space[q][1]] = KernTable(space[q][1]) /\ PdOf(q) # 0
  BY <1>2 DEF IInv, KernelShared, OwnSpace, Pds
<1>4. KernTable(space[q][1]) # 0 /\ KernTable(space[q][1]) \in Frame
  BY <1>2, Shape
<1>5. PdOf(q) = mem[KernTable(space[q][1])][space[q][2]]
  BY <1>3, <1>4 DEF PdOf, Walk
<1>6. PdOf(q) < p
  <2>1. <<KernTable(space[q][1]), space[q][2]>> \in Entries
    BY <1>2, KernelEntry
  <2> QED  BY <2>1, <1>3, <1>5, TwoEntries DEF IInv
<1>7. PdOf(q) \in Frame
  BY <1>2, <1>4, <1>5 DEF IInv, TypeOK
<1> QED  BY <1>1, <1>2, <1>3, <1>5, <1>6, <1>7

LEMMA OwnDirectory ==
    ASSUME IInv, NEW q \in Live, NEW r \in Live, PdOf(q) = PdOf(r)
    PROVE  q = r
<1>1. KernTable(space[q][1]) = KernTable(space[r][1]) /\ space[q][2] = space[r][2]
  <2>1. /\ <<KernTable(space[q][1]), space[q][2]>> \in Entries
        /\ <<KernTable(space[r][1]), space[r][2]>> \in Entries
    BY Directories, KernelEntry
  <2>2. /\ mem[KernTable(space[q][1])][space[q][2]] = mem[KernTable(space[r][1])][space[r][2]]
        /\ mem[KernTable(space[q][1])][space[q][2]] # 0
    BY Directories
  <2> QED  BY <2>1, <2>2, TwoEntries DEF IInv
<1>2. space[q] = space[r]
  BY <1>1, Directories, Shape
<1> QED  BY <1>2 DEF IInv, TypeOK

\* Directories, tables of programs and tables of the kernel are different
\* frames.
LEMMA Kinds ==
    ASSUME IInv
    PROVE  /\ \A d \in Pds : d \in Frame /\ d # 0 /\ (d = KernPd \/ d < p) /\ d \notin KernTables
           /\ \A t \in UserTables : t \in Frame /\ t # 0 /\ t < p /\ t \notin Pds /\ t \notin KernTables
           /\ KernTables \subseteq Frame
<1>p. p \in Int /\ p =< KernStart /\ KernStart \in Int
  BY PagingAssumption DEF IInv, TypeOK
<1>1. ASSUME NEW d \in Pds PROVE d \in Frame /\ d # 0 /\ (d = KernPd \/ d < p) /\ d \notin KernTables
  <2>1. d \in Frame /\ d # 0 /\ (d = KernPd \/ d < p)
    BY <1>p, Shape, Directories DEF Pds
  <2>2. d \in Int /\ d =< KernStart
    BY <2>1, <1>p, Shape, PagingAssumption DEF Frame
  <2> QED  BY <2>1, <2>2, <1>p, Shape DEF KernTables
<1>2. ASSUME NEW t \in UserTables
      PROVE  t \in Frame /\ t # 0 /\ t < p /\ t \notin Pds /\ t \notin KernTables
  <2>1. PICK d \in Pds, i \in UserSlot : t = mem[d][i]
    BY DEF UserTables, At
  <2>2. t # 0 /\ <<d, i>> \in Entries
    BY DEF UserTables, Entries
  <2>3. t < p
    BY <2>1, <2>2, TwoEntries DEF IInv
  <2>4. t \in Frame /\ t \in Int
    BY <1>1, <2>1, Shape, PagingAssumption DEF IInv, TypeOK, Frame
  <2>5. t # KernPd /\ t \notin KernTables
    BY <2>3, <2>4, <1>p, Shape DEF KernTables
  <2>6. ASSUME NEW q \in Live, t = PdOf(q) PROVE FALSE
    <3>1. d = KernTable(space[q][1])
      <4>1. <<KernTable(space[q][1]), space[q][2]>> \in Entries
        BY Directories, KernelEntry
      <4>2. mem[d][i] = mem[KernTable(space[q][1])][space[q][2]] /\ mem[d][i] # 0
        BY <2>1, <2>2, <2>6, Directories
      <4> QED  BY <2>2, <4>1, <4>2, TwoEntries DEF IInv
    <3> QED  BY <3>1, <1>1, Directories DEF KernTables
  <2> QED  BY <2>2, <2>3, <2>4, <2>5, <2>6 DEF Pds
<1>3. KernTables \subseteq Frame
  BY Shape DEF KernTables
<1> QED  BY <1>1, <1>2, <1>3

LEMMA EntryType ==
    ASSUME IInv, NEW e \in Entries
    PROVE  e[1] \in Frame /\ e[2] \in Slot /\ At(e) \in Frame /\ At(e) \in Int
<1>1. e[1] \in Frame /\ e[2] \in Slot
  BY Kinds, Shape DEF Entries
<1>2. At(e) \in Frame
  BY <1>1 DEF At, IInv, TypeOK
<1> QED  BY <1>1, <1>2, PagingAssumption DEF Frame

LEMMA KernelWalk ==
    ASSUME IInv, NEW d \in Pds, NEW a \in KernAddr
    PROVE  /\ a[1] \in KernSlot /\ a[2] \in Slot /\ a = <<a[1], a[2]>>
           /\ Walk(d, a) = mem[KernTable(a[1])][a[2]]
<1>1. a[1] \in KernSlot /\ a[2] \in Slot /\ a = <<a[1], a[2]>>
  BY DEF KernAddr
<1>2. mem[d][a[1]] = KernTable(a[1]) /\ KernTable(a[1]) # 0
  BY <1>1, Shape DEF IInv, KernelShared, OwnSpace
<1> QED  BY <1>1, <1>2 DEF Walk

LEMMA JobAddress ==
    ASSUME IInv, NEW t \in AnyThread, job[t] # NoJob
    PROVE  /\ job[t].addr[1] \in Slot /\ job[t].addr[2] \in Slot
           /\ job[t].addr[1] # Last => job[t].addr[1] \in KernSlot \cup UserSlot
           /\ job[t].faults \in Counts
<1>1. job[t] \in ProgramJob \cup AccessJob \cup SyncJob
  BY DEF IInv, TypeOK, JobsOK
<1>2. job[t].addr \in Touched \cup KernAddr \cup UserAddr /\ job[t].faults \in Counts
  BY <1>1 DEF ProgramJob, AccessJob, SyncJob, IInv, TypeOK
<1>3. job[t].addr[1] \in Slot /\ job[t].addr[2] \in Slot
  BY <1>2, Shape, PagingAssumption DEF KernAddr, UserAddr, Slot
<1> QED  BY <1>2, <1>3, PagingAssumption DEF Slot, KernSlot, UserSlot

\* What a step may do to the entries in use: give one the next frame.
LEMMA KeepsApart ==
    ASSUME IInv, NEW e0,
           p' \in {p, p + 1},
           \A e \in Entries' :
               \/ mem'[e[1]][e[2]] = 0
               \/ e \in Entries /\ mem'[e[1]][e[2]] = mem[e[1]][e[2]]
               \/ e = e0 /\ mem'[e[1]][e[2]] = p /\ p' = p + 1
    PROVE  OneUse'
<1>1. p \in Int
  BY PagingAssumption DEF IInv, TypeOK
<1>2. \A e \in Entries : At(e) \in Int
  BY EntryType
<1>3. ASSUME NEW e \in Entries', At(e)' # 0
      PROVE  At(e)' < p'
  BY <1>1, <1>2, <1>3 DEF IInv, OneUse, At
<1>4. ASSUME NEW e \in Entries', At(e)' # 0, NEW g \in Entries', At(g)' = At(e)'
      PROVE  g = e
  BY <1>1, <1>2, <1>4 DEF IInv, OneUse, At
<1> QED  BY <1>3, <1>4 DEF OneUse

\* Steps that leave memory and spaces alone.
LEMMA SameMemory ==
    ASSUME IInv, mem' = mem, space' = space, p' \in {p, p + 1}
    PROVE  /\ Live' = Live /\ Pds' = Pds /\ \A q \in Live : PdOf(q)' = PdOf(q)
           /\ KernelShared' /\ OneUse' /\ MappingsKept
<1>1. Live' = Live /\ Pds' = Pds /\ \A q \in Live : PdOf(q)' = PdOf(q)
  BY DEF Pds, Live, PdOf, Walk
<1>2. Entries' = Entries
  BY <1>1 DEF Entries, UserTables, At
<1>3. KernelShared' /\ MappingsKept
  BY <1>1 DEF IInv, KernelShared, MappingsKept, Walk
<1>4. OneUse'
  <2>1. \A e \in Entries' :
            \/ mem'[e[1]][e[2]] = 0
            \/ e \in Entries /\ mem'[e[1]][e[2]] = mem[e[1]][e[2]]
            \/ e = 0 /\ mem'[e[1]][e[2]] = p /\ p' = p + 1
    BY <1>2
  <2> QED  BY <2>1, KeepsApart
<1> QED  BY <1>1, <1>3, <1>4

-----------------------------------------------------------------------------
(* The steps that change memory                                            *)

\* The next frame has no use yet.
LEMMA NextFrameUnused ==
    ASSUME IInv, p < KernStart
    PROVE  /\ p \in Frame /\ p # 0 /\ p + 1 \in 1..KernStart
           /\ p \notin Pds /\ p \notin UserTables /\ p \notin KernTables
<1>1. p \in Int /\ p >= 1 /\ KernStart \in Int
  BY PagingAssumption DEF IInv, TypeOK
<1>2. p \notin Pds
  BY <1>1, Kinds, Shape
<1>3. p \notin UserTables
  BY <1>1, Kinds
<1>4. p \notin KernTables
  BY <1>1, Shape DEF KernTables
<1> QED  BY <1>1, <1>2, <1>3, <1>4, Shape

\* What every fault does, as long as the frames below the kernel last.
LEMMA FaultStep ==
    ASSUME IInv, NEW th \in AnyThread, Fault(th), BelowKernel'
    PROVE  /\ cur = th /\ cur' = cur /\ cr3' = cr3 /\ space' = space /\ inUse' = inUse
           /\ p < KernStart /\ p' = p + 1 /\ p + 1 \in 1..KernStart
           /\ job[th] # NoJob /\ ~ Reached(job[th].addr)
           /\ \/ Internal(job[th].addr) /\ MapTable(job[th].addr)
              \/ External(job[th].addr) /\ MapPage(job[th].addr)
              \/ ~ Internal(job[th].addr) /\ ~ External(job[th].addr) /\ mem' = mem
<1>1. p \in Int /\ p >= 1 /\ p' = p + 1 /\ p' =< KernStart
  BY DEF Fault, NextFrame, BelowKernel, IInv, TypeOK
<1>2. p < KernStart /\ p + 1 \in 1..KernStart
  BY <1>1, PagingAssumption
<1> QED  BY <1>1, <1>2 DEF Fault, Running

LEMMA TableOf ==
    ASSUME IInv, NEW d \in Pds, NEW i \in KernSlot \cup UserSlot, mem[d][i] # 0
    PROVE  mem[d][i] \in UserTables \cup KernTables /\ mem[d][i] \in Frame
<1>1. CASE i \in KernSlot
  BY <1>1, Shape DEF KernTables, IInv, KernelShared, OwnSpace
<1>2. CASE i \in UserSlot
  <2>1. <<d, i>> \in Pds \X UserSlot /\ At(<<d, i>>) = mem[d][i]
    BY <1>2 DEF At
  <2>2. mem[d][i] \in UserTables
    BY <2>1 DEF UserTables
  <2> QED  BY <2>2, Kinds
<1> QED  BY <1>1, <1>2

LEMMA TableStep ==
    ASSUME IInv, NEW th \in AnyThread, Fault(th), BelowKernel',
           Internal(job[th].addr), MapTable(job[th].addr)
    PROVE  /\ mem' \in [Frame -> [Slot -> Frame]]
           /\ Pds' = Pds /\ \A q \in Live : PdOf(q)' = PdOf(q)
           /\ KernelShared' /\ OneUse' /\ MappingsKept
           /\ mem'[cr3][job[th].addr[1]] # 0
<1> DEFINE s == job[th].addr[1]
<1>1. /\ p \in Frame /\ p # 0 /\ cr3 \in Pds /\ cr3 \in Frame /\ cr3 # p
      /\ p \notin Pds /\ p \notin UserTables /\ p \notin KernTables
      /\ cr3 \notin KernTables /\ cr3 \notin UserTables
  BY FaultStep, NextFrameUnused, Kinds DEF IInv, OwnSpace
<1>2. s \in UserSlot /\ s \in Slot /\ s # Last /\ s \notin KernSlot /\ mem[cr3][s] = 0
  BY <1>1, FaultStep, JobAddress, Shape DEF Internal, IInv, KernelShared
<1>3. /\ mem' \in [Frame -> [Slot -> Frame]]
      /\ \A f \in Frame, i \in Slot :
           mem'[f][i] = IF f = p THEN 0 ELSE IF f = cr3 /\ i = s THEN p ELSE mem[f][i]
  BY <1>1, <1>2, Shape DEF MapTable, Empty, IInv, TypeOK
<1>4. \A k \in KernTables, j \in Slot : mem'[k][j] = mem[k][j]
  BY <1>1, <1>3, Kinds
<1>5. \A d \in Pds, i \in Slot : i # s => mem'[d][i] = mem[d][i]
  BY <1>1, <1>3, Kinds
<1>6. ASSUME NEW q \in Live PROVE PdOf(q)' = PdOf(q)
  <2>1. mem'[KernPd][space[q][1]] = KernTable(space[q][1])
    BY <1>2, <1>5, Directories, Shape DEF IInv, KernelShared, OwnSpace, Pds
  <2>2. mem'[KernTable(space[q][1])][space[q][2]] = mem[KernTable(space[q][1])][space[q][2]]
    BY <1>4, Directories DEF KernTables
  <2>3. KernTable(space[q][1]) # 0
    BY Directories, Shape
  <2> QED  BY <2>1, <2>2, <2>3, Directories, FaultStep DEF PdOf, Walk
<1>7. Pds' = Pds
  BY <1>6, FaultStep DEF Pds, Live
<1>8. KernelShared'
  BY <1>1, <1>2, <1>5, <1>7, Shape DEF IInv, KernelShared
<1>9. \A t \in UserTables' : t \in UserTables \cup {p}
  <2>1. SUFFICES ASSUME NEW d \in Pds, NEW i \in UserSlot, mem'[d][i] # 0
                 PROVE  mem'[d][i] \in UserTables \cup {p}
    BY <1>7 DEF UserTables, At
  <2>2. d \in Frame /\ d # p /\ i \in Slot
    BY <1>1, Kinds, Shape
  <2>3. mem'[d][i] = p \/ mem'[d][i] = mem[d][i]
    BY <1>3, <2>2
  <2>4. mem[d][i] # 0 => mem[d][i] \in UserTables
    <3>1. <<d, i>> \in Pds \X UserSlot /\ At(<<d, i>>) = mem[d][i]
      BY DEF At
    <3> QED  BY <3>1 DEF UserTables
  <2> QED  BY <2>1, <2>3, <2>4
<1>10. OneUse'
  <2>1. PICK e0 : e0 = <<cr3, s>>
    OBVIOUS
  <2>2. ASSUME NEW e \in Entries'
        PROVE  \/ mem'[e[1]][e[2]] = 0
               \/ e \in Entries /\ mem'[e[1]][e[2]] = mem[e[1]][e[2]]
               \/ e = e0 /\ mem'[e[1]][e[2]] = p /\ p' = p + 1
    <3>1. \/ e \in Entries
          \/ e \in {p} \X Slot
      BY <1>7, <1>9 DEF Entries
    <3>2. CASE e \in {p} \X Slot
      BY <3>2, <1>1, <1>3
    <3>3. CASE e \in Entries
      <4>1. e[1] \in Frame /\ e[2] \in Slot /\ e = <<e[1], e[2]>> /\ e[1] # p
        BY <3>3, <1>1, EntryType DEF Entries
      <4> QED  BY <2>1, <3>3, <4>1, <1>3, FaultStep
    <3> QED  BY <3>1, <3>2, <3>3
  <2>3. p' = p + 1
    BY FaultStep
  <2> HIDE DEF s
  <2> QED  BY <2>2, <2>3, KeepsApart
<1>11. ASSUME NEW d \in Pds, NEW a \in UserAddr \cup KernAddr, Walk(d, a) # 0
       PROVE  Walk(d, a)' = Walk(d, a)
  <2>1. a[1] \in Slot /\ a[2] \in Slot /\ a[1] \in KernSlot \cup UserSlot
    BY Shape DEF UserAddr, KernAddr
  <2>2. mem[d][a[1]] # 0 /\ mem[d][a[1]] \in Frame /\ d \in Frame
    BY <1>11, <2>1, Kinds DEF Walk, IInv, TypeOK
  <2>3. mem'[d][a[1]] = mem[d][a[1]]
    BY <1>1, <1>2, <1>3, <2>1, <2>2
  <2>4. mem[d][a[1]] \in UserTables \cup KernTables
    <3>1. CASE a[1] \in KernSlot
      BY <3>1, Shape DEF KernTables, IInv, KernelShared, OwnSpace
    <3>2. CASE a[1] \in UserSlot
      <4>1. <<d, a[1]>> \in Pds \X UserSlot /\ At(<<d, a[1]>>) = mem[d][a[1]]
        BY <3>2 DEF At
      <4> QED  BY <2>2, <4>1 DEF UserTables
    <3> QED  BY <2>1, <3>1, <3>2
  <2>5. mem[d][a[1]] # p /\ mem[d][a[1]] # cr3
    BY <2>4, <1>1
  <2>6. mem'[mem[d][a[1]]][a[2]] = mem[mem[d][a[1]]][a[2]]
    BY <1>3, <2>1, <2>2, <2>5
  <2> QED  BY <2>2, <2>3, <2>6 DEF Walk
<1>12. ASSUME NEW d \in Pds, NEW i \in KernSlot \cup UserSlot, mem[d][i] # 0
       PROVE  mem'[d][i] # 0
  <2>1. i \in Slot /\ d \in Frame /\ d # p
    BY <1>1, Kinds, Shape
  <2>2. mem'[d][i] = mem[d][i]
    BY <1>1, <1>2, <1>3, <1>12, <2>1
  <2> QED  BY <1>12, <2>2
<1>13. MappingsKept
  <2>1. \A a \in UserAddr \cup KernAddr : a[1] \in KernSlot \cup UserSlot
    BY DEF UserAddr, KernAddr
  <2> QED  BY <2>1, <1>11, <1>12 DEF MappingsKept
<1>14. mem'[cr3][s] # 0
  BY <1>1, <1>2, <1>3
<1> QED  BY <1>3, <1>6, <1>7, <1>8, <1>10, <1>13, <1>14

LEMMA PageStep ==
    ASSUME IInv, NEW th \in AnyThread, Fault(th), BelowKernel',
           External(job[th].addr), MapPage(job[th].addr)
    PROVE  /\ mem' \in [Frame -> [Slot -> Frame]]
           /\ Pds' = Pds /\ \A q \in Live : PdOf(q)' = PdOf(q)
           /\ KernelShared' /\ OneUse' /\ MappingsKept
           /\ mem'[cr3][job[th].addr[1]] # 0
           /\ mem'[mem'[cr3][job[th].addr[1]]][job[th].addr[2]] # 0
<1> DEFINE s == job[th].addr[1]
           j == job[th].addr[2]
           t == mem[cr3][s]
<1>1. p \in Frame /\ p # 0 /\ cr3 \in Pds
  BY FaultStep, NextFrameUnused DEF IInv, OwnSpace
<1>2. s \in KernSlot \cup UserSlot /\ j \in Slot /\ t # 0 /\ mem[t][j] = 0
  BY FaultStep, JobAddress DEF External, Internal, ToPhys, Walk
<1>3. t \in UserTables \cup KernTables /\ t \in Frame /\ t \notin Pds
  BY <1>1, <1>2, TableOf, Kinds
<1>4. /\ mem' \in [Frame -> [Slot -> Frame]]
      /\ \A f \in Frame, i \in Slot : mem'[f][i] = IF f = t /\ i = j THEN p ELSE mem[f][i]
  BY <1>1, <1>2, <1>3 DEF MapPage, IInv, TypeOK
<1>5. \A d \in Pds, i \in Slot : mem'[d][i] = mem[d][i]
  BY <1>3, <1>4, Kinds
<1>6. ASSUME NEW q \in Live PROVE PdOf(q)' = PdOf(q)
  <2>1. mem'[KernPd][space[q][1]] = KernTable(space[q][1])
    BY <1>5, Directories, Shape DEF IInv, KernelShared, OwnSpace, Pds
  <2>2. mem'[KernTable(space[q][1])][space[q][2]] = mem[KernTable(space[q][1])][space[q][2]]
    <3>1. /\ KernTable(space[q][1]) \in Frame /\ space[q][2] \in Slot
          /\ mem[KernTable(space[q][1])][space[q][2]] # 0
      BY Directories, Shape
    <3>2. ~ (KernTable(space[q][1]) = t /\ space[q][2] = j)
      BY <1>2, <3>1
    <3> HIDE DEF s, j, t
    <3> QED  BY <1>4, <3>1, <3>2
  <2>3. KernTable(space[q][1]) # 0
    BY Directories, Shape
  <2> QED  BY <2>1, <2>2, <2>3, Directories, FaultStep DEF PdOf, Walk
<1>7. Pds' = Pds
  BY <1>6, FaultStep DEF Pds, Live
<1>8. KernelShared'
  BY <1>1, <1>5, <1>7, Shape DEF IInv, KernelShared
<1>9. UserTables' = UserTables
  BY <1>5, <1>7, Shape DEF UserTables, At
<1>10. OneUse'
  <2>1. PICK e0 : e0 = <<t, j>>
    OBVIOUS
  <2>2. ASSUME NEW e \in Entries'
        PROVE  \/ mem'[e[1]][e[2]] = 0
               \/ e \in Entries /\ mem'[e[1]][e[2]] = mem[e[1]][e[2]]
               \/ e = e0 /\ mem'[e[1]][e[2]] = p /\ p' = p + 1
    <3>1. e \in Entries
      BY <1>7, <1>9 DEF Entries
    <3>2. e[1] \in Frame /\ e[2] \in Slot /\ e = <<e[1], e[2]>>
      BY <3>1, EntryType DEF Entries
    <3> QED  BY <2>1, <3>1, <3>2, <1>4, FaultStep
  <2>3. p' = p + 1
    BY FaultStep
  <2> HIDE DEF s, j, t
  <2> QED  BY <2>2, <2>3, KeepsApart
<1>11. ASSUME NEW d \in Pds, NEW a \in UserAddr \cup KernAddr, Walk(d, a) # 0
       PROVE  Walk(d, a)' = Walk(d, a)
  <2>1. a[2] \in Slot /\ a[1] \in Slot /\ a[1] \in KernSlot \cup UserSlot
    BY Shape DEF UserAddr, KernAddr
  <2>2. mem[d][a[1]] # 0 /\ mem[mem[d][a[1]]][a[2]] # 0 /\ mem[d][a[1]] \in Frame
    BY <1>11, <2>1, TableOf DEF Walk
  <2>3. mem'[mem[d][a[1]]][a[2]] = mem[mem[d][a[1]]][a[2]]
    BY <1>2, <1>4, <2>1, <2>2
  <2> QED  BY <1>5, <2>1, <2>2, <2>3 DEF Walk
<1>12. MappingsKept
  <2>1. \A a \in UserAddr \cup KernAddr : a[1] \in Slot
    BY Shape DEF UserAddr, KernAddr
  <2> QED  BY <2>1, <1>5, <1>11 DEF MappingsKept
<1>13. mem'[cr3][s] # 0 /\ mem'[mem'[cr3][s]][j] # 0
  BY <1>1, <1>2, <1>3, <1>4, <1>5, Shape
<1> QED  BY <1>4, <1>6, <1>7, <1>8, <1>10, <1>12, <1>13

LEMMA SyncStep ==
    ASSUME IInv, Sync
    PROVE  /\ mem' \in [Frame -> [Slot -> Frame]]
           /\ Pds \subseteq Pds' /\ Live \subseteq Live' /\ \A q \in Live : PdOf(q)' = PdOf(q)
           /\ KernelShared' /\ OneUse' /\ MappingsKept
<1>0. PICK x, f, r : x = job[Ksetup].addr /\ f = ToPhys(x) /\ r = job[Ksetup].proc
  OBVIOUS
<1>1. /\ x \in KernAddr /\ x \in inUse /\ r \in Proc /\ space[r] = None /\ cr3 \in Pds
      /\ \A q \in Live : space[q] # x
  <2>1. job[Ksetup] # NoJob /\ job[Ksetup].op = "sync"
    BY DEF Sync
  <2>2. job[Ksetup] \in SyncJob
    BY <2>1 DEF IInv, TypeOK, JobsOK, AccessJob
  <2>3. x \in inUse /\ r \in Proc
    BY <1>0, <2>2 DEF SyncJob
  <2>4. space[r] = None /\ \A q \in Live : space[q] # x
    BY <1>0, <2>1, <2>2 DEF IInv, TypeOK, JobsOK, AccessJob
  <2> QED  BY <2>3, <2>4 DEF IInv, TypeOK, OwnSpace
<1>2. /\ x[1] \in KernSlot /\ x[2] \in Slot /\ x = <<x[1], x[2]>>
      /\ f = mem[KernTable(x[1])][x[2]] /\ f # 0
  BY <1>0, <1>1, KernelWalk DEF ToPhys, Sync
<1>3. <<KernTable(x[1]), x[2]>> \in Entries
  BY <1>2, KernelEntry
<1>4. f < p /\ f \in Frame /\ f # KernPd /\ f \notin KernTables
  <2>1. f < p
    BY <1>2, <1>3, TwoEntries DEF IInv
  <2>2. f \in Frame
    BY <1>2, Shape DEF IInv, TypeOK
  <2>3. f \in Int /\ p \in Int /\ p =< KernStart /\ KernStart \in Int
    BY <2>2, PagingAssumption DEF Frame, IInv, TypeOK
  <2> QED  BY <2>1, <2>2, <2>3, Shape DEF KernTables
<1>5. f \notin Pds
  <2>1. ASSUME NEW q \in Live, PdOf(q) = f PROVE FALSE
    <3>1. <<KernTable(space[q][1]), space[q][2]>> \in Entries
      BY Directories, KernelEntry
    <3>2. KernTable(space[q][1]) = KernTable(x[1]) /\ space[q][2] = x[2]
      BY <1>2, <1>3, <2>1, <3>1, Directories, TwoEntries DEF IInv
    <3> QED  BY <1>1, <1>2, <3>2, Directories, Shape
  <2> QED  BY <1>4, <2>1 DEF Pds
<1>6. f \notin UserTables
  <2>1. ASSUME NEW d \in Pds, NEW i \in UserSlot, mem[d][i] = f PROVE FALSE
    <3>1. <<d, i>> \in Entries
      BY DEF Entries
    <3>2. d = KernTable(x[1])
      BY <1>2, <1>3, <2>1, <3>1, TwoEntries DEF IInv
    <3> QED  BY <1>2, <3>2, Kinds DEF KernTables
  <2> QED  BY <2>1 DEF UserTables, At
<1>7. Synced(f) \in [Slot -> Frame]
  BY <1>4, Shape DEF Synced, IInv, TypeOK
<1>8. /\ mem' \in [Frame -> [Slot -> Frame]]
      /\ mem'[f] = Synced(f)
      /\ \A g \in Frame : g # f => mem'[g] = mem[g]
  BY <1>0, <1>4, <1>7 DEF Sync, IInv, TypeOK
<1>9. space' = [space EXCEPT ![r] = x] /\ p' = p /\ cr3' = cr3
  BY <1>0 DEF Sync
<1>10. Live' = Live \cup {r}
  <2>1. x # None
    BY <1>1, PagingAssumption DEF KernAddr, KernSlot, Slot
  <2> QED  BY <1>1, <1>9, <2>1 DEF Live, IInv, TypeOK
<1>11. ASSUME NEW d \in Pds, NEW a \in UserAddr \cup KernAddr, Walk(d, a) # 0
       PROVE  Walk(d, a)' = Walk(d, a)
  <2>1. a[1] \in KernSlot \cup UserSlot
    BY DEF UserAddr, KernAddr
  <2>2. mem[d][a[1]] # 0
    BY <1>11 DEF Walk
  <2>3. mem[d][a[1]] \in UserTables \cup KernTables /\ mem[d][a[1]] \in Frame
    BY <2>1, <2>2, TableOf
  <2>4. mem'[d] = mem[d] /\ mem'[mem[d][a[1]]] = mem[mem[d][a[1]]]
    BY <1>4, <1>5, <1>6, <1>8, <2>3, Kinds
  <2> QED  BY <2>4 DEF Walk
<1>12. ASSUME NEW q \in Live PROVE PdOf(q)' = PdOf(q) /\ q # r
  <2>1. q # r /\ space'[q] = space[q]
    BY <1>1, <1>9, Directories DEF Live
  <2>2. space[q] \in KernAddr /\ KernPd \in Pds
    BY Directories DEF IInv, TypeOK, Pds
  <2>4. Walk(KernPd, space[q]) # 0
    BY Directories DEF PdOf
  <2>5. \A a \in KernAddr : Walk(KernPd, a) # 0 =>
           (IF mem'[KernPd][a[1]] = 0 THEN 0 ELSE mem'[mem'[KernPd][a[1]]][a[2]]) = Walk(KernPd, a)
    BY <1>11, <2>2 DEF Walk
  <2> QED  BY <2>1, <2>2, <2>4, <2>5 DEF PdOf, Walk
<1>13. PdOf(r)' = f
  <2>1. space'[r] = x
    BY <1>1, <1>9 DEF IInv, TypeOK
  <2>2. mem'[KernPd][x[1]] = KernTable(x[1]) /\ mem'[KernTable(x[1])] = mem[KernTable(x[1])]
    <3>1. mem[KernPd][x[1]] = KernTable(x[1]) /\ KernTable(x[1]) # f /\ KernTable(x[1]) \in Frame
      BY <1>2, <1>4, Shape DEF KernTables, IInv, KernelShared, OwnSpace, Pds
    <3>2. KernPd # f /\ KernPd \in Frame
      BY <1>4, Shape
    <3> QED  BY <1>8, <3>1, <3>2
  <2>3. KernTable(x[1]) # 0
    BY <1>2, Shape
  <2> QED  BY <1>2, <2>1, <2>2, <2>3 DEF PdOf, Walk
<1>14. Pds' = Pds \cup {f}
  <2>1. Pds' = {KernPd} \cup {PdOf(q)' : q \in Live'}
    BY DEF Pds
  <2>2. {PdOf(q)' : q \in Live'} = {PdOf(q) : q \in Live} \cup {f}
    <3> QED  BY <1>10, <1>12, <1>13
  <2> QED  BY <2>1, <2>2 DEF Pds
<1>15. KernelShared'
  <2>1. \A i \in KernSlot : mem'[f][i] = KernTable(i)
    <3>1. \A i \in KernSlot : i \in Slot /\ mem[KernPd][i] = KernTable(i)
      BY Shape DEF IInv, KernelShared, OwnSpace, Pds
    <3>2. \A i \in KernSlot : Synced(f)[i] = mem[KernPd][i]
      BY <3>1, Shape DEF Synced
    <3> QED  BY <1>8, <3>1, <3>2
  <2>2. mem'[f][Last] = f
    BY <1>8, Shape DEF Synced
  <2>3. \A d \in Pds : mem'[d] = mem[d]
    BY <1>5, <1>8, Kinds
  <2> QED  BY <1>2, <1>14, <2>1, <2>2, <2>3 DEF IInv, KernelShared
<1>16. \A i \in UserSlot : mem'[f][i] = 0
  BY <1>8, Shape DEF Synced
<1>17. UserTables' = UserTables
  <2>1. \A d \in Pds : mem'[d] = mem[d]
    BY <1>5, <1>8, Kinds
  <2> QED  BY <1>14, <1>16, <2>1 DEF UserTables, At
<1>18. OneUse'
  <2>1. ASSUME NEW e \in Entries'
        PROVE  \/ mem'[e[1]][e[2]] = 0
               \/ e \in Entries /\ mem'[e[1]][e[2]] = mem[e[1]][e[2]]
               \/ e = 0 /\ mem'[e[1]][e[2]] = p /\ p' = p + 1
    <3>1. e \in Entries \/ e \in {f} \X UserSlot
      BY <1>14, <1>17 DEF Entries
    <3>2. CASE e \in {f} \X UserSlot
      BY <3>2, <1>16
    <3>3. CASE e \in Entries
      <4>1. e[1] \in Pds \cup UserTables \cup KernTables
        BY <3>3 DEF Entries
      <4>2. e[1] # f /\ e[1] \in Frame
        BY <4>1, <1>4, <1>5, <1>6, Kinds
      <4> QED  BY <3>3, <4>2, <1>8
    <3> QED  BY <3>1, <3>2, <3>3
  <2>2. p' \in {p, p + 1}
    BY <1>9
  <2> QED  BY <2>1, <2>2, KeepsApart
<1>19. MappingsKept
  <2>1. \A d \in Pds : mem'[d] = mem[d]
    BY <1>5, <1>8, Kinds
  <2> QED  BY <2>1, <1>11 DEF MappingsKept
<1> QED  BY <1>8, <1>10, <1>12, <1>14, <1>15, <1>18, <1>19

-----------------------------------------------------------------------------
(* The invariant                                                           *)

LEMMA InitOK == Init => IInv
<1> SUFFICES ASSUME Init PROVE IInv
  OBVIOUS
<1>1. Live = {} /\ Pds = {KernPd}
  BY DEF Init, Live, Pds
<1>2. mem \in [Frame -> [Slot -> Frame]]
  <2>1. Garbage \in [Slot -> Frame] /\ Empty \in [Slot -> Frame]
    BY Shape DEF Garbage, Empty
  <2>2. [i \in Slot |-> CASE i \in KernSlot -> KernTable(i)
                         [] i = Last       -> KernPd
                         [] OTHER          -> 0] \in [Slot -> Frame]
    BY Shape
  <2> QED  BY <2>1, <2>2 DEF Init
<1>3. TypeOK /\ FaultsCounted
  <2>1. job = [t \in AnyThread |-> NoJob] /\ Ksetup \in AnyThread /\ Thread \subseteq AnyThread
    BY DEF Init, AnyThread
  <2>2. JobsOK /\ FaultsCounted
    BY <2>1 DEF JobsOK, FaultsCounted, Resolvable
  <2> QED  BY <1>1, <1>2, <2>1, <2>2, Shape, PagingAssumption DEF Init, TypeOK, Live
<1>4. /\ \A i \in KernSlot : mem[KernPd][i] = KernTable(i)
      /\ mem[KernPd][Last] = KernPd
      /\ \A i \in UserSlot : mem[KernPd][i] = 0
  <2>1. mem[KernPd] = [i \in Slot |-> CASE i \in KernSlot -> KernTable(i)
                                       [] i = Last       -> KernPd
                                       [] OTHER          -> 0]
    BY Shape, PagingAssumption DEF Init, KernPd
  <2> QED  BY <2>1, Shape
<1>5. \A k \in KernTables, i \in Slot : mem[k][i] = 0
  <2>1. \A k \in KernTables : k \in Frame /\ ~(k < KernStart) /\ k # KernPd
    BY Shape, PagingAssumption DEF KernTables, Frame
  <2> QED  BY <2>1 DEF Init, Empty
<1>6. KernelShared /\ OwnSpace
  BY <1>1, <1>4, Shape, PagingAssumption DEF KernelShared, OwnSpace, Init
<1>7. UserTables = {}
  BY <1>1, <1>4 DEF UserTables, At
<1>8. \A e \in Entries : At(e) = 0
  BY <1>1, <1>4, <1>5, <1>7 DEF Entries, At
<1>9. OneUse
  BY <1>8 DEF OneUse
<1> QED  BY <1>3, <1>6, <1>9 DEF IInv

\* The page an allocation takes belongs to no process.
LEMMA TakenPage ==
    ASSUME IInv, TakePage
    PROVE  /\ PoolPage \in KernAddr /\ inUse' = inUse \cup {PoolPage}
           /\ \A q \in Live : space[q] # PoolPage
<1>1. PoolPage \in KernAddr \ inUse
  BY DEF PoolPage, TakePage
<1> QED  BY <1>1, Directories DEF TakePage

\* Wherever a switch is made, it finds the directory of the process.
LEMMA Loads ==
    ASSUME IInv, NEW q \in Proc, space[q] # None
    PROVE  ToPhys(space[q]) = PdOf(q) /\ PdOf(q) \in Pds /\ PdOf(q) # 0 /\ q \in Live
<1>1. q \in Live /\ KernPd \in Pds /\ cr3 \in Pds
  BY DEF Live, Pds, IInv, OwnSpace
<1>2. space[q] \in KernAddr
  BY <1>1, Directories DEF IInv, TypeOK
<1>3. Walk(cr3, space[q]) = Walk(KernPd, space[q])
  BY <1>1, <1>2, KernelWalk
<1> QED  BY <1>1, <1>3, Directories DEF ToPhys, PdOf, Pds

\* Programs run in the space their accesses are counted for.
LEMMA RunsInSpace ==
    ASSUME IInv, NEW t \in AnyThread, cur = t
    PROVE  SpaceOf(t) = cr3
BY PagingAssumption DEF SpaceOf, AnyThread, IInv, OwnSpace

\* An access that a fault can help is one of the kernel's or the program's.
LEMMA ResolvableAddress ==
    ASSUME IInv, NEW t \in AnyThread, Resolvable(t)
    PROVE  /\ job[t] # NoJob /\ job[t].addr \in KernAddr \cup UserAddr
           /\ job[t].faults \in Counts
           /\ SpaceOf(t) \in Pds
           /\ t \in Thread => Owner[t] \in Live
<1>1. job[t] # NoJob /\ job[t].faults \in Counts
  BY JobAddress DEF Resolvable
<1>2. CASE t = Ksetup
  <2>1. job[t] \in AccessJob \cup SyncJob
    BY <1>1, <1>2 DEF IInv, TypeOK, JobsOK
  <2>2. job[t].addr \in KernAddr \cup UserAddr
    BY <2>1 DEF AccessJob, SyncJob, IInv, TypeOK
  <2> QED  BY <1>1, <1>2, <2>2, PagingAssumption DEF SpaceOf, IInv, OwnSpace
<1>3. CASE t # Ksetup
  <2>1. t \in Thread /\ Owner[t] \in Live
    BY <1>1, <1>3 DEF AnyThread, IInv, TypeOK, JobsOK
  <2> QED  BY <1>1, <1>3, <2>1 DEF Resolvable, SpaceOf, Pds
<1> QED  BY <1>2, <1>3

LEMMA MissingType ==
    ASSUME NEW d, NEW a
    PROVE  Missing(d, a) \in 0..2
BY DEF Missing

\* What mappings are kept make no access take more faults than before.
LEMMA MissingStays ==
    ASSUME MappingsKept, NEW d \in Pds, NEW a \in KernAddr \cup UserAddr
    PROVE  /\ Missing(d, a)' =< Missing(d, a)
           /\ Missing(d, a)' \in 0..2 /\ Missing(d, a) \in 0..2
<1>1. /\ mem[d][a[1]] # 0 => mem'[d][a[1]] # 0
      /\ Walk(d, a) # 0 => Walk(d, a)' = Walk(d, a)
  BY DEF MappingsKept
<1>2. /\ Missing(d, a) = IF mem[d][a[1]] = 0 THEN 2 ELSE IF Walk(d, a) = 0 THEN 1 ELSE 0
      /\ Missing(d, a)' = IF mem'[d][a[1]] = 0 THEN 2 ELSE IF Walk(d, a)' = 0 THEN 1 ELSE 0
  BY DEF Missing
<1>3. mem'[d][a[1]] = 0 => Walk(d, a)' = 0
  BY DEF Walk
<1> QED  BY <1>1, <1>2, <1>3

\* Accesses that begin, end or stay at what they are are counted right.
LEMMA CountsKept ==
    ASSUME IInv, MappingsKept,
           \A q \in Live \cap Live' : PdOf(q)' = PdOf(q),
           \A t \in AnyThread :
               \/ job'[t] = NoJob
               \/ job'[t].faults = 0
               \/ /\ job'[t] = job[t]
                  /\ t = Ksetup => cr3' = cr3
                  /\ t \in Thread => Owner[t] \in Live'
    PROVE  FaultsCounted'
<1> SUFFICES ASSUME NEW t \in AnyThread, Resolvable(t)'
             PROVE  job'[t].faults + Missing(SpaceOf(t), job[t].addr)' =< 2
  BY DEF FaultsCounted
<1>1. job'[t] # NoJob
  BY DEF Resolvable
<1>2. CASE job'[t].faults = 0
  <2>1. Missing(SpaceOf(t), job[t].addr)' \in 0..2
    BY DEF Missing
  <2> QED  BY <1>2, <2>1
<1>3. CASE job'[t] = job[t] /\ (t = Ksetup => cr3' = cr3) /\ (t \in Thread => Owner[t] \in Live')
  <2>1. Resolvable(t)
    BY <1>3 DEF Resolvable
  <2>2. PICK d, a : d = SpaceOf(t) /\ a = job[t].addr
    OBVIOUS
  <2>3. d \in Pds /\ a \in KernAddr \cup UserAddr /\ job[t].faults \in Counts
    BY <2>1, <2>2, ResolvableAddress
  <2>4. SpaceOf(t)' = d
    BY <1>3, <2>1, <2>2, ResolvableAddress, PagingAssumption DEF SpaceOf, AnyThread
  <2>5. job[t].faults + Missing(d, a) =< 2
    BY <2>1, <2>2 DEF IInv, FaultsCounted
  <2>6. /\ Missing(d, a)' =< Missing(d, a)
        /\ Missing(d, a)' \in 0..2 /\ Missing(d, a) \in 0..2
    BY <2>3, MissingStays
  <2>7. Missing(SpaceOf(t), job[t].addr)' = Missing(d, a)'
    BY <1>3, <2>2, <2>4 DEF Missing, Walk
  <2> QED  BY <1>3, <2>3, <2>5, <2>6, <2>7 DEF Counts, ManyFaults
<1> QED  BY <1>1, <1>2, <1>3

\* Steps that leave memory and spaces alone.
LEMMA QuietStep ==
    ASSUME IInv, mem' = mem, p' = p, space' = space,
           inUse \subseteq inUse', inUse' \subseteq KernAddr,
           cur' \in AnyThread, OwnSpace', JobsOK',
           \A t \in AnyThread :
               \/ job'[t] = NoJob
               \/ job'[t].faults = 0
               \/ job'[t] = job[t] /\ (t = Ksetup => cr3' = cr3)
    PROVE  IInv'
<1>1. /\ Live' = Live /\ Pds' = Pds /\ \A q \in Live : PdOf(q)' = PdOf(q)
      /\ KernelShared' /\ OneUse' /\ MappingsKept
  BY SameMemory
<1>2. FaultsCounted'
  <2>1. ASSUME NEW t \in AnyThread
        PROVE  \/ job'[t] = NoJob
               \/ job'[t].faults = 0
               \/ /\ job'[t] = job[t]
                  /\ t = Ksetup => cr3' = cr3
                  /\ t \in Thread => Owner[t] \in Live'
    BY DEF JobsOK
  <2> QED  BY <1>1, <2>1, CountsKept
<1>3. cr3' \in Frame
  BY <1>1, Kinds DEF OwnSpace
<1>4. space' \in [Proc -> inUse' \cup {None}]
  BY DEF IInv, TypeOK
<1>5. TypeOK'
  BY <1>1, <1>3, <1>4 DEF IInv, TypeOK
<1> QED  BY <1>1, <1>2, <1>5 DEF IInv

LEMMA FaultOK ==
    ASSUME IInv, NEW t \in AnyThread, Fault(t), BelowKernel'
    PROVE  IInv' /\ MappingsKept
<1> DEFINE a == job[t].addr
<1>1. /\ mem' \in [Frame -> [Slot -> Frame]]
      /\ Live' = Live /\ Pds' = Pds /\ \A q \in Live : PdOf(q)' = PdOf(q)
      /\ KernelShared' /\ OneUse' /\ MappingsKept
  <2>1. CASE Internal(a) /\ MapTable(a)
    BY <2>1, TableStep, FaultStep DEF Live
  <2>2. CASE External(a) /\ MapPage(a)
    BY <2>2, PageStep, FaultStep DEF Live
  <2>3. CASE ~ Internal(a) /\ ~ External(a) /\ mem' = mem
    BY <2>3, SameMemory, FaultStep DEF IInv, TypeOK
  <2> QED  BY <2>1, <2>2, <2>3, FaultStep
<1>2. /\ job' = [job EXCEPT ![t].faults = IF @ = ManyFaults THEN @ ELSE @ + 1]
      /\ job[t] # NoJob /\ job[t].faults \in Counts
  BY FaultStep, JobAddress DEF Fault
<1>3. (IF job[t].faults = ManyFaults THEN job[t].faults ELSE job[t].faults + 1) \in Counts
  BY <1>2 DEF Counts, ManyFaults
<1>4. PICK n : /\ n \in Counts
               /\ n = IF job[t].faults = ManyFaults THEN job[t].faults ELSE job[t].faults + 1
               /\ job' = [job EXCEPT ![t].faults = n]
  BY <1>2, <1>3
<1>5. JobsOK'
  <2>1. job'[t] = [job[t] EXCEPT !.faults = n] /\ \A u \in AnyThread : u # t => job'[u] = job[u]
    BY <1>4 DEF IInv, TypeOK, JobsOK
  <2>2. /\ job[t] \in ProgramJob => job'[t] \in ProgramJob
        /\ job[t] \in AccessJob => job'[t] \in AccessJob
        /\ job[t] \in SyncJob => /\ job'[t] \in SyncJob
                                 /\ job'[t].proc = job[t].proc /\ job'[t].addr = job[t].addr
    BY <1>4, <2>1 DEF ProgramJob, AccessJob, SyncJob
  <2>3. job' \in [AnyThread -> {NoJob} \cup ProgramJob \cup AccessJob \cup SyncJob]
    <3>1. job'[t] \in ProgramJob \cup AccessJob \cup SyncJob
      BY <1>2, <2>2 DEF IInv, TypeOK, JobsOK
    <3> QED  BY <1>4, <2>1, <3>1 DEF IInv, TypeOK, JobsOK
  <2>4. cur' = cur /\ inUse' = inUse /\ space' = space
    BY FaultStep
  <2>5. \A u \in Thread : job'[u] # NoJob => job'[u] \in ProgramJob /\ Owner[u] \in Live'
    BY <1>1, <1>2, <2>1, <2>2 DEF IInv, TypeOK, JobsOK, AnyThread
  <2>6. job'[Ksetup] # NoJob =>
         /\ cur' = Ksetup
         /\ \/ job'[Ksetup] \in AccessJob
            \/ /\ job'[Ksetup] \in SyncJob
               /\ space'[job'[Ksetup].proc] = None
               /\ \A q \in Live' : space'[q] # job'[Ksetup].addr
    <3>1. CASE t # Ksetup
      BY <1>1, <2>1, <2>4, <3>1 DEF IInv, TypeOK, JobsOK, AnyThread
    <3>2. CASE t = Ksetup
      BY <1>1, <1>2, <2>2, <2>4, <3>2 DEF IInv, TypeOK, JobsOK
    <3> QED  BY <3>1, <3>2
  <2>7. SyncJob' = SyncJob
    BY <2>4 DEF SyncJob
  <2> QED  BY <2>3, <2>5, <2>6, <2>7 DEF JobsOK
<1>6. FaultsCounted'
  <2> SUFFICES ASSUME NEW u \in AnyThread, Resolvable(u)'
               PROVE  job'[u].faults + Missing(SpaceOf(u), job[u].addr)' =< 2
    BY DEF FaultsCounted
  <2>1. /\ u # t => job'[u] = job[u]
        /\ u = t => job'[u] = [job[u] EXCEPT !.faults = n]
    BY <1>4 DEF IInv, TypeOK, JobsOK
  <2>2. job[u] # NoJob /\ job'[u].addr = job[u].addr
    <3>1. CASE u = t
      <4>1. job[t] \in ProgramJob \cup AccessJob \cup SyncJob
        BY <1>2 DEF IInv, TypeOK, JobsOK
      <4> QED  BY <1>2, <2>1, <3>1, <4>1 DEF ProgramJob, AccessJob, SyncJob
    <3>2. CASE u # t
      BY <2>1, <3>2 DEF Resolvable
    <3> QED  BY <3>1, <3>2
  <2>3. Resolvable(u)
    BY <2>2 DEF Resolvable
  <2>4. PICK d, b : d = SpaceOf(u) /\ b = job[u].addr
    OBVIOUS
  <2>5. d \in Pds /\ b \in KernAddr \cup UserAddr /\ job[u].faults \in Counts
    BY <2>3, <2>4, ResolvableAddress
  <2>6. SpaceOf(u)' = d
    BY <1>1, <2>3, <2>4, FaultStep, ResolvableAddress, PagingAssumption DEF SpaceOf, AnyThread
  <2>7. Missing(SpaceOf(u), job[u].addr)' = Missing(d, b)'
    BY <2>2, <2>4, <2>6 DEF Missing, Walk
  <2>8. job[u].faults + Missing(d, b) =< 2
    BY <2>3, <2>4 DEF IInv, FaultsCounted
  <2>9. /\ Missing(d, b)' =< Missing(d, b)
        /\ Missing(d, b)' \in 0..2 /\ Missing(d, b) \in 0..2
    BY <1>1, <2>5, MissingStays
  <2>10. CASE u # t
    BY <2>1, <2>5, <2>7, <2>8, <2>9, <2>10 DEF Counts, ManyFaults
  <2>11. CASE u = t
    <3>1. d = cr3 /\ b = a
      BY <2>4, <2>11, RunsInSpace, FaultStep
    <3>2. ToPhys(a) = 0 /\ a[1] # Last
      <4>1. a[1] # Last
        BY <2>5, <3>1, Shape DEF KernAddr, UserAddr
      <4>2. cur \in Thread => a[1] \in UserSlot
        BY <2>3, <2>11, FaultStep, PagingAssumption DEF Resolvable, UserAddr
      <4> QED  BY <4>1, <4>2, FaultStep DEF Reached
    <3>3. CASE Internal(a)
      <4>1. MapTable(a)
        BY <3>2, <3>3, FaultStep DEF External
      <4>2. mem'[cr3][a[1]] # 0
        BY <3>3, <4>1, TableStep
      <4>3. Missing(d, b) = 2 /\ Missing(d, b)' \in 0..1
        BY <3>1, <3>3, <4>2 DEF Missing, Internal
      <4> QED  BY <1>4, <2>1, <2>5, <2>7, <2>8, <2>11, <4>3, <1>2 DEF Counts, ManyFaults
    <3>4. CASE ~ Internal(a)
      <4>1. External(a) /\ MapPage(a)
        BY <3>2, <3>4, FaultStep DEF External
      <4>2. mem'[cr3][a[1]] # 0 /\ mem'[mem'[cr3][a[1]]][a[2]] # 0
        BY <4>1, PageStep
      <4>3. Missing(d, b) >= 1 /\ Missing(d, b)' = 0
        BY <3>1, <3>2, <4>2 DEF Missing, Walk, ToPhys
      <4> QED  BY <1>4, <2>1, <2>5, <2>7, <2>8, <2>9, <2>11, <4>3, <1>2 DEF Counts, ManyFaults
    <3> QED  BY <3>3, <3>4
  <2> QED  BY <2>10, <2>11
<1>7. OwnSpace'
  BY <1>1, FaultStep DEF IInv, OwnSpace
<1>8. TypeOK'
  BY <1>1, <1>5, FaultStep DEF IInv, TypeOK
<1> QED  BY <1>1, <1>6, <1>7, <1>8 DEF IInv

\* What a thread begins or ends changes nothing else.
LEMMA JobStep ==
    ASSUME IInv, NEW t \in AnyThread, NEW j, job' = [job EXCEPT ![t] = j],
           cur = t, cur' = cur, mem' = mem, p' = p, space' = space,
           inUse \subseteq inUse', inUse' \subseteq KernAddr,
           j = NoJob \/ j.faults = 0,
           t \in Thread => j \in {NoJob} \cup ProgramJob /\ cr3' = cr3,
           t = Ksetup =>
              /\ cr3' \in Pds
              /\ \/ j \in {NoJob} \cup AccessJob
                 \/ /\ j \in SyncJob'
                    /\ space[j.proc] = None
                    /\ \A q \in Live : space[q] # j.addr
    PROVE  IInv'
<1>1. job'[t] = j /\ \A u \in AnyThread : u # t => job'[u] = job[u]
  BY DEF IInv, TypeOK, JobsOK
<1>2. /\ Live' = Live /\ Pds' = Pds /\ \A q \in Live : PdOf(q)' = PdOf(q)
  BY SameMemory
<1>3. Ksetup \in AnyThread /\ (t # Ksetup => t \in Thread /\ job[Ksetup] = NoJob)
  BY DEF AnyThread, IInv, TypeOK, JobsOK
<1>4. t \in Thread => t # Ksetup /\ Owner[t] \in Live
  BY PagingAssumption DEF IInv, OwnSpace
<1>5. JobsOK'
  <2>1. SyncJob \subseteq SyncJob'
    BY DEF SyncJob
  <2>2. job' \in [AnyThread -> {NoJob} \cup ProgramJob \cup AccessJob \cup SyncJob']
    <3>1. j \in {NoJob} \cup ProgramJob \cup AccessJob \cup SyncJob'
      BY <1>3
    <3> QED  BY <2>1, <3>1 DEF IInv, TypeOK, JobsOK
  <2>3. ASSUME NEW u \in Thread, job'[u] # NoJob
        PROVE  job'[u] \in ProgramJob /\ Owner[u] \in Live'
    BY <1>1, <1>2, <1>4, <2>3 DEF AnyThread, IInv, TypeOK, JobsOK
  <2>4. ASSUME job'[Ksetup] # NoJob
        PROVE  /\ cur' = Ksetup
               /\ \/ job'[Ksetup] \in AccessJob
                  \/ /\ job'[Ksetup] \in SyncJob'
                     /\ space'[job'[Ksetup].proc] = None
                     /\ \A q \in Live' : space'[q] # job'[Ksetup].addr
    BY <1>1, <1>2, <1>3, <2>4
  <2> QED  BY <2>2, <2>3, <2>4 DEF JobsOK
<1>6. OwnSpace'
  BY <1>2, <1>3, <1>4 DEF IInv, OwnSpace
<1>7. ASSUME NEW u \in AnyThread
      PROVE  \/ job'[u] = NoJob
             \/ job'[u].faults = 0
             \/ job'[u] = job[u] /\ (u = Ksetup => cr3' = cr3)
  BY <1>1, <1>3
<1>8. cur' \in AnyThread
  OBVIOUS
<1> QED  BY <1>5, <1>6, <1>7, <1>8, QuietStep

LEMMA SwitchOK ==
    ASSUME IInv, NEW t \in Thread, Switch(t)
    PROVE  IInv'
<1>1. /\ job[Ksetup] = NoJob /\ space[Owner[t]] # None /\ cur' = t /\ job' = job
      /\ mem' = mem /\ p' = p /\ space' = space /\ inUse' = inUse
  BY DEF Switch, MayLeave
<1>2. /\ Owner[t] \in Live /\ PdOf(Owner[t]) \in Pds /\ cr3' = PdOf(Owner[t])
  BY <1>1, PagingAssumption, Loads DEF Switch, SwitchTo
<1>3. /\ Live' = Live /\ Pds' = Pds /\ \A q \in Live : PdOf(q)' = PdOf(q)
  BY <1>1, SameMemory
<1>4. OwnSpace'
  BY <1>1, <1>2, <1>3 DEF OwnSpace
<1>5. JobsOK'
  <2>1. SyncJob' = SyncJob
    BY <1>1 DEF SyncJob
  <2> QED  BY <1>1, <1>3, <2>1 DEF IInv, TypeOK, JobsOK
<1>6. \A u \in AnyThread : job'[u] = NoJob \/ (job'[u] = job[u] /\ (u = Ksetup => cr3' = cr3))
  BY <1>1
<1> QED  BY <1>1, <1>4, <1>5, <1>6, QuietStep DEF AnyThread, IInv, TypeOK

LEMMA SwitchToKsetupOK ==
    ASSUME IInv, SwitchToKsetup
    PROVE  IInv'
<1>1. /\ cur # Ksetup /\ cur' = Ksetup /\ job' = job /\ cr3' = cr3
      /\ mem' = mem /\ p' = p /\ space' = space /\ inUse' = inUse
  BY DEF SwitchToKsetup
<1>2. /\ Live' = Live /\ Pds' = Pds
  BY <1>1, SameMemory
<1>3. OwnSpace'
  BY <1>1, <1>2, PagingAssumption DEF IInv, OwnSpace
<1>4. JobsOK'
  <2>1. SyncJob' = SyncJob
    BY <1>1 DEF SyncJob
  <2> QED  BY <1>1, <1>2, <2>1 DEF IInv, TypeOK, JobsOK
<1> QED  BY <1>1, <1>3, <1>4, QuietStep DEF AnyThread, IInv, TypeOK

LEMMA SyncOK ==
    ASSUME IInv, Sync
    PROVE  IInv' /\ MappingsKept
<1>1. /\ mem' \in [Frame -> [Slot -> Frame]]
      /\ Pds \subseteq Pds' /\ Live \subseteq Live' /\ \A q \in Live : PdOf(q)' = PdOf(q)
      /\ KernelShared' /\ OneUse' /\ MappingsKept
  BY SyncStep
<1>2. PICK x, r : x = job[Ksetup].addr /\ r = job[Ksetup].proc
  OBVIOUS
<1>3. /\ cur = Ksetup /\ cur' = cur /\ cr3' = cr3 /\ p' = p /\ inUse' = inUse
      /\ space' = [space EXCEPT ![r] = x] /\ job' = [job EXCEPT ![Ksetup] = NoJob]
      /\ job[Ksetup] # NoJob /\ job[Ksetup].op = "sync"
  BY <1>2 DEF Sync, KernelJob, Running
<1>4. /\ x \in inUse /\ r \in Proc /\ space[r] = None
      /\ \A q \in Live : space[q] # x
  <2>1. job[Ksetup] \in SyncJob
    BY <1>3 DEF IInv, TypeOK, JobsOK, AccessJob
  <2> QED  BY <1>2, <1>3, <2>1 DEF IInv, TypeOK, JobsOK, AccessJob, SyncJob
<1>5. space' \in [Proc -> inUse' \cup {None}]
  BY <1>3, <1>4 DEF IInv, TypeOK
<1>6. \A q, s \in Live' : space'[q] = space'[s] => q = s
  BY <1>3, <1>4 DEF IInv, TypeOK, Live
<1>7. /\ job'[Ksetup] = NoJob /\ \A t \in Thread : job'[t] = job[t] /\ t \in AnyThread
      /\ Ksetup \in AnyThread
  BY <1>3, PagingAssumption DEF AnyThread, IInv, TypeOK, JobsOK
<1>8. JobsOK'
  <2>1. SyncJob' = SyncJob
    BY <1>3 DEF SyncJob
  <2>2. job' \in [AnyThread -> {NoJob} \cup ProgramJob \cup AccessJob \cup SyncJob]
    BY <1>3 DEF IInv, TypeOK, JobsOK
  <2> QED  BY <1>1, <1>7, <2>1, <2>2 DEF IInv, TypeOK, JobsOK
<1>9. FaultsCounted'
  <2>1. ASSUME NEW t \in AnyThread
        PROVE  \/ job'[t] = NoJob
               \/ /\ job'[t] = job[t]
                  /\ t = Ksetup => cr3' = cr3
                  /\ t \in Thread => Owner[t] \in Live'
    BY <1>1, <1>7 DEF AnyThread, IInv, TypeOK, JobsOK
  <2>2. \A q \in Live \cap Live' : PdOf(q)' = PdOf(q)
    BY <1>1
  <2> QED  BY <1>1, <2>1, <2>2, CountsKept
<1>10. OwnSpace'
  BY <1>1, <1>3, PagingAssumption DEF IInv, OwnSpace
<1>11. TypeOK'
  BY <1>1, <1>3, <1>5, <1>6, <1>8 DEF IInv, TypeOK
<1> QED  BY <1>1, <1>9, <1>10, <1>11 DEF IInv

LEMMA DestroyOK ==
    ASSUME IInv, NEW q \in Proc, Destroy(q)
    PROVE  IInv'
<1>1. /\ cur = Ksetup /\ cur' = cur /\ job[Ksetup] = NoJob
      /\ mem' = mem /\ p' = p /\ cr3' = cr3
      /\ space' = [space EXCEPT ![q] = None] /\ inUse' = inUse \ {space[q]}
      /\ job' = [t \in AnyThread |-> IF t \in Thread /\ Owner[t] = q THEN NoJob ELSE job[t]]
  BY DEF Destroy, KernelIdle, Running
<1>2. q \in Live /\ cr3 # PdOf(q)
  BY Loads DEF Destroy
<1>3. Live' = Live \ {q} /\ \A r \in Live' : space'[r] = space[r]
  BY <1>1, <1>2 DEF Live, IInv, TypeOK
<1>4. \A r \in Live' : PdOf(r)' = PdOf(r)
  BY <1>1, <1>3 DEF PdOf, Walk
<1>5. Pds' \subseteq Pds /\ cr3 \in Pds'
  <2>1. Pds' = {KernPd} \cup {PdOf(r) : r \in Live'}
    BY <1>4 DEF Pds
  <2> QED  BY <1>2, <1>3, <2>1 DEF Pds, IInv, OwnSpace
<1>6. KernelShared'
  BY <1>1, <1>5 DEF KernelShared, IInv
<1>7. OneUse'
  <2>1. Entries' \subseteq Entries
    BY <1>1, <1>5 DEF Entries, UserTables, At
  <2> QED  BY <1>1, <2>1 DEF OneUse, IInv, At
<1>8. OwnSpace'
  BY <1>1, <1>5, PagingAssumption DEF OwnSpace
<1>9. space' \in [Proc -> inUse' \cup {None}]
  BY <1>1, <1>2, <1>3 DEF IInv, TypeOK, Live
<1>10. JobsOK'
  <2>1. ASSUME NEW t \in Thread
        PROVE  job'[t] = NoJob \/ (job'[t] \in ProgramJob /\ Owner[t] \in Live')
    BY <1>1, <1>3 DEF IInv, TypeOK, JobsOK, AnyThread
  <2>2. job'[Ksetup] = NoJob
    BY <1>1, PagingAssumption DEF AnyThread
  <2>3. job' \in [AnyThread -> {NoJob} \cup ProgramJob \cup AccessJob \cup SyncJob']
    BY <1>1, <2>1, <2>2 DEF AnyThread
  <2> QED  BY <2>1, <2>2, <2>3 DEF JobsOK
<1>11. FaultsCounted'
  <2>1. MappingsKept
    BY <1>1 DEF MappingsKept, Walk
  <2>2. ASSUME NEW t \in AnyThread
        PROVE  \/ job'[t] = NoJob
               \/ /\ job'[t] = job[t]
                  /\ t = Ksetup => cr3' = cr3
                  /\ t \in Thread => Owner[t] \in Live'
    BY <1>1, <1>10 DEF JobsOK
  <2> QED  BY <1>4, <2>1, <2>2, CountsKept
<1>12. TypeOK'
  BY <1>1, <1>3, <1>9, <1>10 DEF IInv, TypeOK
<1> QED  BY <1>6, <1>7, <1>8, <1>11, <1>12 DEF IInv

LEMMA CopyEndsOK ==
    ASSUME IInv, CopyEnds
    PROVE  IInv'
<1>1. mem[cr3][Last] = cr3 /\ cr3 # 0
  BY DEF IInv, KernelShared, OwnSpace
<1>2. ToPhys(SelfAddr) = cr3
  BY <1>1 DEF ToPhys, Walk, SelfAddr
<1>3. cr3' = cr3
  BY <1>1, <1>2 DEF CopyEnds, SwitchTo
<1>4. /\ cur = Ksetup /\ cur' = cur /\ mem' = mem /\ p' = p /\ space' = space /\ inUse' = inUse
      /\ job' = [job EXCEPT ![Ksetup] = NoJob]
  BY DEF CopyEnds, KernelJob, Running
<1>5. cr3 \in Pds /\ inUse' \subseteq KernAddr /\ Ksetup \in AnyThread /\ Ksetup \notin Thread
  BY <1>4, PagingAssumption DEF IInv, OwnSpace, TypeOK, AnyThread
<1> QED  BY <1>3, <1>4, <1>5, JobStep

LEMMA CopyOK ==
    ASSUME IInv, NEW q \in Proc, NEW a \in UserAddr, Copy(q, a)
    PROVE  IInv'
<1>1. ToPhys(space[q]) # 0 /\ cr3' \in Pds
  BY Loads DEF Copy, SwitchTo
<1>2. PICK j : /\ j = [op |-> "copy", addr |-> a, faults |-> 0]
               /\ job' = [job EXCEPT ![Ksetup] = j]
  BY <1>1 DEF Copy, KernelJob
<1>3. j \in AccessJob /\ j.faults = 0
  BY <1>2 DEF AccessJob, Counts, ManyFaults
<1>4. cur = Ksetup /\ cur' = cur /\ mem' = mem /\ p' = p /\ space' = space /\ inUse' = inUse
  BY DEF Copy, KernelIdle, Running
<1>5. inUse' \subseteq KernAddr /\ Ksetup \in AnyThread /\ Ksetup \notin Thread
  BY <1>4, PagingAssumption DEF IInv, TypeOK, AnyThread
<1> QED  BY <1>1, <1>2, <1>3, <1>4, <1>5, JobStep

LEMMA CreateOK ==
    ASSUME IInv, NEW q \in Proc, Create(q)
    PROVE  IInv'
<1>1. /\ cur = Ksetup /\ cur' = cur /\ mem' = mem /\ cr3' = cr3 /\ p' = p /\ space' = space
      /\ space[q] = None
  BY DEF Create, KernelIdle, Running
<1>2. PICK j : /\ j = [op |-> "sync", addr |-> PoolPage, faults |-> 0, proc |-> q]
               /\ job' = [job EXCEPT ![Ksetup] = j]
  BY DEF Create, KernelJob
<1>3. /\ inUse' = inUse \cup {PoolPage} /\ PoolPage \in KernAddr
      /\ \A r \in Live : space[r] # PoolPage
  BY TakenPage DEF Create
<1>4. j \in SyncJob' /\ j.faults = 0 /\ j.proc = q /\ j.addr = PoolPage
  BY <1>2, <1>3 DEF SyncJob, Counts, ManyFaults
<1>5. inUse' \subseteq KernAddr /\ Ksetup \in AnyThread /\ Ksetup \notin Thread /\ cr3 \in Pds
  BY <1>3, PagingAssumption DEF IInv, TypeOK, OwnSpace, AnyThread
<1> QED  BY <1>1, <1>2, <1>3, <1>4, <1>5, JobStep

LEMMA TouchesOK ==
    ASSUME IInv
    PROVE  /\ \A t \in Thread, a \in Touched : Touch(t, a) => IInv'
           /\ \A t \in AnyThread : Access(t) => IInv'
           /\ \A a \in UserAddr : TouchStack(a) => IInv'
           /\ TouchHeap => IInv'
<1>1. ASSUME NEW t \in Thread, NEW a \in Touched, Touch(t, a) PROVE IInv'
  <2>1. PICK j : j = Touching(a) /\ job' = [job EXCEPT ![t] = j]
    BY <1>1 DEF Touch
  <2>2. j \in ProgramJob /\ j.faults = 0
    BY <2>1 DEF Touching, ProgramJob, Counts, ManyFaults
  <2>3. /\ cur = t /\ cur' = cur /\ cr3' = cr3 /\ mem' = mem /\ p' = p /\ space' = space
        /\ inUse' = inUse
    BY <1>1 DEF Touch, Running
  <2>4. inUse' \subseteq KernAddr /\ t \in AnyThread /\ t # Ksetup
    BY <2>3, PagingAssumption DEF IInv, TypeOK, AnyThread
  <2> QED  BY <2>1, <2>2, <2>3, <2>4, JobStep
<1>2. ASSUME NEW t \in AnyThread, Access(t) PROVE IInv'
  <2>1. /\ cur = t /\ cur' = cur /\ cr3' = cr3 /\ mem' = mem /\ p' = p /\ space' = space
        /\ inUse' = inUse /\ job' = [job EXCEPT ![t] = NoJob]
    BY <1>2 DEF Access, Running
  <2>2. inUse' \subseteq KernAddr /\ cr3 \in Pds
    BY <2>1 DEF IInv, TypeOK, OwnSpace
  <2> QED  BY <2>1, <2>2, JobStep
<1>3. ASSUME NEW a \in KernAddr \cup UserAddr, cur = Ksetup, cur' = cur, cr3' = cr3,
             mem' = mem, p' = p, space' = space, inUse \subseteq inUse', inUse' \subseteq KernAddr,
             KernelJob(Touching(a))
      PROVE  IInv'
  <2>1. PICK j : j = Touching(a) /\ job' = [job EXCEPT ![Ksetup] = j]
    BY <1>3 DEF KernelJob
  <2>2. j \in AccessJob /\ j.faults = 0
    BY <2>1 DEF Touching, AccessJob, Counts, ManyFaults
  <2>3. Ksetup \in AnyThread /\ Ksetup \notin Thread /\ cr3 \in Pds
    BY PagingAssumption DEF IInv, OwnSpace, AnyThread
  <2> QED  BY <1>3, <2>1, <2>2, <2>3, JobStep
<1>4. ASSUME NEW a \in UserAddr, TouchStack(a) PROVE IInv'
  BY <1>3, <1>4 DEF TouchStack, KernelIdle, Running, IInv, TypeOK
<1>5. ASSUME TouchHeap PROVE IInv'
  BY <1>3, <1>5, TakenPage DEF TouchHeap, KernelIdle, Running, IInv, TypeOK
<1> QED  BY <1>1, <1>2, <1>4, <1>5

\* The bound of the model: nothing follows the fault that takes a frame of the
\* kernel.
LEMMA StepsBelow ==
    ASSUME [Next]_vars, BelowKernel'
    PROVE  BelowKernel
BY DEF Next, vars, BelowKernel, Running, KernelIdle, Fault, Access, Touch, Switch, SwitchToKsetup,
       TouchStack, TouchHeap, Create, Sync, Copy, CopyEnds, Destroy

LEMMA NextOK == (BelowKernel => IInv) /\ [Next]_vars => (BelowKernel => IInv)'
<1> SUFFICES ASSUME BelowKernel => IInv, [Next]_vars, BelowKernel'
             PROVE  IInv'
  OBVIOUS
<1>1. IInv
  BY StepsBelow
<1>2. CASE UNCHANGED vars
  <2>1. /\ cur' = cur /\ mem' = mem /\ cr3' = cr3 /\ p' = p /\ space' = space /\ inUse' = inUse
        /\ job' = job
    BY <1>2 DEF vars
  <2>2. JobsOK'
    BY <1>1, <2>1 DEF IInv, TypeOK, JobsOK, ProgramJob, AccessJob, SyncJob, Live
  <2>3. OwnSpace'
    BY <1>1, <2>1, SameMemory DEF IInv, OwnSpace
  <2> QED  BY <1>1, <2>1, <2>2, <2>3, QuietStep DEF IInv, TypeOK
<1>3. CASE \E t \in AnyThread : Fault(t) \/ Access(t)
  BY <1>1, <1>3, FaultOK, TouchesOK
<1>4. CASE \E t \in Thread : Switch(t) \/ \E a \in Touched : Touch(t, a)
  BY <1>1, <1>4, SwitchOK, TouchesOK
<1>5. CASE SwitchToKsetup \/ TouchHeap \/ Sync \/ CopyEnds
  BY <1>1, <1>5, SwitchToKsetupOK, TouchesOK, SyncOK, CopyEndsOK
<1>6. CASE \E a \in Touched \cap UserAddr : TouchStack(a) \/ \E q \in Proc : Copy(q, a)
  BY <1>1, <1>6, TouchesOK, CopyOK
<1>7. CASE \E q \in Proc : Create(q) \/ Destroy(q)
  BY <1>1, <1>7, CreateOK, DestroyOK
<1> QED  BY <1>2, <1>3, <1>4, <1>5, <1>6, <1>7 DEF Next

LEMMA Invariance == Spec => [](BelowKernel => IInv)
<1>1. Init => (BelowKernel => IInv)
  BY InitOK
<1> QED  BY <1>1, NextOK, PTL DEF Spec

-----------------------------------------------------------------------------
(* Theorems                                                                *)

\* In every space the kernel finds the same tables and its own directory, and
\* a program runs in the space of its process, wherever the switch was made.
THEOREM SpacesCorrect == Spec => []SpacesAgree
<1>1. (BelowKernel => IInv) => SpacesAgree
  BY DEF IInv, SpacesAgree
<1> QED  BY Invariance, <1>1, PTL

\* No frame is given out twice by the page faults: one that is a directory,
\* a table or a page has no other use.
THEOREM FramesCorrect == Spec => []FramesApart
<1>1. (BelowKernel => IInv) => FramesApart
  BY DEF IInv, FramesApart
<1> QED  BY Invariance, <1>1, PTL

\* Two faults are enough for an access, of the kernel or of a program to its
\* own part, whatever other programs do between them.
THEOREM FaultsCorrect == Spec => []TwoFaults
<1>1. ASSUME BelowKernel => IInv, BelowKernel, NEW t \in AnyThread, Resolvable(t)
      PROVE  job[t].faults =< 2
  <2>1. job[t].faults \in Counts /\ Missing(SpaceOf(t), job[t].addr) \in 0..2
    BY <1>1, ResolvableAddress DEF Missing
  <2>2. job[t].faults + Missing(SpaceOf(t), job[t].addr) =< 2
    BY <1>1 DEF IInv, FaultsCounted
  <2> QED  BY <2>1, <2>2 DEF Counts, ManyFaults
<1>2. (BelowKernel => IInv) => TwoFaults
  BY <1>1 DEF TwoFaults
<1> QED  BY Invariance, <1>2, PTL

\* A page that is mapped in a space stays at its frame while the space lives,
\* whatever other spaces are made, filled, copied into or destroyed.
THEOREM PagesCorrect == Spec => PagesStay
<1> DEFINE Kept == BelowKernel' =>
                     \A d \in Pds \cap Pds' : \A a \in UserAddr \cup KernAddr :
                       Walk(d, a) # 0 => Walk(d, a)' = Walk(d, a)
<1>1. ASSUME BelowKernel => IInv, [Next]_vars PROVE [Kept]_vars
  <2> SUFFICES ASSUME BelowKernel'
               PROVE  \A d \in Pds \cap Pds' : \A a \in UserAddr \cup KernAddr :
                        Walk(d, a) # 0 => Walk(d, a)' = Walk(d, a)
    OBVIOUS
  <2>1. IInv
    BY <1>1, StepsBelow
  <2>2. CASE mem' = mem
    BY <2>2 DEF Walk
  <2>3. CASE \E t \in AnyThread : Fault(t)
    BY <2>1, <2>3, FaultOK DEF MappingsKept
  <2>4. CASE Sync
    BY <2>1, <2>4, SyncOK DEF MappingsKept
  <2> QED  BY <1>1, <2>2, <2>3, <2>4
       DEF Next, vars, Access, TouchHeap, TouchStack, CopyEnds, Touch, Create, Switch,
           SwitchToKsetup, Destroy, Copy
<1> QED  BY <1>1, Invariance, PTL DEF Spec, PagesStay
=============================================================================
