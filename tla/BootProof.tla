----------------------------- MODULE BootProof -----------------------------
(***************************************************************************)
(* Proofs about E820 and Boot: for every map a bootloader may report, what *)
(* becomes of it in the sort, the interval tree and the clean map, and     *)
(* what the boot modules and the pager then rest on.                       *)
(***************************************************************************)
EXTENDS Boot, QueueLemmas, FunctionTheorems

Area  == [addr : Nat, len : Nat \ {0}, type : Nat]
Index == 0..(Len(given) - 1)

-----------------------------------------------------------------------------
(* The inductive invariant of the sort                                     *)

Reported == given \in Seq(Area) /\ Len(given) < 255

Permuted(map) ==
    \E p \in Bijection(Index, DOMAIN given) : \A i \in Index : map[i] = given[p[i]]

Inside(r, a) == r[1] <= a /\ a <= r[2]

\* The range that ends where no index is.
Wrapped == ranges # <<>> /\ ranges[1][1] = 0 /\ ranges[1][2] = 255

\* The ranges that are still to be sorted lie apart, in order.
RangesOK ==
    /\ ranges \in Seq(Nat \X Nat)
    /\ \A k \in DOMAIN ranges : ranges[k][2] < Len(given) \/ (k = 1 /\ Wrapped)
    /\ \A k, l \in DOMAIN ranges :
          k < l /\ ~ (k = 1 /\ Wrapped) => ranges[k][2] < ranges[l][1]

\* Two entries are in order but where they are in a range that is still to be
\* sorted, or were alone in one that was not looked at.
OrderOK ==
    ~ Wrapped =>
        \A a, b \in Index :
            a < b =>
                \/ mmap[a].type >= mmap[b].type
                \/ \E k \in DOMAIN ranges : Inside(ranges[k], a) /\ Inside(ranges[k], b)
                \/ /\ b = a + 1
                   /\ \A k \in DOMAIN ranges :
                        ~ Inside(ranges[k], a) /\ ~ Inside(ranges[k], b)

\* What the loop of e820_partition has gone past.
CursorOK ==
    cursor # <<>> =>
        /\ ranges # <<>> /\ ~ Wrapped
        /\ cursor \in Nat \X Nat
        /\ Start + 1 < End /\ End \in Index
        /\ Start <= cursor[1] /\ cursor[1] <= End
        /\ Start <= cursor[2] /\ cursor[2] < End
        /\ \A k \in Start..(cursor[1] - 1) : mmap[k].type >= mmap[End].type
        /\ \A k \in (cursor[2] + 1)..(End - 1) : mmap[k].type < mmap[End].type
        /\ cursor[1] >= cursor[2] =>
              cursor[1] = End \/ mmap[cursor[1]].type < mmap[End].type

SortOK ==
    /\ Reported
    /\ mmap \in [Index -> Area] /\ Permuted(mmap)
    /\ RangesOK /\ OrderOK /\ CursorOK

-----------------------------------------------------------------------------
(* The inductive invariant of the tree                                     *)

TreeNode == [min : Nat, max : Nat, type : Nat, left : Nat, right : Nat]
Side     == {"left", "right"}

Holds(n, a) == tree[n].min <= a /\ a <= tree[n].max

\* The addresses that may come on one side of node n, zone[n] being those
\* that may come in the subtree of n; all of them at the root.
Beside(zone, n, side) ==
    IF n = Null THEN Nat
    ELSE IF side = "left" THEN {a \in zone[n] : a < tree[n].min}
    ELSE {a \in zone[n] : a > tree[n].max}

\* The places where there is no node yet.
Gaps == IF tree = <<>> THEN {<<Null, "left">>}
        ELSE {g \in (DOMAIN tree) \X Side : tree[g[1]][g[2]] = Null}

TreeOK(zone) ==
    /\ tree \in Seq(TreeNode)
    /\ zone \in [DOMAIN tree -> SUBSET Nat]
    /\ tree # <<>> => zone[1] = Nat
    /\ \A n \in DOMAIN tree :
         /\ tree[n].min <= tree[n].max
         /\ \A a \in Nat : Holds(n, a) => a \in zone[n]
         /\ \A side \in Side : tree[n][side] # Null =>
              /\ tree[n][side] \in DOMAIN tree
              /\ zone[tree[n][side]] = Beside(zone, n, side)
    /\ \A g \in Gaps : \A a \in Beside(zone, g[1], g[2]) :
         /\ \A n \in DOMAIN tree : ~ Holds(n, a)
         /\ \A h \in Gaps : a \in Beside(zone, h[1], h[2]) => g = h

\* Entry i of a map, of which the first k are looked at, decides address a.
Decides(map, k, i, a) ==
    /\ i \in 0..(k - 1) /\ Covers(map[i], a)
    /\ \A h \in 0..(k - 1) : h < i => ~ Covers(map[h], a)

\* A node has the type of the first entry that covers what it holds.
TypesOK(map, k) ==
    \A n \in DOMAIN tree : \A a \in Nat :
        Holds(n, a) => \E i \in 0..(k - 1) :
                          Decides(map, k, i, a) /\ tree[n].type = map[i].type

InTree(a) == \E n \in DOMAIN tree : Holds(n, a)

\* A call of e820_tree_insert, for the last entry, is for what fits where it
\* is told to put it.
CallType == [node : 0..Len(tree), side : Side, lo : Nat, hi : Nat, type : Nat]

CallOK(zone, e, c) ==
    /\ c.lo <= c.hi /\ c.type = e.type
    /\ c.node = Null => c.side = "left"
    /\ \A a \in c.lo..c.hi : a \in Beside(zone, c.node, c.side) /\ Covers(e, a)

\* What the pending calls miss of the entries looked at is in the tree.
InsertsOK(zone) ==
    /\ index \in 0..Len(given)
    /\ ranges # <<>> => index = 0 /\ tree = <<>> /\ calls = <<>>
    /\ calls \in Seq(CallType)
    /\ calls # <<>> => index > 0
    /\ \A k \in DOMAIN calls : CallOK(zone, mmap[index - 1], calls[k])
    /\ TypesOK(mmap, index)
    /\ \A i \in 0..(index - 1) : \A a \in Nat :
         Covers(mmap[i], a) =>
            \/ InTree(a)
            \/ i = index - 1 /\ \E k \in DOMAIN calls : a \in calls[k].lo..calls[k].hi

-----------------------------------------------------------------------------
(* The inductive invariant of the conversion                               *)

\* A call of e820_tree_convert, and what is still to be written under it.
Visit == [node : DOMAIN tree, whole : BOOLEAN]

Extent(zone, c) == IF c.whole THEN zone[c.node] ELSE {a \in Nat : Holds(c.node, a)}

\* The calls, from the left to the right.
Ordered(zone, q) ==
    \A k, l \in DOMAIN q : k < l => \A a \in Extent(zone, q[k]), b \in Extent(zone, q[l]) : a < b

ConvertOK(zone) ==
    /\ sorted \in [Index -> Area]
    /\ index \in Nat /\ DOMAIN mmap = 0..(index - 1)
    /\ calls \in Seq(Visit) /\ Ordered(zone, calls)
    /\ TypesOK(sorted, Len(given))
    /\ \A i \in Index : \A a \in Nat : Covers(sorted[i], a) => InTree(a)
    /\ \A i \in DOMAIN mmap : \E n \in DOMAIN tree : mmap[i] = Entry(tree[n])
    /\ \A n \in DOMAIN tree : \A a \in Nat :
         Holds(n, a) => \/ \E i \in DOMAIN mmap : Covers(mmap[i], a)
                        \/ \E c \in Range(calls) : a \in Extent(zone, c)
    /\ \A i, j \in DOMAIN mmap : i < j => mmap[i].addr + mmap[i].len <= mmap[j].addr
    /\ \A i \in DOMAIN mmap : \A c \in Range(calls) : \A a \in Extent(zone, c) :
         mmap[i].addr + mmap[i].len <= a

\* The finished map: what the pager gets.
CleanMap ==
    /\ \E n \in Nat : mmap \in [0..(n - 1) -> [addr : Nat, len : Nat, type : Nat]]
    /\ InOrderDisjoint /\ NoneAbove4GB

Phases == {"boot", "sort", "convert", "done", "failed"}

MapInv ==
    /\ phase \in Phases
    /\ phase = "boot" => /\ ranges = <<>> /\ cursor = <<>> /\ tree = <<>>
                         /\ calls = <<>> /\ index = 0
    /\ phase = "sort" => SortOK /\ \E zone : TreeOK(zone) /\ InsertsOK(zone)
    /\ phase = "convert" => Reported /\ \E zone : TreeOK(zone) /\ ConvertOK(zone)
    /\ phase = "done" => CleanMap

-----------------------------------------------------------------------------
(* The sort                                                                *)

LEMMA SwapElements ==
    ASSUME NEW t \in [Index -> Area], NEW i \in Index, NEW j \in Index, i # j
    PROVE  /\ Swap(t, i, j) \in [Index -> Area]
           /\ \A k \in Index :
                Swap(t, i, j)[k] = IF k = i THEN t[j] ELSE IF k = j THEN t[i] ELSE t[k]
           /\ Permuted(t) => Permuted(Swap(t, i, j))
  <1> DEFINE u == Swap(t, i, j)
  <1>1. u = [t EXCEPT ![i] = t[j], ![j] = t[i]]
    BY DEF Swap
  <1>2. u \in [Index -> Area]
    BY <1>1
  <1>3. \A k \in Index : u[k] = IF k = i THEN t[j] ELSE IF k = j THEN t[i] ELSE t[k]
    BY <1>1
  <1>4. ASSUME Permuted(t) PROVE Permuted(u)
    <2>1. PICK p \in Bijection(Index, DOMAIN given) : \A k \in Index : t[k] = given[p[k]]
      BY <1>4 DEF Permuted
    <2>2. /\ p \in [Index -> DOMAIN given]
          /\ \A a, b \in Index : p[a] = p[b] => a = b
          /\ \A d \in DOMAIN given : \E a \in Index : p[a] = d
      BY <2>1, Fun_BijectionProperties
    <2> DEFINE q == [p EXCEPT ![i] = p[j], ![j] = p[i]]
               From(k) == IF k = i THEN j ELSE IF k = j THEN i ELSE k
    <2>3. q \in [Index -> DOMAIN given] /\ \A k \in Index : From(k) \in Index /\ q[k] = p[From(k)]
      BY <2>2
    <2>4. \A a, b \in Index : q[a] = q[b] => a = b
      BY <2>2, <2>3
    <2>5. ASSUME NEW d \in DOMAIN given PROVE \E a \in Index : q[a] = d
      <3>1. PICK a \in Index : p[a] = d
        BY <2>2
      <3>2. From(a) \in Index /\ From(From(a)) = a
        OBVIOUS
      <3> HIDE DEF From, q
      <3> QED BY <2>3, <3>1, <3>2
    <2>6. q \in Bijection(Index, DOMAIN given)
      BY <2>3, <2>4, <2>5, Fun_IsBij
    <2>7. \A k \in Index : u[k] = given[q[k]]
      BY <1>3, <2>1, <2>3
    <2> HIDE DEF u, q
    <2> QED BY <2>6, <2>7 DEF Permuted
  <1> QED BY <1>2, <1>3, <1>4

LEMMA LeastOf ==
    ASSUME NEW S \in SUBSET Nat, S # {}
    PROVE  Min(S) \in S /\ \A x \in S : Min(S) <= x
  <1> DEFINE Has(n) == (\E x \in S : x <= n) => \E m \in S : \A x \in S : m <= x
             T == {n \in Nat : Has(n)}
  <1>1. 0 \in T
    OBVIOUS
  <1>2. ASSUME NEW n \in T PROVE n + 1 \in T
    <2>1. n \in Nat /\ Has(n)
      OBVIOUS
    <2>2. CASE \E x \in S : x <= n
      BY <2>1, <2>2
    <2>3. CASE ~ \E x \in S : x <= n
      <3>1. \A x \in S : n + 1 <= x
        BY <2>1, <2>3
      <3>2. \A x \in S : x <= n + 1 => x = n + 1
        BY <2>1, <3>1
      <3> QED BY <2>1, <3>1, <3>2
    <2> QED BY <2>2, <2>3
  <1>3. T = Nat
    <2> HIDE DEF T
    <2>1. T \in SUBSET Nat
      BY DEF T
    <2> QED BY <1>1, <1>2, <2>1, Induction
  <1>4. PICK y \in S : TRUE
    OBVIOUS
  <1>5. \E m \in S : \A x \in S : m <= x
    <2>1. y \in T
      BY <1>3
    <2> QED BY <2>1, <1>4
  <1> QED BY <1>5 DEF Min

LEMMA GreatestOf ==
    ASSUME NEW b \in Nat, NEW S \in SUBSET (0..b), S # {}
    PROVE  Max(S) \in S /\ \A x \in S : Max(S) >= x
  <1> DEFINE D == {b - x : x \in S}
  <1>1. D \in SUBSET Nat /\ D # {}
    <2>1. \A x \in S : b - x \in Nat
      OBVIOUS
    <2> QED BY <2>1, Zenon
  <1>2. Min(D) \in D /\ \A d \in D : Min(D) <= d
    BY <1>1, LeastOf
  <1>3. PICK m \in S : Min(D) = b - m
    BY <1>2
  <1>4. \A x \in S : m >= x
    <2> SUFFICES ASSUME NEW x \in S PROVE m >= x
      OBVIOUS
    <2>1. Min(D) <= b - x
      BY <1>2
    <2>2. m \in Int /\ x \in Int
      OBVIOUS
    <2> QED BY <1>3, <2>1, <2>2
  <1>5. \E n \in S : \A x \in S : n >= x
    BY <1>4
  <1> QED BY <1>5 DEF Max

\* Where the two inner loops stop.
LEMMA UpStops ==
    ASSUME NEW t \in [Index -> Area], NEW i \in Index, NEW e \in Index, i <= e
    PROVE  /\ Up(t, i, e) \in i..e
           /\ Up(t, i, e) = e \/ t[Up(t, i, e)].type < t[e].type
           /\ \A k \in i..(Up(t, i, e) - 1) : t[k].type >= t[e].type
  <1> DEFINE S == {k \in i..e : k = e \/ t[k].type < t[e].type}
  <1>1. S \in SUBSET Nat /\ e \in S
    BY DEF Index
  <1>2. Min(S) \in S /\ \A x \in S : Min(S) <= x
    BY <1>1, LeastOf
  <1>3. Up(t, i, e) = Min(S)
    BY DEF Up
  <1>4. ASSUME NEW k \in i..(Min(S) - 1) PROVE t[k].type >= t[e].type
    <2>1. Min(S) \in i..e /\ k \in i..e /\ k # e /\ k < Min(S)
      BY <1>2 DEF Index
    <2>2. k \notin S
      <3> HIDE DEF S
      <3> QED BY <1>2, <2>1
    <2>3. k \in Index
      BY <2>1 DEF Index
    <2>4. t[k].type \in Nat /\ t[e].type \in Nat
      BY <2>3 DEF Area
    <2> QED BY <2>1, <2>2, <2>4
  <1> QED BY <1>2, <1>3, <1>4

LEMMA DownStops ==
    ASSUME NEW t \in [Index -> Area], NEW s \in Index, NEW j \in Index, NEW e \in Index, s <= j
    PROVE  /\ Down(t, s, j, e) \in s..j
           /\ Down(t, s, j, e) = s \/ t[Down(t, s, j, e)].type >= t[e].type
           /\ \A k \in (Down(t, s, j, e) + 1)..j : t[k].type < t[e].type
  <1> DEFINE S == {k \in s..j : k = s \/ t[k].type >= t[e].type}
  <1>1. S \in SUBSET (0..j) /\ s \in S /\ j \in Nat
    BY DEF Index
  <1>2. Max(S) \in S /\ \A x \in S : Max(S) >= x
    BY <1>1, GreatestOf
  <1>3. Down(t, s, j, e) = Max(S)
    BY DEF Down
  <1>4. ASSUME NEW k \in (Max(S) + 1)..j PROVE t[k].type < t[e].type
    <2>1. Max(S) \in s..j /\ k \in s..j /\ k # s /\ k > Max(S)
      BY <1>2 DEF Index
    <2>2. k \notin S
      <3> HIDE DEF S
      <3> QED BY <1>2, <2>1
    <2>3. k \in Index
      BY <2>1 DEF Index
    <2>4. t[k].type \in Nat /\ t[e].type \in Nat
      BY <2>3 DEF Area
    <2> QED BY <2>1, <2>2, <2>4
  <1> QED BY <1>2, <1>3, <1>4

\* The index before n, in a byte.
LEMMA ByteBefore ==
    ASSUME NEW n \in Nat, n < 256
    PROVE  (n - 1) % 256 = IF n = 0 THEN 255 ELSE n - 1
  BY SMT

LEMMA CopyStep ==
    ASSUME NEW regions \in Seq(Area), Len(regions) < 255, Copy(regions), phase = "boot",
           cursor = <<>>
    PROVE  SortOK'
  <1>1. /\ given' = regions /\ mmap' = FromZero(regions) /\ cursor' = <<>>
        /\ ranges' = <<<<0, (Len(regions) - 1) % 256>>>>
    BY DEF Copy
  <1> DEFINE N == Len(regions)
             I == 0..(N - 1)
  <1>2. N \in Nat /\ DOMAIN regions = 1..N /\ \A i \in 1..N : regions[i] \in Area
    BY LenProperties, ElementOfSeq
  <1>3. Index' = I /\ Reported'
    BY <1>1 DEF Index, Reported
  <1>4. mmap' = [i \in I |-> regions[i + 1]]
    BY <1>1 DEF FromZero
  <1>5. mmap' \in [I -> Area]
    BY <1>2, <1>4
  <1>6. Permuted(mmap)'
    <2> DEFINE p == [i \in I |-> i + 1]
    <2>1. p \in [I -> 1..N] /\ \A i \in I : p[i] = i + 1
      BY <1>2
    <2>2. \A a, b \in I : p[a] = p[b] => a = b
      BY <2>1
    <2>3. ASSUME NEW d \in 1..N PROVE \E a \in I : p[a] = d
      <3>1. d - 1 \in I /\ p[d - 1] = d
        BY <1>2
      <3> HIDE DEF p, I
      <3> QED BY <3>1
    <2>4. p \in Bijection(I, 1..N)
      BY <2>1, <2>2, <2>3, Fun_IsBij
    <2>5. \A i \in I : mmap'[i] = given'[p[i]]
      BY <1>1, <1>4
    <2>6. DOMAIN given' = 1..N
      BY <1>1, <1>2
    <2> HIDE DEF p, I, N
    <2> QED BY <1>3, <2>4, <2>5, <2>6 DEF Permuted
  <1> DEFINE e == (N - 1) % 256
  <1>7. e \in Nat /\ (N = 0 => e = 255) /\ (N # 0 => e = N - 1)
    <2>1. N \in Nat /\ N < 256
      BY <1>2
    <2> HIDE DEF N
    <2> QED BY <2>1, ByteBefore
  <1>8. /\ ranges' = <<<<0, e>>>> /\ ranges' \in Seq(Nat \X Nat) /\ DOMAIN ranges' = {1}
        /\ ranges'[1] = <<0, e>>
    BY <1>1, <1>7
  <1> HIDE DEF e
  <1>9. Wrapped' <=> N = 0
    <2>1. N \in Nat /\ N < 255
      BY <1>2
    <2>2. ranges' # <<>>
      BY <1>8
    <2> HIDE DEF N
    <2> QED BY <1>7, <1>8, <2>1, <2>2 DEF Wrapped
  <1>10. RangesOK'
    <2>1. \A k \in DOMAIN ranges' : k = 1
      BY <1>8
    <2>2. ranges'[1][2] < Len(given') \/ Wrapped'
      <3>1. ranges'[1][2] = e /\ Len(given') = N
        BY <1>1, <1>8
      <3>2. N # 0 => e < N
        BY <1>2, <1>7
      <3> QED BY <1>9, <3>1, <3>2
    <2> QED BY <1>8, <2>1, <2>2 DEF RangesOK
  <1> HIDE DEF N
  <1>11. OrderOK'
    BY <1>2, <1>3, <1>7, <1>8, <1>9 DEF OrderOK, Inside
  <1>12. CursorOK'
    BY <1>1 DEF CursorOK
  <1> QED BY <1>3, <1>5, <1>6, <1>10, <1>11, <1>12 DEF SortOK

\* The range in hand and those behind it.
LEMMA HeadRange ==
    ASSUME SortOK, ranges # <<>>
    PROVE  /\ ranges \in Seq(Nat \X Nat) /\ Len(ranges) \in Nat \ {0}
           /\ DOMAIN ranges = 1..Len(ranges)
           /\ \A k \in DOMAIN ranges : ranges[k] \in Nat \X Nat
           /\ Start \in Nat /\ End \in Nat /\ ranges[1] = <<Start, End>>
           /\ Start = ranges[1][1] /\ End = ranges[1][2]
           /\ Len(given) \in Nat /\ Len(given) < 255
           /\ \A a \in Index : mmap[a].type \in Nat /\ a \in Nat
           /\ Tail(ranges) \in Seq(Nat \X Nat) /\ Len(Tail(ranges)) = Len(ranges) - 1
           /\ DOMAIN Tail(ranges) = 1..(Len(ranges) - 1)
           /\ \A k \in 1..(Len(ranges) - 1) : Tail(ranges)[k] = ranges[k + 1]
  <1>1. ranges \in Seq(Nat \X Nat)
    BY DEF SortOK, RangesOK
  <1>2. /\ Len(ranges) \in Nat \ {0} /\ DOMAIN ranges = 1..Len(ranges) /\ Head(ranges) = ranges[1]
        /\ \A k \in DOMAIN ranges : ranges[k] \in Nat \X Nat
    BY <1>1, EmptySeq, LenProperties, ElementOfSeq
  <1>3. Tail(ranges) \in Seq(Nat \X Nat) /\ Len(Tail(ranges)) = Len(ranges) - 1
        /\ \A k \in 1..(Len(ranges) - 1) : Tail(ranges)[k] = ranges[k + 1]
    BY <1>1
  <1>4. DOMAIN Tail(ranges) = 1..(Len(ranges) - 1)
    BY <1>3, LenProperties
  <1>5. 1 \in DOMAIN ranges
    BY <1>2
  <1>6. Start = ranges[1][1] /\ End = ranges[1][2] /\ ranges[1] \in Nat \X Nat
    BY <1>2, <1>5 DEF Start, End
  <1>7. Len(given) \in Nat /\ Len(given) < 255
    BY LenProperties DEF SortOK, Reported
  <1>8. \A a \in Index : mmap[a].type \in Nat /\ a \in Nat
    BY <1>7 DEF SortOK, Index, Area
  <1> QED BY <1>1, <1>2, <1>3, <1>4, <1>6, <1>7, <1>8

LEMMA SortNothingStep ==
    ASSUME SortOK, SortNothing
    PROVE  SortOK'
  <1>1. /\ ranges # <<>> /\ Start + 1 >= End /\ ranges' = Tail(ranges)
        /\ UNCHANGED <<given, mmap, cursor>>
    BY DEF SortNothing, Sorting
  <1>2. ~ Wrapped
    BY <1>1, HeadRange DEF Wrapped
  <1> DEFINE n == Len(ranges)
  <1>3. /\ n \in Nat \ {0} /\ DOMAIN ranges = 1..n /\ DOMAIN ranges' = 1..(n - 1)
        /\ \A k \in 1..(n - 1) : ranges'[k] = ranges[k + 1]
        /\ ranges' \in Seq(Nat \X Nat)
    BY <1>1, HeadRange
  <1>4. \A k \in 1..n : ranges[k][2] \in Nat /\ ranges[k][1] \in Nat
    BY <1>1, <1>3, HeadRange
  <1>5. \A k \in 1..n : ranges[k][2] < Len(given)
    BY <1>2, <1>3 DEF SortOK, RangesOK
  <1>6. \A k, l \in 1..n : k < l => ranges[k][2] < ranges[l][1]
    BY <1>2, <1>3 DEF SortOK, RangesOK
  <1>7. RangesOK'
    <2>1. \A k \in 1..(n - 1) : k + 1 \in 1..n
      BY <1>3
    <2>2. \A k, l \in 1..(n - 1) : k < l => k + 1 < l + 1
      BY <1>3
    <2>3. \A k \in 1..(n - 1) : ranges'[k][2] < Len(given')
      BY <1>1, <1>3, <1>5, <2>1
    <2>4. \A k, l \in 1..(n - 1) : k < l => ranges'[k][2] < ranges'[l][1]
      <3> HIDE DEF n
      <3> QED BY <1>3, <1>6, <2>1, <2>2
    <2> HIDE DEF n
    <2> QED BY <1>3, <2>3, <2>4 DEF RangesOK
  <1>8. OrderOK'
    <2> SUFFICES ASSUME NEW a \in Index, NEW b \in Index, a < b, mmap[a].type < mmap[b].type
                 PROVE  \/ \E k \in 1..(n - 1) : Inside(ranges[k + 1], a) /\ Inside(ranges[k + 1], b)
                        \/ /\ b = a + 1
                           /\ \A k \in 1..(n - 1) :
                                ~ Inside(ranges[k + 1], a) /\ ~ Inside(ranges[k + 1], b)
      <3>1. Index' = Index
        BY <1>1 DEF Index
      <3>2. \A c, d \in Index : mmap[c].type >= mmap[d].type \/ mmap[c].type < mmap[d].type
        BY <1>1, HeadRange
      <3>3. DOMAIN ranges' = 1..(n - 1) /\ mmap' = mmap
        BY <1>1, <1>3
      <3> HIDE DEF n
      <3> QED BY <1>3, <3>1, <3>2, <3>3 DEF OrderOK
    <2>1. \/ \E k \in 1..n : Inside(ranges[k], a) /\ Inside(ranges[k], b)
          \/ b = a + 1 /\ \A k \in 1..n : ~ Inside(ranges[k], a) /\ ~ Inside(ranges[k], b)
      <3>1. ~ mmap[a].type >= mmap[b].type
        BY <1>1, HeadRange
      <3>2. OrderOK
        BY DEF SortOK
      <3> HIDE DEF n
      <3> QED BY <1>2, <1>3, <3>1, <3>2 DEF OrderOK
    <2>2. \A k \in 1..(n - 1) : k + 1 \in 1..n
      BY <1>3
    <2>3. CASE b = a + 1 /\ \A k \in 1..n : ~ Inside(ranges[k], a) /\ ~ Inside(ranges[k], b)
      BY <2>2, <2>3
    <2>4. ASSUME NEW k \in 1..n, Inside(ranges[k], a), Inside(ranges[k], b), k # 1
          PROVE  \E l \in 1..(n - 1) : Inside(ranges[l + 1], a) /\ Inside(ranges[l + 1], b)
      <3>1. k - 1 \in 1..(n - 1) /\ (k - 1) + 1 = k
        BY <1>3, <2>4
      <3> QED BY <2>4, <3>1
    <2>5. ASSUME Inside(ranges[1], a), Inside(ranges[1], b)
          PROVE  /\ b = a + 1
                 /\ \A k \in 1..(n - 1) : ~ Inside(ranges[k + 1], a) /\ ~ Inside(ranges[k + 1], b)
      <3>1. a \in Nat /\ b \in Nat /\ b <= ranges[1][2] /\ ranges[1][1] <= a
            /\ ranges[1][1] + 1 >= ranges[1][2]
        BY <1>1, <2>5, HeadRange DEF Inside
      <3>2. 1 \in 1..n
        BY <1>3
      <3>3. b = a + 1
        BY <1>4, <3>1, <3>2
      <3>4. ASSUME NEW k \in 1..(n - 1)
            PROVE  ~ Inside(ranges[k + 1], a) /\ ~ Inside(ranges[k + 1], b)
        <4>1. ranges[1][2] < ranges[k + 1][1] /\ ranges[k + 1][1] \in Nat /\ ranges[1][2] \in Nat
          <5>1. k + 1 \in 1..n /\ 1 < k + 1
            BY <1>3
          <5> QED BY <1>4, <1>6, <3>2, <5>1
        <4> QED BY <3>1, <4>1 DEF Inside
      <3> QED BY <3>3, <3>4
    <2> QED BY <2>1, <2>3, <2>4, <2>5
  <1>9. CursorOK'
    <2>1. cursor = <<>>
      BY <1>1, HeadRange DEF SortOK, CursorOK
    <2> QED BY <1>1, <2>1 DEF CursorOK
  <1>10. Reported' /\ mmap' \in [Index' -> Area] /\ Permuted(mmap)'
    BY <1>1 DEF SortOK, Reported, Index, Permuted
  <1> QED BY <1>7, <1>8, <1>9, <1>10 DEF SortOK

\* No index is in two ranges.
LEMMA RangesApart ==
    ASSUME SortOK, ~ Wrapped, NEW k \in DOMAIN ranges, NEW l \in DOMAIN ranges, NEW a \in Index,
           Inside(ranges[k], a), Inside(ranges[l], a)
    PROVE  k = l
  <1>1. \A x, y \in DOMAIN ranges : x < y => ranges[x][2] < ranges[y][1]
    BY DEF SortOK, RangesOK
  <1>2. ranges \in Seq(Nat \X Nat)
    BY DEF SortOK, RangesOK
  <1>3. /\ k \in Nat /\ l \in Nat
        /\ ranges[k][1] \in Nat /\ ranges[k][2] \in Nat
        /\ ranges[l][1] \in Nat /\ ranges[l][2] \in Nat
    BY <1>2, LenProperties, ElementOfSeq
  <1>4. a \in Int
    BY DEF Index
  <1> QED BY <1>1, <1>3, <1>4 DEF Inside

\* Entries that change places within the range in hand.
Rearranged(u) ==
    /\ u \in [Index -> Area]
    /\ \A a \in Index : IF Inside(ranges[1], a)
                        THEN \E c \in Index : Inside(ranges[1], c) /\ u[a] = mmap[c]
                        ELSE u[a] = mmap[a]

\* They stay in order with all the others.
LEMMA OthersInOrder ==
    ASSUME SortOK, ranges # <<>>, ~ Wrapped, NEW u, Rearranged(u),
           NEW a \in Index, NEW b \in Index, a < b,
           ~ (Inside(ranges[1], a) /\ Inside(ranges[1], b))
    PROVE  \/ u[a].type >= u[b].type
           \/ \E k \in DOMAIN ranges :
                k # 1 /\ Inside(ranges[k], a) /\ Inside(ranges[k], b)
           \/ /\ b = a + 1
              /\ \A k \in DOMAIN ranges : ~ Inside(ranges[k], a) /\ ~ Inside(ranges[k], b)
  <1>1. 1 \in DOMAIN ranges /\ ranges[1][1] \in Nat /\ ranges[1][2] \in Nat
    BY HeadRange
  <1>2. a \in Nat /\ b \in Nat /\ \A c \in Index : c \in Nat
    BY HeadRange
  <1>3. ASSUME NEW c \in Index, NEW d \in Index, c < d,
               \/ Inside(ranges[1], c) /\ ~ Inside(ranges[1], d)
               \/ ~ Inside(ranges[1], c) /\ Inside(ranges[1], d)
        PROVE  mmap[c].type >= mmap[d].type
    <2>1. \A k \in DOMAIN ranges : ~ (Inside(ranges[k], c) /\ Inside(ranges[k], d))
      BY <1>1, <1>3, RangesApart
    <2>2. ~ \A k \in DOMAIN ranges : ~ Inside(ranges[k], c) /\ ~ Inside(ranges[k], d)
      BY <1>1, <1>3
    <2> QED BY <1>3, <2>1, <2>2 DEF SortOK, OrderOK
  <1>4. CASE ~ Inside(ranges[1], a) /\ ~ Inside(ranges[1], b)
    <2>1. u[a] = mmap[a] /\ u[b] = mmap[b]
      BY <1>4 DEF Rearranged
    <2> QED BY <1>4, <2>1 DEF SortOK, OrderOK
  <1>5. CASE Inside(ranges[1], a) /\ ~ Inside(ranges[1], b)
    <2>1. PICK c \in Index : Inside(ranges[1], c) /\ u[a] = mmap[c]
      BY <1>5 DEF Rearranged
    <2>2. u[b] = mmap[b]
      BY <1>5 DEF Rearranged
    <2>3. c < b
      BY <1>1, <1>2, <1>5, <2>1 DEF Inside
    <2>4. mmap[c].type >= mmap[b].type
      BY <1>3, <1>5, <2>1, <2>3
    <2> QED BY <2>1, <2>2, <2>4
  <1>6. CASE ~ Inside(ranges[1], a) /\ Inside(ranges[1], b)
    <2>1. PICK c \in Index : Inside(ranges[1], c) /\ u[b] = mmap[c]
      BY <1>6 DEF Rearranged
    <2>2. u[a] = mmap[a]
      BY <1>6 DEF Rearranged
    <2>3. a < c
      BY <1>1, <1>2, <1>6, <2>1 DEF Inside
    <2>4. mmap[a].type >= mmap[c].type
      BY <1>3, <1>6, <2>1, <2>3
    <2> QED BY <2>1, <2>2, <2>4
  <1> QED BY <1>4, <1>5, <1>6

LEMMA PartitionStartsStep ==
    ASSUME SortOK, PartitionStarts
    PROVE  SortOK'
  <1>1. /\ ranges # <<>> /\ Start + 1 < End /\ End \in DOMAIN mmap
        /\ cursor' = <<Start, End - 1>> /\ UNCHANGED <<given, mmap, ranges>>
    BY DEF PartitionStarts, Sorting
  <1>2. /\ Start \in Nat /\ End \in Nat /\ ranges[1] = <<Start, End>>
        /\ Len(given) \in Nat /\ Len(given) < 255
    BY <1>1, HeadRange
  <1>3. End \in Index /\ DOMAIN mmap = Index
    BY <1>1 DEF SortOK
  <1>4. ~ Wrapped
    <2>1. End # 255
      BY <1>2, <1>3 DEF Index
    <2> QED BY <1>2, <2>1 DEF Wrapped
  <1>5. CursorOK'
    <2>1. /\ cursor'[1] = Start /\ cursor'[2] = End - 1 /\ cursor' \in Nat \X Nat
          /\ Start' = Start /\ End' = End /\ Index' = Index
      BY <1>1, <1>2 DEF Start, End, Index
    <2>2. Wrapped' = Wrapped
      BY <1>1 DEF Wrapped
    <2> QED BY <1>1, <1>2, <1>3, <1>4, <2>1, <2>2 DEF CursorOK
  <1>6. RangesOK' /\ OrderOK'
    BY <1>1 DEF SortOK, RangesOK, OrderOK, Wrapped, Index
  <1>7. Reported' /\ mmap' \in [Index' -> Area] /\ Permuted(mmap)'
    BY <1>1 DEF SortOK, Reported, Index, Permuted
  <1> QED BY <1>5, <1>6, <1>7 DEF SortOK

LEMMA SweepStep ==
    ASSUME SortOK, Sweep
    PROVE  SortOK'
  <1> DEFINE s == Start
             e == End
             i == cursor[1]
             j == cursor[2]
             up == Up(mmap, i, e)
             down == Down(mmap, s, j, e)
  <1>1. /\ ranges # <<>> /\ cursor # <<>> /\ i < j
        /\ mmap' = (IF up < down THEN Swap(mmap, up, down) ELSE mmap)
        /\ cursor' = <<up, down>> /\ UNCHANGED <<given, ranges>>
    BY DEF Sweep, Sorting
  <1>2. /\ s \in Nat /\ e \in Nat /\ ranges[1] = <<s, e>>
        /\ ranges[1][1] = s /\ ranges[1][2] = e
        /\ Len(given) \in Nat
        /\ \A a \in Index : mmap[a].type \in Nat
    BY <1>1, HeadRange
  <1>3. /\ ~ Wrapped /\ i \in Nat /\ j \in Nat
        /\ s + 1 < e /\ e \in Index
        /\ s <= i /\ i <= e /\ s <= j /\ j < e
        /\ \A k \in s..(i - 1) : mmap[k].type >= mmap[e].type
        /\ \A k \in (j + 1)..(e - 1) : mmap[k].type < mmap[e].type
    BY <1>1 DEF SortOK, CursorOK
  <1>4. mmap \in [Index -> Area] /\ Permuted(mmap)
    BY DEF SortOK
  <1> HIDE DEF s, e, i, j
  <1>5. i \in Index /\ j \in Index /\ s \in Index /\ e < Len(given)
    BY <1>2, <1>3 DEF Index
  <1>6. /\ up \in i..e
        /\ up = e \/ mmap[up].type < mmap[e].type
        /\ \A k \in i..(up - 1) : mmap[k].type >= mmap[e].type
    BY <1>3, <1>4, <1>5, UpStops
  <1>7. /\ down \in s..j
        /\ down = s \/ mmap[down].type >= mmap[e].type
        /\ \A k \in (down + 1)..j : mmap[k].type < mmap[e].type
    BY <1>3, <1>4, <1>5, DownStops
  <1> HIDE DEF up, down
  <1>8. up \in Index /\ down \in Index /\ up \in Nat /\ down \in Nat
    BY <1>2, <1>3, <1>5, <1>6, <1>7 DEF Index
  <1>9. /\ mmap' \in [Index -> Area] /\ Permuted(mmap')
        /\ \A k \in Index : mmap'[k] = IF up < down /\ k = up THEN mmap[down]
                                       ELSE IF up < down /\ k = down THEN mmap[up] ELSE mmap[k]
    <2>1. CASE up < down
      <3>1. up # down
        BY <1>8, <2>1
      <3> QED BY <1>1, <1>4, <1>8, <2>1, <3>1, SwapElements
    <2>2. CASE ~ up < down
      BY <1>1, <1>4, <2>2
    <2> QED BY <2>1, <2>2
  <1>10. Rearranged(mmap')
    <2>1. s <= up /\ up <= e /\ s <= down /\ down <= e
      BY <1>2, <1>3, <1>6, <1>7, <1>8
    <2>2. Inside(ranges[1], up) /\ Inside(ranges[1], down)
      BY <1>2, <2>1 DEF Inside
    <2> QED BY <1>8, <1>9, <2>2 DEF Rearranged
  <1>11. Index' = Index /\ Wrapped' = Wrapped /\ Start' = s /\ End' = e /\ DOMAIN ranges' = DOMAIN ranges
    BY <1>1 DEF Index, Wrapped, Start, End, s, e
  <1>12. OrderOK'
    <2> SUFFICES ASSUME NEW a \in Index, NEW b \in Index, a < b
                 PROVE  \/ mmap'[a].type >= mmap'[b].type
                        \/ \E k \in DOMAIN ranges :
                             Inside(ranges[k], a) /\ Inside(ranges[k], b)
                        \/ /\ b = a + 1
                           /\ \A k \in DOMAIN ranges :
                                ~ Inside(ranges[k], a) /\ ~ Inside(ranges[k], b)
      BY <1>1, <1>11 DEF OrderOK
    <2>1. 1 \in DOMAIN ranges
      BY <1>1, HeadRange
    <2>2. CASE Inside(ranges[1], a) /\ Inside(ranges[1], b)
      BY <2>1, <2>2
    <2>3. CASE ~ (Inside(ranges[1], a) /\ Inside(ranges[1], b))
      BY <1>1, <1>3, <1>10, <2>3, OthersInOrder
    <2> QED BY <2>2, <2>3
  <1>13. CursorOK'
    <2>1. cursor'[1] = up /\ cursor'[2] = down /\ cursor' \in Nat \X Nat
      BY <1>1, <1>8
    <2>2. mmap'[e] = mmap[e]
      BY <1>3, <1>6, <1>7, <1>8, <1>9, <1>2
    <2>3. ASSUME NEW k \in s..(up - 1) PROVE mmap'[k].type >= mmap'[e].type
      <3>1. mmap[k].type >= mmap[e].type
        BY <1>2, <1>3, <1>6, <1>8, <2>3
      <3>2. k \in Index /\ k # up /\ (up < down => k # down)
        BY <1>2, <1>5, <1>6, <1>7, <1>8, <1>3 DEF Index
      <3> QED BY <1>9, <2>2, <3>1, <3>2
    <2>4. ASSUME NEW k \in (down + 1)..(e - 1) PROVE mmap'[k].type < mmap'[e].type
      <3>1. mmap[k].type < mmap[e].type
        BY <1>2, <1>3, <1>7, <1>8, <2>4
      <3>2. k \in Index /\ k # down /\ (up < down => k # up)
        BY <1>2, <1>5, <1>6, <1>7, <1>8, <1>3 DEF Index
      <3> QED BY <1>9, <2>2, <3>1, <3>2
    <2>5. up >= down => up = e \/ mmap'[up].type < mmap'[e].type
      BY <1>6, <1>8, <1>9, <2>2
    <2>6. s <= up /\ up <= e /\ s <= down /\ down < e
      BY <1>2, <1>3, <1>6, <1>7, <1>8
    <2> QED BY <1>1, <1>3, <1>11, <2>1, <2>3, <2>4, <2>5, <2>6 DEF CursorOK
  <1>14. RangesOK'
    BY <1>1, <1>11 DEF SortOK, RangesOK
  <1>15. Reported' /\ Permuted(mmap)'
    BY <1>1, <1>9, <1>11 DEF SortOK, Reported, Permuted
  <1> QED BY <1>9, <1>11, <1>12, <1>13, <1>14, <1>15 DEF SortOK

\* The elements of one sequence after another.
LEMMA Concatenation ==
    ASSUME NEW S, NEW q \in Seq(S), NEW r \in Seq(S)
    PROVE  /\ q \o r \in Seq(S) /\ Len(q) \in Nat /\ Len(r) \in Nat
           /\ Len(q \o r) = Len(q) + Len(r) /\ DOMAIN (q \o r) = 1..(Len(q) + Len(r))
           /\ \A i \in 1..Len(q) : (q \o r)[i] = q[i]
           /\ \A i \in 1..Len(r) : (q \o r)[Len(q) + i] = r[i]
           /\ \A i \in 1..(Len(q) + Len(r)) :
                \/ i \in 1..Len(q)
                \/ i - Len(q) \in 1..Len(r) /\ i = Len(q) + (i - Len(q))
  <1> DEFINE c == q \o r
  <1>1. /\ c \in Seq(S) /\ Len(c) = Len(q) + Len(r) /\ Len(q) \in Nat /\ Len(r) \in Nat
        /\ \A i \in 1..(Len(q) + Len(r)) : c[i] = IF i <= Len(q) THEN q[i] ELSE r[i - Len(q)]
    BY ConcatProperties, LenProperties
  <1> HIDE DEF c
  <1>2. DOMAIN c = 1..(Len(q) + Len(r))
    BY <1>1, LenProperties
  <1>3. \A i \in 1..Len(q) : i \in 1..(Len(q) + Len(r)) /\ i <= Len(q)
    BY <1>1
  <1>4. \A i \in 1..Len(r) : /\ Len(q) + i \in 1..(Len(q) + Len(r))
                             /\ ~ Len(q) + i <= Len(q) /\ (Len(q) + i) - Len(q) = i
    BY <1>1
  <1>5. \A i \in 1..(Len(q) + Len(r)) :
          i \in 1..Len(q) \/ (i - Len(q) \in 1..Len(r) /\ i = Len(q) + (i - Len(q)))
    BY <1>1
  <1>6. \A i \in 1..Len(r) : c[Len(q) + i] = r[i]
    BY <1>1, <1>4
  <1> QED BY <1>1, <1>2, <1>3, <1>5, <1>6 DEF c

\* What the two calls that follow a partition are given.
LEMMA Split ==
    ASSUME SortOK, ranges # <<>>, NEW n \in Index, Start <= n, n <= End,
           ranges' = Subranges(Start, n, End) \o Tail(ranges)
    PROVE  /\ ranges' \in Seq(Nat \X Nat)
           /\ DOMAIN ranges' = 1..(Len(ranges) + 1)
           /\ ranges'[1] = <<Start, IF n = 0 THEN 255 ELSE n - 1>>
           /\ ranges'[2] = <<n + 1, End>>
           /\ \A k \in 3..(Len(ranges) + 1) : ranges'[k] = ranges[k - 1]
           /\ Wrapped' <=> n = 0
  <1>1. /\ Len(ranges) \in Nat \ {0} /\ Start \in Nat /\ End \in Nat /\ n \in Nat /\ n < 255
        /\ Tail(ranges) \in Seq(Nat \X Nat) /\ Len(Tail(ranges)) = Len(ranges) - 1
        /\ \A k \in 1..(Len(ranges) - 1) : Tail(ranges)[k] = ranges[k + 1]
    BY HeadRange DEF Index
  <1> DEFINE A == <<Start, (n - 1) % 256>>
             B == <<n + 1, End>>
  <1>2. (n - 1) % 256 = IF n = 0 THEN 255 ELSE n - 1
    BY <1>1, ByteBefore
  <1>3. A \in Nat \X Nat /\ B \in Nat \X Nat
    BY <1>1, <1>2
  <1>4. ranges' = <<A, B>> \o Tail(ranges)
    BY DEF Subranges
  <1> HIDE DEF A, B
  <1> DEFINE P == <<A, B>>
             R == Tail(ranges)
  <1>5. P \in Seq(Nat \X Nat) /\ Len(P) = 2 /\ P[1] = A /\ P[2] = B
    BY <1>3
  <1>6. /\ ranges' \in Seq(Nat \X Nat) /\ Len(ranges') = 2 + (Len(ranges) - 1)
        /\ DOMAIN ranges' = 1..(2 + (Len(ranges) - 1))
        /\ \A k \in 1..2 : ranges'[k] = P[k]
        /\ \A k \in 1..(Len(ranges) - 1) : ranges'[2 + k] = R[k]
    <2>1. ranges' = P \o R /\ R \in Seq(Nat \X Nat) /\ Len(R) = Len(ranges) - 1
      BY <1>1, <1>4
    <2> HIDE DEF P, R
    <2> DEFINE c == P \o R
    <2>2. /\ c \in Seq(Nat \X Nat) /\ Len(c) = Len(P) + Len(R)
          /\ DOMAIN c = 1..(Len(P) + Len(R))
          /\ \A k \in 1..Len(P) : c[k] = P[k]
          /\ \A k \in 1..Len(R) : c[Len(P) + k] = R[k]
      <3>1. P \in Seq(Nat \X Nat) /\ R \in Seq(Nat \X Nat)
        BY <1>5, <2>1
      <3> HIDE DEF c
      <3> QED BY <3>1, Concatenation DEF c
    <2>3. c = ranges'
      BY <2>1
    <2> HIDE DEF c
    <2> QED BY <1>5, <2>1, <2>2, <2>3
  <1>7. DOMAIN ranges' = 1..(Len(ranges) + 1)
    BY <1>1, <1>6
  <1>8. ranges'[1] = A /\ ranges'[2] = B
    BY <1>5, <1>6
  <1>9. \A k \in 3..(Len(ranges) + 1) : ranges'[k] = ranges[k - 1]
    <2> SUFFICES ASSUME NEW k \in 3..(Len(ranges) + 1) PROVE ranges'[k] = ranges[k - 1]
      OBVIOUS
    <2>1. k - 2 \in 1..(Len(ranges) - 1) /\ (k - 2) + 1 = k - 1 /\ 2 + (k - 2) = k
      BY <1>1
    <2>2. ranges'[2 + (k - 2)] = Tail(ranges)[k - 2]
          /\ Tail(ranges)[k - 2] = ranges[(k - 2) + 1]
      BY <1>1, <1>6, <2>1
    <2> QED BY <2>1, <2>2
  <1>10. Wrapped' <=> n = 0
    <2>1. ranges' # <<>>
      BY <1>1, <1>6, EmptySeq
    <2> DEFINE l == (n - 1) % 256
    <2>2. l = IF n = 0 THEN 255 ELSE n - 1
      BY <1>2
    <2> HIDE DEF l
    <2>3. A = <<Start, l>>
      BY DEF A, l
    <2>4. A[1] = Start /\ A[2] = l
      BY <2>3
    <2>5. ranges'[1][1] = Start /\ ranges'[1][2] = l
      BY <1>8, <2>4
    <2>6. l = 255 <=> n = 0
      BY <1>1, <2>2, SMT
    <2>7. n = 0 => Start = 0
      BY <1>1
    <2> QED BY <2>1, <2>5, <2>6, <2>7 DEF Wrapped
  <1> QED BY <1>1, <1>2, <1>6, <1>7, <1>8, <1>9, <1>10 DEF A, B

\* The pivot is between the greater and the smaller types.
LEMMA PivotPlaced ==
    ASSUME SortOK, ranges # <<>>, cursor # <<>>, cursor[1] >= cursor[2],
           mmap' = Placed(mmap, cursor[1], End)
    PROVE  /\ Rearranged(mmap') /\ mmap' \in [Index -> Area] /\ Permuted(mmap')
           /\ cursor[1] \in Index /\ Start <= cursor[1] /\ cursor[1] <= End /\ End < Len(given)
           /\ \A a, b \in Index : Start <= a /\ a < b /\ b <= End /\ a <= cursor[1] /\ cursor[1] <= b
                 => mmap'[a].type >= mmap'[b].type
  <1> DEFINE s == Start
             e == End
             n == cursor[1]
  <1>1. /\ s \in Nat /\ e \in Nat /\ ranges[1] = <<s, e>>
        /\ ranges[1][1] = s /\ ranges[1][2] = e
        /\ Len(given) \in Nat
        /\ \A a \in Index : mmap[a].type \in Nat /\ a \in Nat
    BY HeadRange
  <1>2. /\ n \in Nat /\ cursor[2] \in Nat
        /\ s + 1 < e /\ e \in Index
        /\ s <= n /\ n <= e /\ cursor[2] < e
        /\ \A k \in s..(n - 1) : mmap[k].type >= mmap[e].type
        /\ \A k \in (cursor[2] + 1)..(e - 1) : mmap[k].type < mmap[e].type
        /\ n = e \/ mmap[n].type < mmap[e].type
    BY DEF SortOK, CursorOK
  <1>3. mmap \in [Index -> Area] /\ Permuted(mmap)
    BY DEF SortOK
  <1>4. mmap' = Placed(mmap, n, e) /\ n >= cursor[2]
    OBVIOUS
  <1> HIDE DEF s, e, n
  <1>5. n \in Index /\ s \in Index /\ e < Len(given)
    BY <1>1, <1>2 DEF Index
  <1>6. /\ mmap' \in [Index -> Area] /\ Permuted(mmap')
        /\ \A k \in Index : mmap'[k] = IF n # e /\ k = n THEN mmap[e]
                                       ELSE IF n # e /\ k = e THEN mmap[n] ELSE mmap[k]
    <2>1. CASE n = e
      BY <1>3, <1>4, <2>1 DEF Placed
    <2>2. CASE n # e
      BY <1>2, <1>3, <1>4, <1>5, <2>2, SwapElements DEF Placed
    <2> QED BY <2>1, <2>2
  <1>7. Rearranged(mmap')
    <2>1. Inside(ranges[1], n) /\ Inside(ranges[1], e)
      BY <1>1, <1>2 DEF Inside
    <2> QED BY <1>2, <1>5, <1>6, <2>1 DEF Rearranged
  <1>8. mmap'[n] = mmap[e]
    BY <1>2, <1>5, <1>6
  <1>9. ASSUME NEW a \in Index, s <= a, a < n PROVE mmap'[a].type >= mmap[e].type
    BY <1>1, <1>2, <1>6, <1>9
  <1>10. ASSUME NEW b \in Index, n < b, b <= e PROVE mmap'[b].type <= mmap[e].type
    <2>1. b = e \/ b \in (cursor[2] + 1)..(e - 1)
      BY <1>1, <1>2, <1>4, <1>10
    <2>2. mmap[b].type \in Nat /\ mmap[e].type \in Nat /\ mmap[n].type \in Nat
      BY <1>1, <1>2, <1>5
    <2> QED BY <1>2, <1>6, <1>10, <2>1, <2>2
  <1>11. ASSUME NEW a \in Index, NEW b \in Index, s <= a, a < b, b <= e, a <= n, n <= b
         PROVE  mmap'[a].type >= mmap'[b].type
    <2>1. /\ a = n \/ a < n
          /\ b = n \/ n < b
      BY <1>1, <1>2, <1>11
    <2>2. /\ mmap'[a].type \in Nat /\ mmap'[b].type \in Nat /\ mmap[e].type \in Nat
      BY <1>6, <1>2, <1>1 DEF Area
    <2>3. mmap'[a].type >= mmap[e].type
      BY <1>8, <1>9, <1>11, <2>1, <2>2
    <2>4. mmap[e].type >= mmap'[b].type
      BY <1>8, <1>10, <1>11, <2>1, <2>2
    <2> QED BY <2>2, <2>3, <2>4
  <1> QED BY <1>2, <1>5, <1>6, <1>7, <1>11 DEF s, e, n

LEMMA PartitionEndsStep ==
    ASSUME SortOK, PartitionEnds
    PROVE  SortOK'
  <1> DEFINE s == Start
             e == End
             n == cursor[1]
             m == Len(ranges)
  <1>1. /\ ranges # <<>> /\ cursor # <<>> /\ cursor[1] >= cursor[2]
        /\ mmap' = Placed(mmap, cursor[1], End)
        /\ ranges' = Subranges(Start, cursor[1], End) \o Tail(ranges)
        /\ cursor' = <<>> /\ UNCHANGED given
    BY DEF PartitionEnds, Sorting
  <1>2. /\ s \in Nat /\ e \in Nat /\ ranges[1] = <<s, e>>
        /\ ranges[1][1] = s /\ ranges[1][2] = e
        /\ m \in Nat \ {0} /\ DOMAIN ranges = 1..m
        /\ \A k \in 1..m : ranges[k][1] \in Nat /\ ranges[k][2] \in Nat
        /\ Len(given) \in Nat
        /\ \A a \in Index : a \in Nat
    BY <1>1, HeadRange
  <1>3. /\ Rearranged(mmap') /\ mmap' \in [Index -> Area] /\ Permuted(mmap')
        /\ n \in Index /\ s <= n /\ n <= e /\ e < Len(given)
        /\ \A a, b \in Index : s <= a /\ a < b /\ b <= e /\ a <= n /\ n <= b
              => mmap'[a].type >= mmap'[b].type
    BY <1>1, PivotPlaced
  <1>4. /\ ranges' \in Seq(Nat \X Nat)
        /\ DOMAIN ranges' = 1..(m + 1)
        /\ ranges'[1] = <<s, IF n = 0 THEN 255 ELSE n - 1>>
        /\ ranges'[2] = <<n + 1, e>>
        /\ \A k \in 3..(m + 1) : ranges'[k] = ranges[k - 1]
        /\ Wrapped' <=> n = 0
    BY <1>1, <1>3, Split
  <1>5. /\ ~ Wrapped
        /\ \A k \in 1..m : ranges[k][2] < Len(given)
        /\ \A k, l \in 1..m : k < l => ranges[k][2] < ranges[l][1]
    <2>1. ~ Wrapped
      BY <1>1 DEF SortOK, CursorOK
    <2> QED BY <1>2, <2>1 DEF SortOK, RangesOK
  <1> HIDE DEF s, e, n, m
  <1>6. /\ \A k \in 3..(m + 1) : k - 1 \in 1..m /\ 1 < k - 1
        /\ 1 \in 1..m
        /\ \A k \in 1..(m + 1) : k = 1 \/ k = 2 \/ k \in 3..(m + 1)
        /\ n \in Nat
    BY <1>2, <1>3
  <1>7. /\ ranges'[1][1] = s /\ ranges'[2][1] = n + 1 /\ ranges'[2][2] = e
        /\ n # 0 => ranges'[1][2] = n - 1
    BY <1>4
  <1>8. RangesOK'
    <2>1. ASSUME NEW k \in 1..(m + 1), k # 1 \/ n # 0 PROVE ranges'[k][2] < Len(given)
      <3>1. CASE k = 1
        BY <1>2, <1>3, <1>6, <1>7, <2>1, <3>1
      <3>2. CASE k = 2
        BY <1>3, <1>7, <3>2
      <3>3. CASE k \in 3..(m + 1)
        BY <1>4, <1>5, <1>6, <3>3
      <3> QED BY <1>6, <3>1, <3>2, <3>3
    <2>2. ASSUME NEW k \in 1..(m + 1), NEW l \in 1..(m + 1), k < l, k # 1 \/ n # 0
          PROVE  ranges'[k][2] < ranges'[l][1]
      <3>1. l = 2 \/ l \in 3..(m + 1)
        BY <1>2, <1>6, <2>2
      <3>2. CASE k = 1 /\ l = 2
        BY <1>6, <1>7, <2>2, <3>2
      <3>3. CASE k \in {1, 2} /\ l \in 3..(m + 1)
        <4>1. e < ranges[l - 1][1] /\ ranges[l - 1][1] \in Nat /\ ranges'[l] = ranges[l - 1]
          BY <1>2, <1>4, <1>5, <1>6, <3>3
        <4>2. ranges'[k][2] <= e
          BY <1>2, <1>3, <1>6, <1>7, <2>2, <3>3
        <4>3. ranges'[k][2] \in Nat
          BY <1>2, <1>6, <1>7, <2>2, <3>3
        <4> QED BY <1>2, <4>1, <4>2, <4>3
      <3>4. CASE k \in 3..(m + 1)
        <4>1. l \in 3..(m + 1)
          BY <1>2, <2>2, <3>4
        <4>2. k - 1 < l - 1
          BY <1>2, <2>2, <3>4, <4>1
        <4> QED BY <1>4, <1>5, <1>6, <3>4, <4>1, <4>2
      <3> QED BY <1>6, <2>2, <3>1, <3>2, <3>3, <3>4
    <2>3. Len(given') = Len(given)
      BY <1>1
    <2> QED BY <1>4, <2>1, <2>2, <2>3 DEF RangesOK
  <1>9. Index' = Index
    BY <1>1 DEF Index
  <1>10. OrderOK'
    <2> SUFFICES ASSUME n # 0, NEW a \in Index, NEW b \in Index, a < b
                 PROVE  \/ mmap'[a].type >= mmap'[b].type
                        \/ \E k \in 1..(m + 1) :
                             Inside(ranges'[k], a) /\ Inside(ranges'[k], b)
                        \/ /\ b = a + 1
                           /\ \A k \in 1..(m + 1) :
                                ~ Inside(ranges'[k], a) /\ ~ Inside(ranges'[k], b)
      BY <1>4, <1>9 DEF OrderOK
    <2>1. a \in Nat /\ b \in Nat
      BY <1>2
    <2>2. CASE Inside(ranges[1], a) /\ Inside(ranges[1], b)
      <3>1. s <= a /\ b <= e
        BY <1>2, <2>2 DEF Inside
      <3>2. CASE a <= n /\ n <= b
        BY <1>3, <3>1, <3>2
      <3>3. CASE b < n
        <4>1. Inside(ranges'[1], a) /\ Inside(ranges'[1], b)
          BY <1>2, <1>6, <1>7, <2>1, <3>1, <3>3 DEF Inside
        <4> QED BY <1>2, <4>1
      <3>4. CASE n < a
        <4>1. Inside(ranges'[2], a) /\ Inside(ranges'[2], b)
          BY <1>2, <1>6, <1>7, <2>1, <3>1, <3>4 DEF Inside
        <4>2. 2 \in 1..(m + 1)
          BY <1>2
        <4> QED BY <4>1, <4>2
      <3> QED BY <1>6, <2>1, <3>2, <3>3, <3>4
    <2>3. CASE ~ (Inside(ranges[1], a) /\ Inside(ranges[1], b))
      <3>1. \/ mmap'[a].type >= mmap'[b].type
            \/ \E k \in 1..m : k # 1 /\ Inside(ranges[k], a) /\ Inside(ranges[k], b)
            \/ b = a + 1 /\ \A k \in 1..m : ~ Inside(ranges[k], a) /\ ~ Inside(ranges[k], b)
        BY <1>1, <1>2, <1>3, <1>5, <2>3, OthersInOrder
      <3>2. ASSUME NEW k \in 1..m, k # 1, Inside(ranges[k], a), Inside(ranges[k], b)
            PROVE  \E l \in 1..(m + 1) : Inside(ranges'[l], a) /\ Inside(ranges'[l], b)
        <4>1. k + 1 \in 3..(m + 1) /\ (k + 1) - 1 = k /\ k + 1 \in 1..(m + 1)
          BY <1>2, <3>2
        <4>2. ranges'[k + 1] = ranges[k]
          BY <1>4, <4>1
        <4> QED BY <3>2, <4>1, <4>2
      <3>3. ASSUME NEW c \in Index, \A k \in 1..m : ~ Inside(ranges[k], c)
            PROVE  \A k \in 1..(m + 1) : ~ Inside(ranges'[k], c)
        <4>1. ~ (s <= c /\ c <= e) /\ c \in Nat
          BY <1>2, <1>6, <3>3 DEF Inside
        <4>2. ~ Inside(ranges'[1], c) /\ ~ Inside(ranges'[2], c)
          BY <1>2, <1>3, <1>6, <1>7, <4>1 DEF Inside
        <4>3. \A k \in 3..(m + 1) : ~ Inside(ranges'[k], c)
          BY <1>4, <1>6, <3>3
        <4> QED BY <1>6, <4>2, <4>3
      <3> QED BY <3>1, <3>2, <3>3
    <2> QED BY <2>2, <2>3
  <1>11. CursorOK'
    BY <1>1 DEF CursorOK
  <1>12. Reported' /\ Permuted(mmap)'
    BY <1>1, <1>3, <1>9 DEF SortOK, Reported, Permuted
  <1> QED BY <1>3, <1>8, <1>9, <1>10, <1>11, <1>12 DEF SortOK

-----------------------------------------------------------------------------
(* The tree                                                                *)

LEMMA TreeTypes ==
    ASSUME NEW zone, TreeOK(zone)
    PROVE  /\ Len(tree) \in Nat /\ DOMAIN tree = 1..Len(tree)
           /\ \A n \in DOMAIN tree :
                /\ tree[n] \in TreeNode /\ tree[n].min \in Nat /\ tree[n].max \in Nat
                /\ tree[n].min <= tree[n].max
                /\ tree[n].left \in Nat /\ tree[n].right \in Nat
                /\ zone[n] \subseteq Nat
           /\ \A c \in [node : 0..Len(tree), side : Side] :
                Beside(zone, c.node, c.side) \subseteq Nat
  <1>1. tree \in Seq(TreeNode) /\ zone \in [DOMAIN tree -> SUBSET Nat]
        /\ \A n \in DOMAIN tree : tree[n].min <= tree[n].max
    BY DEF TreeOK
  <1>2. Len(tree) \in Nat /\ DOMAIN tree = 1..Len(tree) /\ \A n \in DOMAIN tree : tree[n] \in TreeNode
    BY <1>1, LenProperties, ElementOfSeq
  <1>3. \A n \in DOMAIN tree : /\ tree[n].min \in Nat /\ tree[n].max \in Nat
                               /\ tree[n].left \in Nat /\ tree[n].right \in Nat
    BY <1>2 DEF TreeNode
  <1>4. ASSUME NEW c \in [node : 0..Len(tree), side : Side]
        PROVE  Beside(zone, c.node, c.side) \subseteq Nat
    <2>1. c.node = 0 \/ c.node \in DOMAIN tree
      BY <1>2, <1>4
    <2> QED BY <1>1, <2>1 DEF Beside, Null
  <1> QED BY <1>1, <1>2, <1>3, <1>4

LEMMA CallTypes ==
    ASSUME NEW c \in CallType
    PROVE  /\ c.node \in 0..Len(tree) /\ c.side \in Side
           /\ c.lo \in Nat /\ c.hi \in Nat /\ c.type \in Nat
  BY DEF CallType

\* The call in hand and those behind it.
LEMMA HeadCall ==
    ASSUME NEW S, NEW q \in Seq(S), q # <<>>
    PROVE  /\ Len(q) \in Nat \ {0} /\ DOMAIN q = 1..Len(q) /\ 1 \in DOMAIN q
           /\ Head(q) = q[1] /\ q[1] \in S
           /\ Tail(q) \in Seq(S) /\ DOMAIN Tail(q) = 1..(Len(q) - 1)
           /\ \A k \in DOMAIN Tail(q) : k + 1 \in DOMAIN q /\ Tail(q)[k] = q[k + 1]
           /\ \A k \in DOMAIN q : k = 1 \/ (k - 1 \in DOMAIN Tail(q) /\ q[k] = Tail(q)[k - 1])
  <1>1. Len(q) \in Nat \ {0} /\ DOMAIN q = 1..Len(q) /\ \A k \in DOMAIN q : q[k] \in S
    BY EmptySeq, LenProperties, ElementOfSeq
  <1>2. Tail(q) \in Seq(S) /\ Len(Tail(q)) = Len(q) - 1 /\ Head(q) = q[1]
        /\ \A k \in 1..(Len(q) - 1) : Tail(q)[k] = q[k + 1]
    OBVIOUS
  <1>3. DOMAIN Tail(q) = 1..(Len(q) - 1)
    BY <1>2, LenProperties
  <1>4. \A k \in 1..(Len(q) - 1) : k + 1 \in 1..Len(q)
    BY <1>1
  <1>5. \A k \in 1..Len(q) : k = 1 \/ (k - 1 \in 1..(Len(q) - 1) /\ (k - 1) + 1 = k)
    BY <1>1
  <1>6. 1 \in 1..Len(q)
    BY <1>1
  <1> QED BY <1>1, <1>2, <1>3, <1>4, <1>5, <1>6

\* A tree that is left as it is.
LEMMA TreeKept ==
    ASSUME NEW zone, TreeOK(zone), UNCHANGED tree
    PROVE  /\ TreeOK(zone)' /\ CallType' = CallType
           /\ \A n, a : Holds(n, a)' <=> Holds(n, a)
           /\ \A a : InTree(a)' <=> InTree(a)
           /\ \A n, side : Beside(zone, n, side)' = Beside(zone, n, side)
           /\ \A map, k : TypesOK(map, k)' <=> TypesOK(map, k)
           /\ \A e, c : CallOK(zone, e, c)' <=> CallOK(zone, e, c)
  <1>1. TreeOK(zone)'
    BY DEF TreeOK, Beside, Gaps, Holds
  <1>2. CallType' = CallType
    BY DEF CallType
  <1>3. \A n, a : Holds(n, a)' <=> Holds(n, a)
    BY DEF Holds
  <1>4. \A a : InTree(a)' <=> InTree(a)
    BY DEF InTree, Holds
  <1>5. \A n, side : Beside(zone, n, side)' = Beside(zone, n, side)
    BY DEF Beside
  <1>6. \A map, k : TypesOK(map, k)' <=> TypesOK(map, k)
    BY DEF TypesOK, Holds, Decides
  <1>7. \A e, c : CallOK(zone, e, c)' <=> CallOK(zone, e, c)
    BY <1>5 DEF CallOK
  <1> QED BY <1>1, <1>2, <1>3, <1>4, <1>5, <1>6, <1>7

\* What is left of a call at a node that is in its way.
LEMMA PieceAddresses ==
    ASSUME NEW lo \in Nat, NEW hi \in Nat, NEW node \in TreeNode,
           lo <= hi, node.min <= node.max
    PROVE  LET cut == Piece(lo, hi, node) IN
           /\ cut.left.some => /\ cut.left.lo \in Nat /\ cut.left.hi \in Nat
                               /\ cut.left.lo <= cut.left.hi
           /\ cut.right.some => /\ cut.right.lo \in Nat /\ cut.right.hi \in Nat
                                /\ cut.right.lo <= cut.right.hi
           /\ \A a \in Nat :
                /\ cut.left.some /\ a \in cut.left.lo..cut.left.hi
                     => a \in lo..hi /\ a < node.min
                /\ cut.right.some /\ a \in cut.right.lo..cut.right.hi
                     => a \in lo..hi /\ a > node.max
                /\ a \in lo..hi =>
                     \/ cut.left.some /\ a \in cut.left.lo..cut.left.hi
                     \/ cut.right.some /\ a \in cut.right.lo..cut.right.hi
                     \/ node.min <= a /\ a <= node.max
  <1> DEFINE cut == Piece(lo, hi, node)
             mi == node.min
             ma == node.max
  <1>1. mi \in Nat /\ ma \in Nat /\ mi <= ma
    BY DEF TreeNode
  <1>2. /\ cut.left.some <=> lo < mi
        /\ cut.right.some <=> hi > ma
    BY DEF Piece
  <1> DEFINE ll == cut.left.lo
             lh == cut.left.hi
             rl == cut.right.lo
             rh == cut.right.hi
  <1>3. ll = lo /\ lh = (IF mi > hi THEN hi ELSE mi - 1)
    BY DEF Piece
  <1>4. rh = hi /\ rl = (IF ma < lo THEN lo ELSE ma + 1)
    BY DEF Piece
  <1> HIDE DEF cut, mi, ma, ll, lh, rl, rh
  <1>5. ASSUME lo < mi
        PROVE  /\ ll \in Nat /\ lh \in Nat /\ ll <= lh
               /\ \A a \in Nat : a \in ll..lh <=> a \in lo..hi /\ a < mi
    BY <1>1, <1>3, <1>5
  <1>6. ASSUME hi > ma
        PROVE  /\ rl \in Nat /\ rh \in Nat /\ rl <= rh
               /\ \A a \in Nat : a \in rl..rh <=> a \in lo..hi /\ a > ma
    BY <1>1, <1>4, <1>6
  <1>7. ASSUME NEW a \in Nat, a \in lo..hi
        PROVE  \/ lo < mi /\ a < mi
               \/ hi > ma /\ a > ma
               \/ mi <= a /\ a <= ma
    BY <1>1, <1>7
  <1> QED BY <1>2, <1>5, <1>6, <1>7 DEF cut, mi, ma, ll, lh, rl, rh

\* A step of the tree leaves the sorted map alone.
LEMMA SortKept ==
    ASSUME SortOK, UNCHANGED <<given, mmap, ranges, cursor>>
    PROVE  SortOK' /\ Index' = Index
  <1>1. Index' = Index /\ Wrapped' = Wrapped /\ Start' = Start /\ End' = End
    BY DEF Index, Wrapped, Start, End
  <1>2. Reported' /\ RangesOK' /\ mmap' \in [Index' -> Area]
    BY <1>1 DEF SortOK, Reported, RangesOK
  <1>3. OrderOK'
    BY <1>1 DEF SortOK, OrderOK
  <1>4. CursorOK'
    BY <1>1 DEF SortOK, CursorOK
  <1>5. Permuted(mmap)'
    BY <1>1 DEF SortOK, Permuted
  <1> QED BY <1>1, <1>2, <1>3, <1>4, <1>5 DEF SortOK

LEMMA MapTypes ==
    ASSUME SortOK
    PROVE  /\ Len(given) \in Nat /\ DOMAIN mmap = Index
           /\ \A i \in Index : /\ i \in Nat /\ mmap[i] \in Area
                               /\ mmap[i].addr \in Nat /\ mmap[i].len \in Nat \ {0}
                               /\ mmap[i].type \in Nat
  <1>1. given \in Seq(Area) /\ mmap \in [Index -> Area]
    BY DEF SortOK, Reported
  <1>2. Len(given) \in Nat
    BY <1>1, LenProperties
  <1>3. \A i \in Index : i \in Nat
    BY <1>2 DEF Index
  <1>4. DOMAIN mmap = Index /\ \A i \in Index : mmap[i] \in Area
    BY <1>1
  <1> QED BY <1>2, <1>3, <1>4 DEF Area

LEMMA InsertStep ==
    ASSUME SortOK, NEW zone, TreeOK(zone), InsertsOK(zone), Insert
    PROVE  SortOK' /\ TreeOK(zone)' /\ InsertsOK(zone)'
  <1>1. /\ ranges = <<>> /\ calls = <<>> /\ index \in Index
        /\ calls' = <<Call(Null, "left", [lo |-> mmap[index].addr,
                                          hi |-> mmap[index].addr + mmap[index].len - 1],
                           mmap[index].type)>>
        /\ index' = index + 1
        /\ UNCHANGED <<given, mmap, ranges, cursor, tree>>
    BY MapTypes DEF Insert, Building
  <1>2. SortOK' /\ TreeOK(zone)' /\ Index' = Index
    BY <1>1, SortKept, TreeKept
  <1>3. /\ Len(given) \in Nat /\ index \in Nat /\ index < Len(given)
        /\ mmap[index].addr \in Nat /\ mmap[index].len \in Nat \ {0} /\ mmap[index].type \in Nat
        /\ \A i \in 0..index : mmap[i].addr \in Nat /\ mmap[i].len \in Nat \ {0}
    <2>1. Len(given) \in Nat /\ index \in Nat /\ index < Len(given)
      BY <1>1, MapTypes DEF Index
    <2>2. \A i \in 0..index : i \in Index
      BY <2>1 DEF Index
    <2> QED BY <1>1, <2>1, <2>2, MapTypes
  <1> DEFINE lo == mmap[index].addr
             hi == mmap[index].addr + mmap[index].len - 1
             C == Call(Null, "left", [lo |-> lo, hi |-> hi], mmap[index].type)
  <1>4. PICK c : c = C
    OBVIOUS
  <1>5. PICK l, h : l = lo /\ h = hi
    OBVIOUS
  <1>6. /\ l \in Nat /\ h \in Nat /\ l <= h
        /\ \A a \in Nat : a \in l..h <=> Covers(mmap[index], a)
    <2>1. PICK ad \in Nat, le \in Nat \ {0} : ad = mmap[index].addr /\ le = mmap[index].len
      BY <1>3
    <2>2. l = ad /\ h = ad + le - 1
      BY <1>5, <2>1
    <2>3. \A a : Covers(mmap[index], a) <=> ad <= a /\ a < ad + le
      BY <2>1 DEF Covers
    <2> QED BY <2>1, <2>2, <2>3
  <1>7. c = [node |-> Null, side |-> "left", lo |-> l, hi |-> h, type |-> mmap[index].type]
    BY <1>4, <1>5 DEF Call
  <1>8. c.node = Null /\ c.side = "left" /\ c.lo = l /\ c.hi = h /\ c.type = mmap[index].type
    BY <1>7
  <1>16. calls' = <<c>>
    BY <1>1, <1>4
  <1> HIDE DEF C, lo, hi
  <1>17. c \in CallType'
    <2>1. Null \in 0..Len(tree') /\ "left" \in Side
      BY <1>1, TreeTypes DEF Null, Side
    <2> QED BY <1>3, <1>6, <1>7, <2>1 DEF CallType
  <1>9. calls' \in Seq(CallType)' /\ DOMAIN calls' = {1} /\ calls'[1] = c
    BY <1>16, <1>17
  <1>10. index' - 1 = index /\ index' > 0
    BY <1>1, <1>3
  <1>11. CallOK(zone, mmap[index], c)
    <2>1. \A a \in l..h : a \in Nat
      BY <1>6
    <2> QED BY <1>6, <1>8, <2>1 DEF CallOK, Beside
  <1>12. TypesOK(mmap, index)'
    <2> SUFFICES ASSUME NEW n \in DOMAIN tree', NEW a \in Nat, Holds(n, a)'
                 PROVE  \E i \in 0..(index' - 1) :
                           Decides(mmap', index', i, a) /\ tree'[n].type = mmap'[i].type
      BY DEF TypesOK, Decides, Covers
    <2>1. n \in DOMAIN tree /\ Holds(n, a)
      BY <1>1, TreeKept
    <2>2. PICK i \in 0..(index - 1) : Decides(mmap, index, i, a) /\ tree[n].type = mmap[i].type
      BY <2>1 DEF InsertsOK, TypesOK
    <2>3. \A g \in 0..index : g < i => g \in 0..(index - 1)
      BY <1>3
    <2>4. i \in 0..index /\ i \in 0..((index + 1) - 1)
          /\ \A g \in 0..((index + 1) - 1) : g \in 0..index
      BY <1>3
    <2>5. Decides(mmap, index + 1, i, a)
      BY <2>2, <2>3, <2>4 DEF Decides
    <2> QED BY <1>1, <2>2, <2>4, <2>5
  <1>13. ASSUME NEW i \in 0..index, NEW a \in Nat, Covers(mmap[i], a)
         PROVE  InTree(a) \/ (i = index /\ a \in c.lo..c.hi)
    <2>1. CASE i = index
      BY <1>6, <1>8, <1>13, <2>1
    <2>2. CASE i # index
      <3>1. i \in 0..(index - 1)
        BY <1>3, <2>2
      <3> QED BY <1>1, <1>13, <3>1 DEF InsertsOK
    <2> QED BY <2>1, <2>2
  <1>14. ASSUME NEW i \in 0..(index' - 1), NEW a \in Nat, Covers(mmap'[i], a)
         PROVE  \/ InTree(a)'
                \/ i = index' - 1 /\ \E k \in DOMAIN calls' : a \in calls'[k].lo..calls'[k].hi
    <2>1. InTree(a) \/ (i = index /\ a \in c.lo..c.hi)
      BY <1>1, <1>10, <1>13, <1>14 DEF Covers
    <2>2. InTree(a)' <=> InTree(a)
      BY <1>1, TreeKept
    <2> QED BY <1>9, <1>10, <2>1, <2>2
  <1>15. index' \in 0..Len(given') /\ ranges' = <<>>
    BY <1>1, <1>3
  <1>18. \A k \in DOMAIN calls' : CallOK(zone, mmap[index - 1], calls[k])'
    <2>1. PICK e : e = mmap[index]
      OBVIOUS
    <2>2. CallOK(zone, e, c)'
      BY <1>1, <1>11, <2>1, TreeKept
    <2>3. \A k \in DOMAIN calls' : mmap'[index' - 1] = e /\ calls'[k] = c
      BY <1>1, <1>9, <1>10, <2>1
    <2> QED BY <2>2, <2>3 DEF CallOK
  <1> QED BY <1>2, <1>9, <1>10, <1>12, <1>14, <1>15, <1>18 DEF InsertsOK

\* The node in the way of a call may hold what the call may put there.
LEMMA FoundZone ==
    ASSUME NEW zone, TreeOK(zone), NEW c \in CallType, c.node = Null => c.side = "left"
    PROVE  IF Found(c) # Null
           THEN Found(c) \in DOMAIN tree /\ zone[Found(c)] = Beside(zone, c.node, c.side)
           ELSE <<c.node, c.side>> \in Gaps /\ (c.node = Null => tree = <<>>)
  <1>1. c.node \in 0..Len(tree) /\ c.side \in Side
    BY DEF CallType
  <1>2. CASE c.node = Null
    <2>1. tree # <<>> => 1 \in DOMAIN tree
      BY EmptySeq, TreeTypes DEF TreeOK
    <2> QED BY <1>2, <2>1 DEF Found, Beside, TreeOK, Gaps, Null
  <1>3. CASE c.node # Null
    <2>1. c.node \in DOMAIN tree
      BY <1>1, <1>3, TreeTypes DEF Null
    <2>2. tree # <<>>
      BY <2>1, TreeTypes, EmptySeq
    <2> QED BY <1>1, <1>3, <2>1, <2>2 DEF Found, TreeOK, Gaps
  <1> QED BY <1>2, <1>3

LEMMA InsertAroundStep ==
    ASSUME SortOK, NEW zone, TreeOK(zone), InsertsOK(zone), InsertAround
    PROVE  SortOK' /\ TreeOK(zone)' /\ InsertsOK(zone)'
  <1>1. /\ ranges = <<>> /\ calls # <<>> /\ Found(Head(calls)) # Null
        /\ UNCHANGED <<given, mmap, ranges, cursor, tree, index>>
    BY DEF InsertAround, Building
  <1>2. SortOK' /\ TreeOK(zone)' /\ Index' = Index
    BY <1>1, SortKept, TreeKept
  <1>3. calls \in Seq(CallType) /\ index > 0 /\ \A k \in DOMAIN calls : CallOK(zone, mmap[index - 1], calls[k])
    BY <1>1 DEF InsertsOK
  <1>4. PICK c, m, T, e : /\ c = Head(calls) /\ m = Found(c) /\ T = Tail(calls)
                          /\ e = mmap[index - 1]
    OBVIOUS
  <1>5. /\ c \in CallType /\ CallOK(zone, e, c) /\ c = calls[1] /\ T \in Seq(CallType)
        /\ \A k \in DOMAIN T : CallOK(zone, e, T[k]) /\ k + 1 \in DOMAIN calls /\ T[k] = calls[k + 1]
        /\ \A k \in DOMAIN calls : calls[k] = c \/ \E i \in DOMAIN T : T[i] = calls[k]
    <2>1. /\ 1 \in DOMAIN calls /\ c = calls[1] /\ c \in CallType /\ T \in Seq(CallType)
          /\ \A k \in DOMAIN T : k + 1 \in DOMAIN calls /\ T[k] = calls[k + 1]
          /\ \A k \in DOMAIN calls : k = 1 \/ (k - 1 \in DOMAIN T /\ calls[k] = T[k - 1])
      BY <1>1, <1>3, <1>4, HeadCall
    <2>2. CallOK(zone, e, c) /\ \A k \in DOMAIN T : CallOK(zone, e, T[k])
      BY <1>3, <1>4, <2>1
    <2>3. \A k \in DOMAIN calls : calls[k] = c \/ \E i \in DOMAIN T : T[i] = calls[k]
      BY <2>1
    <2> QED BY <2>1, <2>2, <2>3
  <1>6. m \in DOMAIN tree /\ zone[m] = Beside(zone, c.node, c.side)
    <2>1. Found(c) # Null /\ m = Found(c)
      BY <1>1, <1>4
    <2>2. c \in CallType /\ (c.node = Null => c.side = "left")
      BY <1>5 DEF CallOK
    <2> QED BY <2>1, <2>2, FoundZone
  <1>7. PICK node, cut : node = tree[m] /\ cut = Piece(c.lo, c.hi, node)
    OBVIOUS
  <1>8. /\ node \in TreeNode /\ node.min <= node.max
        /\ c.lo \in Nat /\ c.hi \in Nat /\ c.type \in Nat /\ c.lo <= c.hi
    BY <1>5, <1>6, <1>7, TreeTypes, CallTypes DEF CallOK
  <1>9. /\ cut.left.some => /\ cut.left.lo \in Nat /\ cut.left.hi \in Nat
                            /\ cut.left.lo <= cut.left.hi
        /\ cut.right.some => /\ cut.right.lo \in Nat /\ cut.right.hi \in Nat
                             /\ cut.right.lo <= cut.right.hi
        /\ \A a \in Nat :
             /\ cut.left.some /\ a \in cut.left.lo..cut.left.hi => a \in c.lo..c.hi /\ a < node.min
             /\ cut.right.some /\ a \in cut.right.lo..cut.right.hi => a \in c.lo..c.hi /\ a > node.max
             /\ a \in c.lo..c.hi =>
                  \/ cut.left.some /\ a \in cut.left.lo..cut.left.hi
                  \/ cut.right.some /\ a \in cut.right.lo..cut.right.hi
                  \/ node.min <= a /\ a <= node.max
    BY <1>7, <1>8, PieceAddresses
  <1>10. PICK L, R : /\ L = Remaining(m, "left", cut.left, c.type)
                     /\ R = Remaining(m, "right", cut.right, c.type)
    OBVIOUS
  <1>11. calls' = L \o R \o T
    BY <1>4, <1>7, <1>10 DEF InsertAround
  <1>12. m \in 0..Len(tree) /\ m # Null
    BY <1>6, TreeTypes DEF Null
  <1>13. /\ L \in Seq(CallType)
         /\ IF cut.left.some THEN DOMAIN L = {1} /\ L[1].lo = cut.left.lo /\ L[1].hi = cut.left.hi
                             ELSE DOMAIN L = {}
         /\ \A k \in DOMAIN L : CallOK(zone, e, L[k])
    <2>1. CASE ~ cut.left.some
      BY <1>10, <2>1 DEF Remaining
    <2>2. CASE cut.left.some
      <3>1. PICK l, h : l = cut.left.lo /\ h = cut.left.hi
        OBVIOUS
      <3>2. PICK d : d = [node |-> m, side |-> "left", lo |-> l, hi |-> h, type |-> c.type]
        OBVIOUS
      <3>3. L = <<d>>
        BY <1>10, <2>2, <3>1, <3>2 DEF Remaining, Call
      <3>4. d \in CallType /\ d.node = m /\ d.side = "left" /\ d.lo = l /\ d.hi = h /\ d.type = c.type
        BY <1>8, <1>9, <1>12, <2>2, <3>1, <3>2 DEF CallType, Side
      <3>5. \A a \in l..h : a \in Beside(zone, m, "left") /\ Covers(e, a)
        <4> SUFFICES ASSUME NEW a \in l..h PROVE a \in Beside(zone, m, "left") /\ Covers(e, a)
          OBVIOUS
        <4>1. a \in Nat
          BY <1>9, <2>2, <3>1
        <4>2. a \in c.lo..c.hi /\ a < node.min
          BY <1>9, <2>2, <3>1, <4>1
        <4>3. a \in zone[m] /\ Covers(e, a)
          BY <1>5, <1>6, <4>2 DEF CallOK
        <4> QED BY <1>7, <1>12, <4>2, <4>3 DEF Beside
      <3>6. CallOK(zone, e, d)
        BY <1>5, <1>9, <1>12, <2>2, <3>1, <3>4, <3>5 DEF CallOK
      <3> QED BY <2>2, <3>1, <3>3, <3>4, <3>6
    <2> QED BY <2>1, <2>2
  <1>14. /\ R \in Seq(CallType)
         /\ IF cut.right.some THEN DOMAIN R = {1} /\ R[1].lo = cut.right.lo /\ R[1].hi = cut.right.hi
                              ELSE DOMAIN R = {}
         /\ \A k \in DOMAIN R : CallOK(zone, e, R[k])
    <2>1. CASE ~ cut.right.some
      BY <1>10, <2>1 DEF Remaining
    <2>2. CASE cut.right.some
      <3>1. PICK l, h : l = cut.right.lo /\ h = cut.right.hi
        OBVIOUS
      <3>2. PICK d : d = [node |-> m, side |-> "right", lo |-> l, hi |-> h, type |-> c.type]
        OBVIOUS
      <3>3. R = <<d>>
        BY <1>10, <2>2, <3>1, <3>2 DEF Remaining, Call
      <3>4. d \in CallType /\ d.node = m /\ d.side = "right" /\ d.lo = l /\ d.hi = h /\ d.type = c.type
        BY <1>8, <1>9, <1>12, <2>2, <3>1, <3>2 DEF CallType, Side
      <3>5. \A a \in l..h : a \in Beside(zone, m, "right") /\ Covers(e, a)
        <4> SUFFICES ASSUME NEW a \in l..h PROVE a \in Beside(zone, m, "right") /\ Covers(e, a)
          OBVIOUS
        <4>1. a \in Nat
          BY <1>9, <2>2, <3>1
        <4>2. a \in c.lo..c.hi /\ a > node.max
          BY <1>9, <2>2, <3>1, <4>1
        <4>3. a \in zone[m] /\ Covers(e, a)
          BY <1>5, <1>6, <4>2 DEF CallOK
        <4> QED BY <1>7, <1>12, <4>2, <4>3 DEF Beside
      <3>6. CallOK(zone, e, d)
        BY <1>5, <1>9, <1>12, <2>2, <3>1, <3>4, <3>5 DEF CallOK
      <3> QED BY <2>2, <3>1, <3>3, <3>4, <3>6
    <2> QED BY <2>1, <2>2
  <1>15. /\ calls' \in Seq(CallType)
         /\ Range(calls') = Range(L) \cup Range(R) \cup Range(T)
    <2>1. PICK q, S : q = calls' /\ S = CallType
      OBVIOUS
    <2>2. L \in Seq(S) /\ R \in Seq(S) /\ T \in Seq(S)
      BY <1>5, <1>13, <1>14, <2>1
    <2>3. PICK d : d = L \o R
      OBVIOUS
    <2>4. d \in Seq(S) /\ Range(d) = Range(L) \cup Range(R)
      BY <2>2, <2>3, ConcatElements
    <2>5. q = d \o T
      BY <1>11, <2>1, <2>3
    <2>6. q \in Seq(S) /\ Range(q) = Range(d) \cup Range(T)
      BY <2>2, <2>4, <2>5, ConcatElements
    <2> QED BY <2>1, <2>4, <2>6
  <1>16. calls' \in Seq(CallType)'
    BY <1>1, <1>15, TreeKept
  <1>17. \A k \in DOMAIN calls' : CallOK(zone, mmap[index - 1], calls[k])'
    <2>1. \A d : CallOK(zone, e, d)' <=> CallOK(zone, e, d)
      BY <1>1, TreeKept
    <2>2. ASSUME NEW k \in DOMAIN calls' PROVE CallOK(zone, mmap[index - 1], calls[k])'
      <3>1. PICK d : d = calls'[k]
        OBVIOUS
      <3>2. CallOK(zone, e, d)
        <4>1. d \in Range(L) \/ d \in Range(R) \/ d \in Range(T)
          BY <1>15, <3>1 DEF Range
        <4> QED BY <1>5, <1>13, <1>14, <4>1 DEF Range
      <3>3. CallOK(zone, e, d)' /\ mmap'[index' - 1] = e
        BY <1>1, <1>4, <2>1, <3>2
      <3> QED BY <3>1, <3>3 DEF CallOK
    <2> QED BY <2>2
  <1>18. TypesOK(mmap, index)'
    <2>1. TypesOK(mmap, index)
      BY DEF InsertsOK
    <2> QED BY <1>1, <2>1 DEF TypesOK, Holds, Decides
  <1>19. ASSUME NEW i \in 0..(index - 1), NEW a \in Nat, Covers(mmap[i], a)
         PROVE  \/ InTree(a)
                \/ i = index - 1 /\ \E k \in DOMAIN calls' : a \in calls'[k].lo..calls'[k].hi
    <2> SUFFICES ASSUME ~ InTree(a)
                 PROVE  i = index - 1 /\ \E k \in DOMAIN calls' : a \in calls'[k].lo..calls'[k].hi
      OBVIOUS
    <2>1. i = index - 1 /\ \E k \in DOMAIN calls : a \in calls[k].lo..calls[k].hi
      BY <1>19 DEF InsertsOK
    <2>2. ASSUME NEW d \in Range(L) \cup Range(R) \cup Range(T), a \in d.lo..d.hi
          PROVE  \E k \in DOMAIN calls' : a \in calls'[k].lo..calls'[k].hi
      BY <1>15, <2>2 DEF Range
    <2>3. CASE a \in c.lo..c.hi
      <3>1. ~ (node.min <= a /\ a <= node.max)
        BY <1>6, <1>7 DEF InTree, Holds
      <3>2. CASE cut.left.some /\ a \in cut.left.lo..cut.left.hi
        <4>1. L[1] \in Range(L)
          BY <1>13, <3>2 DEF Range
        <4> QED BY <1>13, <2>1, <2>2, <3>2, <4>1
      <3>3. CASE cut.right.some /\ a \in cut.right.lo..cut.right.hi
        <4>1. R[1] \in Range(R)
          BY <1>14, <3>3 DEF Range
        <4> QED BY <1>14, <2>1, <2>2, <3>3, <4>1
      <3> QED BY <1>9, <2>3, <3>1, <3>2, <3>3
    <2>4. CASE \E k \in DOMAIN T : a \in T[k].lo..T[k].hi
      <3>1. \A k \in DOMAIN T : T[k] \in Range(T)
        BY DEF Range
      <3> QED BY <2>1, <2>2, <2>4, <3>1
    <2> QED BY <1>5, <2>1, <2>3, <2>4
  <1>20. ASSUME NEW i \in 0..(index' - 1), NEW a \in Nat, Covers(mmap'[i], a)
         PROVE  \/ InTree(a)'
                \/ i = index' - 1 /\ \E k \in DOMAIN calls' : a \in calls'[k].lo..calls'[k].hi
    <2>1. InTree(a)' <=> InTree(a)
      BY <1>1, TreeKept
    <2> QED BY <1>1, <1>19, <1>20, <2>1
  <1>21. index' \in 0..Len(given') /\ index' > 0 /\ ranges' = <<>>
    BY <1>1, <1>3 DEF InsertsOK
  <1> QED BY <1>2, <1>16, <1>17, <1>18, <1>20, <1>21 DEF InsertsOK

\* A node with one of its sons set.
LEMMA SonSet ==
    ASSUME NEW node \in TreeNode, NEW side \in Side, NEW n \in Nat,
           NEW new, new = [node EXCEPT ![side] = n]
    PROVE  /\ new \in TreeNode
           /\ new.min = node.min /\ new.max = node.max /\ new.type = node.type
           /\ \A s \in Side : new[s] = IF s = side THEN n ELSE node[s]
  <1>1. CASE side = "left"
    BY <1>1 DEF TreeNode, Side
  <1>2. CASE side = "right"
    BY <1>2 DEF TreeNode, Side
  <1> QED BY <1>1, <1>2 DEF Side

\* The tree with a leaf more, and what may come in the subtrees then.
WithLeaf(c) ==
    Append(IF c.node = Null THEN tree ELSE [tree EXCEPT ![c.node][c.side] = Len(tree) + 1],
           Leaf(c.lo, c.hi, c.type))

WithZone(zone, c) ==
    [n \in 1..(Len(tree) + 1) |->
        IF n = Len(tree) + 1 THEN Beside(zone, c.node, c.side) ELSE zone[n]]

LEMMA LeafAdded ==
    ASSUME NEW zone, TreeOK(zone), NEW c \in CallType, c.node = Null => c.side = "left",
           Found(c) = Null,
           tree' = WithLeaf(c),
           NEW N, N = Len(tree) + 1
    PROVE  /\ tree' \in Seq(TreeNode) /\ Len(tree') = N
           /\ \A n \in DOMAIN tree :
                /\ tree'[n].min = tree[n].min /\ tree'[n].max = tree[n].max
                /\ tree'[n].type = tree[n].type
                /\ \A side \in Side :
                     tree'[n][side] = IF n = c.node /\ side = c.side THEN N ELSE tree[n][side]
           /\ tree'[N].min = c.lo /\ tree'[N].max = c.hi
           /\ tree'[N].type = c.type
           /\ \A side \in Side : tree'[N][side] = Null
  <1> DEFINE linked == IF c.node = Null THEN tree
                       ELSE [tree EXCEPT ![c.node][c.side] = N]
             leaf == Leaf(c.lo, c.hi, c.type)
  <1>1. tree' = Append(linked, leaf)
    BY DEF WithLeaf
  <1>2. /\ tree \in Seq(TreeNode) /\ Len(tree) \in Nat /\ DOMAIN tree = 1..Len(tree)
        /\ \A n \in DOMAIN tree : tree[n] \in TreeNode
        /\ c.node \in 0..Len(tree) /\ c.side \in Side /\ c.lo \in Nat /\ c.hi \in Nat /\ c.type \in Nat
    BY TreeTypes, CallTypes DEF TreeOK
  <1>3. /\ leaf \in TreeNode /\ leaf.min = c.lo /\ leaf.max = c.hi /\ leaf.type = c.type
        /\ \A side \in Side : leaf[side] = Null
    BY <1>2 DEF Leaf, TreeNode, Side, Null
  <1> HIDE DEF leaf
  <1>4. /\ linked \in Seq(TreeNode) /\ Len(linked) = Len(tree)
        /\ \A n \in DOMAIN tree :
             /\ linked[n].min = tree[n].min /\ linked[n].max = tree[n].max
             /\ linked[n].type = tree[n].type
             /\ \A side \in Side :
                  linked[n][side] = IF n = c.node /\ side = c.side THEN N ELSE tree[n][side]
    <2>1. CASE c.node = Null
      <3>1. \A n \in DOMAIN tree : n # c.node
        BY <1>2, <2>1 DEF Null
      <3> QED BY <1>2, <2>1, <3>1
    <2>2. CASE c.node # Null
      <3>1. c.node \in DOMAIN tree
        BY <1>2, <2>2 DEF Null
      <3>2. PICK d, node, v, side : d = [node EXCEPT ![side] = v] /\ node = tree[c.node]
                                   /\ v = N /\ side = c.side
        OBVIOUS
      <3>3. /\ d \in TreeNode
            /\ d.min = tree[c.node].min /\ d.max = tree[c.node].max /\ d.type = tree[c.node].type
            /\ \A s \in Side : d[s] = IF s = c.side THEN N ELSE tree[c.node][s]
        <4>1. node \in TreeNode /\ v \in Nat /\ side \in Side
          BY <1>2, <3>1, <3>2
        <4>2. /\ d \in TreeNode
              /\ d.min = node.min /\ d.max = node.max /\ d.type = node.type
              /\ \A s \in Side : d[s] = IF s = side THEN v ELSE node[s]
          BY <3>2, <4>1, SonSet
        <4> QED BY <3>2, <4>2
      <3>4. linked = [tree EXCEPT ![c.node] = d]
        BY <2>2, <3>2
      <3>5. linked \in Seq(TreeNode) /\ Len(linked) = Len(tree)
            /\ \A n \in DOMAIN tree : linked[n] = IF n = c.node THEN d ELSE tree[n]
        <4>1. PICK q, l, k : q = tree /\ l = linked /\ k = c.node
          OBVIOUS
        <4>2. q \in Seq(TreeNode) /\ k \in 1..Len(q) /\ d \in TreeNode /\ l = [q EXCEPT ![k] = d]
          BY <1>2, <3>1, <3>3, <3>4, <4>1
        <4>3. /\ l \in Seq(TreeNode) /\ Len(l) = Len(q)
              /\ \A j \in 1..Len(q) : l[j] = IF j = k THEN d ELSE q[j]
          BY <4>2, ExceptSeq
        <4> QED BY <1>2, <4>1, <4>3
      <3> HIDE DEF linked
      <3> QED BY <3>3, <3>5
    <2> QED BY <2>1, <2>2
  <1> HIDE DEF linked
  <1>5. /\ tree' \in Seq(TreeNode) /\ Len(tree') = N /\ tree'[N] = leaf
        /\ \A n \in DOMAIN tree : tree'[n] = linked[n]
    <2>1. PICK q, l, t : q = linked /\ l = leaf /\ t = tree'
      OBVIOUS
    <2>2. q \in Seq(TreeNode) /\ l \in TreeNode /\ t = Append(q, l) /\ Len(q) = Len(tree)
      BY <1>1, <1>3, <1>4, <2>1
    <2>3. /\ t \in Seq(TreeNode) /\ Len(t) = Len(q) + 1 /\ t[Len(q) + 1] = l
          /\ \A n \in 1..Len(q) : t[n] = q[n]
      BY <2>2, AppendProperties
    <2> QED BY <1>2, <2>1, <2>2, <2>3
  <1>6. \A n \in DOMAIN tree :
          /\ tree'[n].min = tree[n].min /\ tree'[n].max = tree[n].max
          /\ tree'[n].type = tree[n].type
          /\ \A side \in Side :
               tree'[n][side] = IF n = c.node /\ side = c.side THEN N ELSE tree[n][side]
    <2> SUFFICES ASSUME NEW n \in DOMAIN tree
                 PROVE  /\ tree'[n].min = tree[n].min /\ tree'[n].max = tree[n].max
                        /\ tree'[n].type = tree[n].type
                        /\ \A side \in Side :
                             tree'[n][side] = IF n = c.node /\ side = c.side THEN N
                                              ELSE tree[n][side]
      OBVIOUS
    <2>1. tree'[n] = linked[n]
      BY <1>5
    <2>2. /\ linked[n].min = tree[n].min /\ linked[n].max = tree[n].max
          /\ linked[n].type = tree[n].type
          /\ \A side \in Side :
               linked[n][side] = IF n = c.node /\ side = c.side THEN N ELSE tree[n][side]
      BY <1>4
    <2>3. PICK d : d = linked[n]
      OBVIOUS
    <2>4. /\ d.min = tree[n].min /\ d.max = tree[n].max /\ d.type = tree[n].type
          /\ \A side \in Side : d[side] = IF n = c.node /\ side = c.side THEN N ELSE tree[n][side]
      BY <2>2, <2>3, Zenon
    <2>5. tree'[n] = d
      BY <2>1, <2>3
    <2> QED BY <2>4, <2>5, Zenon
  <1>7. /\ tree'[N].min = c.lo /\ tree'[N].max = c.hi /\ tree'[N].type = c.type
        /\ \A side \in Side : tree'[N][side] = Null
    BY <1>3, <1>5
  <1> QED BY <1>5, <1>6, <1>7

\* What the leaf may hold is taken from what may come beside its father; all
\* other places keep theirs.
LEMMA LeafTree ==
    ASSUME NEW zone, TreeOK(zone), NEW e, NEW c \in CallType, CallOK(zone, e, c), Found(c) = Null,
           tree' = WithLeaf(c),
           NEW N, N = Len(tree) + 1,
           NEW z, z = WithZone(zone, c)
    PROVE  /\ TreeOK(z)' /\ Len(tree') = N
           /\ \A n \in 0..Len(tree), side \in Side : Beside(z, n, side)' = Beside(zone, n, side)
           /\ \A n \in DOMAIN tree : /\ \A a : Holds(n, a)' <=> Holds(n, a)
                                     /\ tree'[n].type = tree[n].type
           /\ \A a \in Nat : Holds(N, a)' <=> a \in c.lo..c.hi
           /\ tree'[N].type = c.type
           /\ \A a \in c.lo..c.hi : ~ InTree(a)
  <1>1. N = Len(tree) + 1
    OBVIOUS
  <1>2. PICK B, k, s : B = Beside(zone, c.node, c.side) /\ k = c.node /\ s = c.side
    OBVIOUS
  <1>3. c.node = Null => c.side = "left"
    BY DEF CallOK
  <1>4. /\ tree' \in Seq(TreeNode) /\ Len(tree') = N
        /\ \A n \in DOMAIN tree :
             /\ tree'[n].min = tree[n].min /\ tree'[n].max = tree[n].max
             /\ tree'[n].type = tree[n].type
             /\ \A side \in Side :
                  tree'[n][side] = IF n = k /\ side = s THEN N ELSE tree[n][side]
        /\ tree'[N].min = c.lo /\ tree'[N].max = c.hi /\ tree'[N].type = c.type
        /\ \A side \in Side : tree'[N][side] = Null
    <2>1. /\ tree' \in Seq(TreeNode) /\ Len(tree') = N
          /\ \A n \in DOMAIN tree :
               /\ tree'[n].min = tree[n].min /\ tree'[n].max = tree[n].max
               /\ tree'[n].type = tree[n].type
               /\ \A side \in Side :
                    tree'[n][side] = IF n = c.node /\ side = c.side THEN N ELSE tree[n][side]
          /\ tree'[N].min = c.lo /\ tree'[N].max = c.hi /\ tree'[N].type = c.type
          /\ \A side \in Side : tree'[N][side] = Null
      BY <1>1, <1>3, LeafAdded
    <2> QED BY <1>2, <2>1
  <1>5. /\ tree \in Seq(TreeNode) /\ Len(tree) \in Nat /\ DOMAIN tree = 1..Len(tree)
        /\ zone \in [DOMAIN tree -> SUBSET Nat]
        /\ k \in 0..Len(tree) /\ s \in Side /\ c.lo \in Nat /\ c.hi \in Nat
        /\ B \subseteq Nat /\ c.lo <= c.hi
        /\ \A n \in DOMAIN tree : tree[n].min \in Nat /\ tree[n].max \in Nat /\ tree[n].min <= tree[n].max
    <2>1. B \subseteq Nat
      <3>1. PICK d : d = [node |-> k, side |-> s]
        OBVIOUS
      <3>2. c.node \in 0..Len(tree) /\ c.side \in Side
        BY CallTypes
      <3>3. d \in [node : 0..Len(tree), side : Side] /\ d.node = k /\ d.side = s
        BY <1>2, <3>1, <3>2
      <3> QED BY <1>2, <3>3, TreeTypes
    <2>2. k \in 0..Len(tree) /\ s \in Side /\ c.lo \in Nat /\ c.hi \in Nat
      BY <1>2, CallTypes
    <2>3. c.lo <= c.hi
      BY DEF CallOK
    <2>4. tree \in Seq(TreeNode) /\ zone \in [DOMAIN tree -> SUBSET Nat]
      BY DEF TreeOK
    <2> QED BY <2>1, <2>2, <2>3, <2>4, TreeTypes
  <1>6. /\ N \in Nat /\ DOMAIN tree' = 1..N /\ N \in DOMAIN tree' /\ N # Null
        /\ \A n \in DOMAIN tree : n \in DOMAIN tree' /\ n # N /\ n # Null
        /\ \A n \in DOMAIN tree' : n = N \/ n \in DOMAIN tree
        /\ \A n \in 0..Len(tree) : n # N /\ (n = Null \/ n \in DOMAIN tree)
        /\ tree' # <<>>
    <2>1. DOMAIN tree' = 1..N
      BY <1>4, LenProperties
    <2>2. N \in Nat
      BY <1>1, <1>5
    <2>3. tree' # <<>>
      BY <1>1, <1>4, <1>5, EmptySeq
    <2> QED BY <1>1, <1>5, <2>1, <2>2, <2>3 DEF Null
  <1>7. /\ z \in [DOMAIN tree' -> SUBSET Nat] /\ z[N] = B
        /\ \A n \in DOMAIN tree : z[n] = zone[n]
    <2>1. z = [n \in 1..N |-> IF n = N THEN B ELSE zone[n]]
      BY <1>2 DEF WithZone
    <2> QED BY <1>5, <1>6, <2>1
  <1>8. /\ \A n \in DOMAIN tree : \A a : Holds(n, a)' <=> Holds(n, a)
        /\ \A a \in Nat : Holds(N, a)' <=> a \in c.lo..c.hi
    BY <1>4, <1>5 DEF Holds
  <1>9. \A n \in 0..Len(tree), side \in Side : Beside(z, n, side)' = Beside(zone, n, side)
    <2> SUFFICES ASSUME NEW n \in 0..Len(tree), NEW side \in Side
                 PROVE  Beside(z, n, side)' = Beside(zone, n, side)
      OBVIOUS
    <2>1. CASE n = Null
      BY <2>1 DEF Beside
    <2>2. CASE n \in DOMAIN tree
      <3>1. z[n] = zone[n] /\ tree'[n].min = tree[n].min /\ tree'[n].max = tree[n].max
        BY <1>4, <1>7, <2>2
      <3> QED BY <3>1 DEF Beside
    <2> QED BY <1>6, <2>1, <2>2
  <1>10. /\ Beside(z, N, "left")' = {a \in B : a < c.lo}
         /\ Beside(z, N, "right")' = {a \in B : a > c.hi}
    BY <1>4, <1>6, <1>7 DEF Beside
  <1>11. /\ <<k, s>> \in Gaps /\ (k = Null => tree = <<>>)
         /\ \A a \in B : /\ \A n \in DOMAIN tree : ~ Holds(n, a)
                         /\ \A h \in Gaps : a \in Beside(zone, h[1], h[2]) => h = <<k, s>>
    <2>1. <<c.node, c.side>> \in Gaps /\ (c.node = Null => tree = <<>>)
      BY <1>3, FoundZone
    <2>2. PICK g : g = <<k, s>>
      OBVIOUS
    <2>3. g \in Gaps /\ (k = Null => tree = <<>>) /\ B = Beside(zone, g[1], g[2])
      BY <1>2, <2>1, <2>2
    <2>4. \A a \in B : /\ \A n \in DOMAIN tree : ~ Holds(n, a)
                       /\ \A h \in Gaps : a \in Beside(zone, h[1], h[2]) => g = h
      BY <2>3 DEF TreeOK
    <2> QED BY <2>2, <2>3, <2>4
  <1>12. ASSUME NEW g \in Gaps'
         PROVE  \/ /\ g \in Gaps /\ g # <<k, s>>
                   /\ Beside(z, g[1], g[2])' = Beside(zone, g[1], g[2])
                \/ g = <<N, "left">>
                \/ g = <<N, "right">>
    <2>1. g \in (DOMAIN tree') \X Side /\ tree'[g[1]][g[2]] = Null
      BY <1>6 DEF Gaps
    <2>2. PICK n \in DOMAIN tree', side \in Side : g = <<n, side>>
      BY <2>1
    <2>3. tree'[n][side] = Null
      BY <2>1, <2>2
    <2>4. CASE n \in DOMAIN tree
      <3>1. ~ (n = k /\ side = s) /\ tree[n][side] = Null
        BY <1>4, <1>6, <2>3, <2>4
      <3>2. tree # <<>>
        BY <1>5, <2>4, EmptySeq
      <3>3. g \in Gaps
        BY <2>2, <2>4, <3>1, <3>2 DEF Gaps
      <3>4. n \in 0..Len(tree)
        BY <1>5, <2>4
      <3> QED BY <1>9, <2>2, <3>1, <3>3, <3>4
    <2>5. CASE n = N
      BY <2>2, <2>5 DEF Side
    <2> QED BY <1>6, <2>2, <2>4, <2>5
  <1>13. \A a \in c.lo..c.hi : a \in Nat /\ a \in B
    BY <1>2, <1>5 DEF CallOK
  <1>14. z[1] = Nat
    <2>1. CASE tree = <<>>
      <3>1. N = 1 /\ k = Null
        BY <1>1, <1>5, <2>1, EmptySeq DEF Null
      <3> QED BY <1>2, <1>7, <3>1 DEF Beside
    <2>2. CASE tree # <<>>
      <3>1. 1 \in DOMAIN tree
        BY <1>5, <2>2, EmptySeq
      <3> QED BY <1>7, <2>2, <3>1 DEF TreeOK
    <2> QED BY <2>1, <2>2
  <1>15. ASSUME NEW n \in DOMAIN tree'
         PROVE  /\ tree'[n].min <= tree'[n].max
                /\ \A a \in Nat : Holds(n, a)' => a \in z[n]
                /\ \A side \in Side : tree'[n][side] # Null =>
                     /\ tree'[n][side] \in DOMAIN tree'
                     /\ z[tree'[n][side]] = Beside(z, n, side)'
    <2>1. CASE n = N
      BY <1>4, <1>5, <1>7, <1>8, <1>13, <2>1
    <2>2. CASE n \in DOMAIN tree
      <3>1. /\ tree'[n].min <= tree'[n].max
            /\ \A a \in Nat : Holds(n, a)' => a \in z[n]
        BY <1>4, <1>5, <1>7, <1>8, <2>2 DEF TreeOK
      <3>2. ASSUME NEW side \in Side, tree'[n][side] # Null
            PROVE  /\ tree'[n][side] \in DOMAIN tree'
                   /\ z[tree'[n][side]] = Beside(z, n, side)'
        <4>1. Beside(z, n, side)' = Beside(zone, n, side)
          BY <1>5, <1>9, <2>2
        <4>2. CASE n = k /\ side = s
          BY <1>2, <1>4, <1>6, <1>7, <2>2, <4>1, <4>2
        <4>3. CASE ~ (n = k /\ side = s)
          <5>1. tree'[n][side] = tree[n][side]
            BY <1>4, <2>2, <4>3
          <5>2. tree[n][side] \in DOMAIN tree /\ zone[tree[n][side]] = Beside(zone, n, side)
            BY <2>2, <3>2, <5>1 DEF TreeOK
          <5> QED BY <1>6, <1>7, <4>1, <5>1, <5>2
        <4> QED BY <4>2, <4>3
      <3> QED BY <3>1, <3>2
    <2> QED BY <1>6, <2>1, <2>2
  <1>16. ASSUME NEW g \in Gaps', NEW a \in Beside(z, g[1], g[2])'
         PROVE  /\ \A n \in DOMAIN tree' : ~ Holds(n, a)'
                /\ \A h \in Gaps' : a \in Beside(z, h[1], h[2])' => g = h
    <2>1. ASSUME g \in Gaps, g # <<k, s>>, a \in Beside(zone, g[1], g[2])
          PROVE  a \notin B /\ (\A n \in DOMAIN tree : ~ Holds(n, a))
                 /\ \A h \in Gaps : a \in Beside(zone, h[1], h[2]) => g = h
      BY <1>11, <2>1 DEF TreeOK
    <2>2. a \in Nat
      <3>1. CASE g \in Gaps /\ g # <<k, s>> /\ Beside(z, g[1], g[2])' = Beside(zone, g[1], g[2])
        <4>1. CASE tree = <<>>
          BY <3>1, <4>1 DEF Gaps, Beside
        <4>2. CASE tree # <<>>
          <5>1. g[1] \in DOMAIN tree
            BY <3>1, <4>2 DEF Gaps
          <5> QED BY <1>5, <3>1, <5>1 DEF Beside
        <4> QED BY <4>1, <4>2
      <3>2. CASE g = <<N, "left">> \/ g = <<N, "right">>
        <4>1. g[1] = N /\ (g[2] = "left" \/ g[2] = "right")
          BY <3>2
        <4> QED BY <1>5, <1>10, <4>1
      <3> QED BY <1>12, <3>1, <3>2
    <2>3. CASE g \in Gaps /\ g # <<k, s>> /\ Beside(z, g[1], g[2])' = Beside(zone, g[1], g[2])
      <3>1. a \in Beside(zone, g[1], g[2]) /\ a \notin B /\ ~ Holds(N, a)'
        BY <1>8, <1>13, <2>1, <2>2, <2>3
      <3>2. \A n \in DOMAIN tree' : ~ Holds(n, a)'
        BY <1>6, <1>8, <2>1, <2>3, <3>1
      <3>3. ASSUME NEW h \in Gaps', a \in Beside(z, h[1], h[2])' PROVE g = h
        <4>1. ~ (h = <<N, "left">> \/ h = <<N, "right">>)
          BY <1>10, <3>1, <3>3
        <4> QED BY <1>12, <2>1, <2>3, <3>1, <3>3, <4>1
      <3> QED BY <3>2, <3>3
    <2>4. CASE g = <<N, "left">> \/ g = <<N, "right">>
      <3>1. a \in B /\ a \notin c.lo..c.hi /\ (g = <<N, "left">> => a < c.lo)
            /\ (g = <<N, "right">> => a > c.hi)
        BY <1>5, <1>10, <2>4
      <3>2. \A n \in DOMAIN tree' : ~ Holds(n, a)'
        BY <1>6, <1>8, <1>11, <2>2, <3>1
      <3>3. ASSUME NEW h \in Gaps', a \in Beside(z, h[1], h[2])' PROVE g = h
        <4>1. CASE h \in Gaps /\ h # <<k, s>> /\ Beside(z, h[1], h[2])' = Beside(zone, h[1], h[2])
          BY <1>11, <3>1, <3>3, <4>1
        <4>2. CASE h = <<N, "left">>
          BY <1>5, <1>10, <2>2, <2>4, <3>1, <3>3, <4>2
        <4>3. CASE h = <<N, "right">>
          BY <1>5, <1>10, <2>2, <2>4, <3>1, <3>3, <4>3
        <4> QED BY <1>12, <4>1, <4>2, <4>3
      <3> QED BY <3>2, <3>3
    <2> QED BY <1>12, <2>3, <2>4
  <1>17. TreeOK(z)'
    BY <1>4, <1>7, <1>14, <1>15, <1>16 DEF TreeOK
  <1>18. \A a \in c.lo..c.hi : ~ InTree(a)
    BY <1>11, <1>13 DEF InTree
  <1>19. \A n \in DOMAIN tree : /\ \A a : Holds(n, a)' <=> Holds(n, a)
                               /\ tree'[n].type = tree[n].type
    BY <1>4, <1>8
  <1> QED BY <1>4, <1>8, <1>9, <1>17, <1>18, <1>19

LEMMA InsertLeafStep ==
    ASSUME SortOK, NEW zone, TreeOK(zone), InsertsOK(zone), InsertLeaf
    PROVE  SortOK' /\ \E z : TreeOK(z)' /\ InsertsOK(z)'
  <1>1. /\ ranges = <<>> /\ calls # <<>> /\ Found(Head(calls)) = Null
        /\ UNCHANGED <<given, mmap, ranges, cursor, index>>
    BY DEF InsertLeaf, Building
  <1>2. SortOK' /\ Index' = Index
    BY <1>1, SortKept
  <1>3. calls \in Seq(CallType) /\ index > 0
        /\ \A k \in DOMAIN calls : CallOK(zone, mmap[index - 1], calls[k])
    BY <1>1 DEF InsertsOK
  <1>4. PICK c, T, e, N, i : /\ c = Head(calls) /\ T = Tail(calls) /\ e = mmap[index - 1]
                             /\ N = Len(tree) + 1 /\ i = index - 1
    OBVIOUS
  <1>5. /\ 1 \in DOMAIN calls /\ c = calls[1] /\ c \in CallType /\ T \in Seq(CallType)
        /\ \A k \in DOMAIN T : k + 1 \in DOMAIN calls /\ T[k] = calls[k + 1]
        /\ \A k \in DOMAIN calls : k = 1 \/ (k - 1 \in DOMAIN T /\ calls[k] = T[k - 1])
    BY <1>1, <1>3, <1>4, HeadCall
  <1>6. CallOK(zone, e, c) /\ \A k \in DOMAIN T : CallOK(zone, e, T[k])
    BY <1>3, <1>4, <1>5
  <1>7. tree' = WithLeaf(c) /\ calls' = T
    BY <1>4 DEF InsertLeaf, WithLeaf
  <1>8. PICK z : z = WithZone(zone, c)
    OBVIOUS
  <1>9. /\ TreeOK(z)' /\ Len(tree') = N
        /\ \A n \in 0..Len(tree), side \in Side : Beside(z, n, side)' = Beside(zone, n, side)
        /\ \A n \in DOMAIN tree : /\ \A a : Holds(n, a)' <=> Holds(n, a)
                                  /\ tree'[n].type = tree[n].type
        /\ \A a \in Nat : Holds(N, a)' <=> a \in c.lo..c.hi
        /\ tree'[N].type = c.type
        /\ \A a \in c.lo..c.hi : ~ InTree(a)
    <2>1. Found(c) = Null
      BY <1>1, <1>4
    <2> QED BY <1>4, <1>5, <1>6, <1>7, <1>8, <2>1, LeafTree
  <1>10. /\ Len(tree) \in Nat /\ DOMAIN tree = 1..Len(tree) /\ DOMAIN tree' = 1..N
         /\ N \in DOMAIN tree'
         /\ \A n \in DOMAIN tree : n \in DOMAIN tree'
         /\ \A n \in DOMAIN tree' : n = N \/ n \in DOMAIN tree
    <2>1. Len(tree) \in Nat /\ DOMAIN tree = 1..Len(tree)
      BY TreeTypes
    <2>2. DOMAIN tree' = 1..N
      BY <1>9, LenProperties DEF TreeOK
    <2> QED BY <1>4, <2>1, <2>2
  <1>11. calls' \in Seq(CallType)'
    <2>1. \A d : d \in CallType => d \in CallType'
      <3>1. \A n \in 0..Len(tree) : n \in 0..Len(tree')
        BY <1>4, <1>9, <1>10
      <3> QED BY <3>1 DEF CallType
    <2>2. PICK S : S = CallType'
      OBVIOUS
    <2>3. CallType \subseteq S
      BY <2>1, <2>2
    <2>4. T \in Seq(S)
      BY <1>5, <2>3, SeqMonotonic
    <2> QED BY <1>7, <2>2, <2>4
  <1>12. \A k \in DOMAIN calls' : CallOK(z, mmap[index - 1], calls[k])'
    <2> SUFFICES ASSUME NEW k \in DOMAIN T PROVE CallOK(z, mmap[index - 1], calls[k])'
      BY <1>7
    <2>1. PICK d : d = T[k]
      OBVIOUS
    <2>2. d \in CallType /\ CallOK(zone, e, d)
      BY <1>3, <1>5, <1>6, <2>1, LenProperties, ElementOfSeq
    <2>3. Beside(z, d.node, d.side)' = Beside(zone, d.node, d.side)
      BY <1>9, <2>2, CallTypes
    <2>4. calls'[k] = d /\ mmap'[index' - 1] = e
      BY <1>1, <1>4, <1>7, <2>1
    <2> QED BY <2>2, <2>3, <2>4 DEF CallOK
  <1>13. \A a \in Nat : InTree(a)' <=> (InTree(a) \/ a \in c.lo..c.hi)
    BY <1>9, <1>10 DEF InTree
  <1>14. /\ index \in Nat /\ i \in 0..(index - 1)
         /\ \A h \in 0..(index - 1) : h # i => h < i
    BY <1>3, <1>4 DEF InsertsOK
  <1>15. ASSUME NEW a \in Nat, a \in c.lo..c.hi
         PROVE  Decides(mmap, index, i, a) /\ c.type = mmap[i].type
    <2>1. Covers(mmap[i], a) /\ c.type = mmap[i].type
      BY <1>4, <1>6, <1>15 DEF CallOK
    <2>2. ASSUME NEW h \in 0..(index - 1), h < i PROVE ~ Covers(mmap[h], a)
      <3>1. h # index - 1
        BY <1>4, <1>14, <2>2
      <3> QED BY <1>9, <1>15, <2>2, <3>1 DEF InsertsOK
    <2> QED BY <1>14, <2>1, <2>2 DEF Decides
  <1>16. TypesOK(mmap, index)'
    <2> SUFFICES ASSUME NEW n \in DOMAIN tree', NEW a \in Nat, Holds(n, a)'
                 PROVE  \E h \in 0..(index - 1) :
                           Decides(mmap, index, h, a) /\ tree'[n].type = mmap[h].type
      BY <1>1 DEF TypesOK, Decides
    <2>1. CASE n = N
      BY <1>9, <1>14, <1>15, <2>1
    <2>2. CASE n \in DOMAIN tree
      <3>1. Holds(n, a) /\ tree'[n].type = tree[n].type
        BY <1>9, <2>2
      <3> QED BY <2>2, <3>1 DEF InsertsOK, TypesOK
    <2> QED BY <1>10, <2>1, <2>2
  <1>17. ASSUME NEW h \in 0..(index - 1), NEW a \in Nat, Covers(mmap[h], a)
         PROVE  \/ InTree(a)'
                \/ h = index - 1 /\ \E k \in DOMAIN T : a \in T[k].lo..T[k].hi
    <2>1. CASE InTree(a)
      BY <1>13, <2>1
    <2>2. CASE h = index - 1 /\ \E k \in DOMAIN calls : a \in calls[k].lo..calls[k].hi
      <3>1. PICK k \in DOMAIN calls : a \in calls[k].lo..calls[k].hi
        BY <2>2
      <3>2. CASE k = 1
        BY <1>5, <1>13, <3>1, <3>2
      <3>3. CASE k - 1 \in DOMAIN T /\ calls[k] = T[k - 1]
        BY <2>2, <3>1, <3>3
      <3> QED BY <1>5, <3>2, <3>3
    <2> QED BY <1>17, <2>1, <2>2 DEF InsertsOK
  <1>18. \A h \in 0..(index' - 1) : \A a \in Nat :
           Covers(mmap'[h], a) =>
              \/ InTree(a)'
              \/ h = index' - 1 /\ \E k \in DOMAIN calls' : a \in calls'[k].lo..calls'[k].hi
    BY <1>1, <1>7, <1>17
  <1>19. index' \in 0..Len(given') /\ index' > 0 /\ ranges' = <<>>
    BY <1>1, <1>3 DEF InsertsOK
  <1> QED BY <1>2, <1>9, <1>11, <1>12, <1>16, <1>18, <1>19 DEF InsertsOK

\* Before the first entry is inserted there is no tree.
LEMMA NoTree ==
    ASSUME tree' = <<>>, calls' = <<>>, index' = 0, Len(given') \in Nat
    PROVE  \E zone : TreeOK(zone)' /\ InsertsOK(zone)'
  <1>1. PICK zone : zone = [n \in {} |-> Nat]
    OBVIOUS
  <1>2. /\ DOMAIN tree' = {} /\ tree' \in Seq(TreeNode) /\ Gaps' = {<<Null, "left">>}
        /\ DOMAIN calls' = {} /\ calls' \in Seq(CallType')
    BY DEF Gaps
  <1>3. zone \in [DOMAIN tree' -> SUBSET Nat]
    BY <1>1, <1>2
  <1>4. TreeOK(zone)'
    BY <1>2, <1>3 DEF TreeOK
  <1>5. InsertsOK(zone)'
    BY <1>2 DEF InsertsOK, TypesOK
  <1> QED BY <1>4, <1>5

-----------------------------------------------------------------------------
(* The clean map                                                           *)

\* All that one sequence of calls writes comes before what another does.
Precede(zone, p, q) ==
    \A c \in Range(p), d \in Range(q) : \A a \in Extent(zone, c), b \in Extent(zone, d) : a < b

LEMMA OrderedRow ==
    ASSUME NEW zone, NEW S, NEW p \in Seq(S), NEW q \in Seq(S), Ordered(zone, p), Ordered(zone, q),
           Precede(zone, p, q), NEW r, r = p \o q
    PROVE  r \in Seq(S) /\ Ordered(zone, r)
  <1>1. r \in Seq(S)
    BY ConcatElements
  <1>2. /\ Len(p) \in Nat /\ Len(q) \in Nat /\ DOMAIN r = 1..(Len(p) + Len(q))
        /\ DOMAIN p = 1..Len(p) /\ DOMAIN q = 1..Len(q)
        /\ \A i \in 1..Len(p) : r[i] = p[i]
        /\ \A i \in 1..Len(q) : r[Len(p) + i] = q[i]
        /\ \A i \in 1..(Len(p) + Len(q)) :
             \/ i \in 1..Len(p)
             \/ i - Len(p) \in 1..Len(q) /\ i = Len(p) + (i - Len(p))
    BY Concatenation, LenProperties
  <1>3. ASSUME NEW k \in DOMAIN r, NEW l \in DOMAIN r, k < l,
               NEW a \in Extent(zone, r[k]), NEW b \in Extent(zone, r[l])
        PROVE  a < b
    <2>1. CASE k \in 1..Len(p) /\ l \in 1..Len(p)
      BY <1>2, <1>3, <2>1 DEF Ordered
    <2>2. CASE k \in 1..Len(p) /\ l - Len(p) \in 1..Len(q) /\ l = Len(p) + (l - Len(p))
      <3>1. PICK j : j = l - Len(p)
        OBVIOUS
      <3>2. r[k] \in Range(p) /\ r[l] \in Range(q)
        BY <1>2, <2>2, <3>1 DEF Range
      <3> QED BY <1>3, <3>2 DEF Precede
    <2>3. CASE k - Len(p) \in 1..Len(q) /\ k = Len(p) + (k - Len(p))
      <3>1. l - Len(p) \in 1..Len(q) /\ l = Len(p) + (l - Len(p)) /\ k - Len(p) < l - Len(p)
        BY <1>2, <1>3, <2>3
      <3>2. PICK i, j : i = k - Len(p) /\ j = l - Len(p)
        OBVIOUS
      <3>3. r[k] = q[i] /\ r[l] = q[j] /\ i < j /\ i \in DOMAIN q /\ j \in DOMAIN q
        BY <1>2, <2>3, <3>1, <3>2
      <3> QED BY <1>3, <3>3 DEF Ordered
    <2> QED BY <1>2, <1>3, <2>1, <2>2, <2>3
  <1> QED BY <1>1, <1>3 DEF Ordered

\* The call in hand comes before those behind it.
LEMMA HeadVisit ==
    ASSUME NEW zone, calls \in Seq(Visit), Ordered(zone, calls), calls # <<>>
    PROVE  /\ Head(calls) \in Visit /\ Head(calls) \in Range(calls)
           /\ Tail(calls) \in Seq(Visit) /\ Ordered(zone, Tail(calls))
           /\ Range(calls) = {Head(calls)} \cup Range(Tail(calls))
           /\ \A d \in Range(Tail(calls)) :
                \A a \in Extent(zone, Head(calls)), b \in Extent(zone, d) : a < b
  <1>1. PICK c, T, q, S : c = Head(calls) /\ T = Tail(calls) /\ q = calls /\ S = Visit
    OBVIOUS
  <1>2. q \in Seq(S) /\ q # <<>> /\ c = Head(q) /\ T = Tail(q)
    BY <1>1
  <1>3. /\ 1 \in DOMAIN q /\ c = q[1] /\ c \in S /\ T \in Seq(S) /\ DOMAIN q = 1..Len(q)
        /\ Len(q) \in Nat /\ DOMAIN T = 1..(Len(q) - 1)
        /\ \A k \in DOMAIN T : k + 1 \in DOMAIN q /\ T[k] = q[k + 1]
        /\ \A k \in DOMAIN q : k = 1 \/ (k - 1 \in DOMAIN T /\ q[k] = T[k - 1])
    BY <1>2, HeadCall
  <1>4. Ordered(zone, q)
    BY <1>1
  <1>5. Ordered(zone, T)
    <2>1. \A k, l \in DOMAIN T : k < l => k + 1 < l + 1
      BY <1>3
    <2> QED BY <1>3, <1>4, <2>1 DEF Ordered
  <1>6. \A d \in Range(T) : \A a \in Extent(zone, c), b \in Extent(zone, d) : a < b
    <2>1. \A k \in DOMAIN T : 1 < k + 1
      BY <1>3
    <2> QED BY <1>3, <1>4, <2>1 DEF Ordered, Range
  <1>7. Range(q) = {c} \cup Range(T)
    <2>1. Range(T) \subseteq Range(q) /\ c \in Range(q)
      BY <1>3 DEF Range
    <2>2. Range(q) \subseteq {c} \cup Range(T)
      BY <1>3 DEF Range
    <2> QED BY <2>1, <2>2
  <1> QED BY <1>1, <1>3, <1>5, <1>6, <1>7

\* What may come on one side of a node is what may come under its son there.
LEMMA SonZone ==
    ASSUME NEW zone, TreeOK(zone), NEW n \in DOMAIN tree, NEW side \in Side,
           NEW B, B = Beside(zone, n, side)
    PROVE  IF tree[n][side] = Null
           THEN \A a \in B : ~ InTree(a)
           ELSE tree[n][side] \in DOMAIN tree /\ zone[tree[n][side]] = B
  <1>1. CASE tree[n][side] = Null
    <2>1. tree # <<>>
      BY TreeTypes, EmptySeq
    <2>2. PICK g : g = <<n, side>>
      OBVIOUS
    <2>3. g \in Gaps /\ g[1] = n /\ g[2] = side
      BY <1>1, <2>1, <2>2 DEF Gaps
    <2> QED BY <1>1, <2>3 DEF TreeOK, InTree
  <1>2. CASE tree[n][side] # Null
    BY <1>2 DEF TreeOK
  <1> QED BY <1>1, <1>2

LEMMA ConvertStartsStep ==
    ASSUME SortOK, NEW zone, TreeOK(zone), InsertsOK(zone), ConvertStarts
    PROVE  Reported' /\ TreeOK(zone)' /\ ConvertOK(zone)'
  <1>1. /\ ranges = <<>> /\ calls = <<>> /\ index \notin DOMAIN mmap /\ tree # <<>>
        /\ sorted' = mmap /\ mmap' = <<>> /\ index' = 0 /\ calls' = Subtree(1)
        /\ UNCHANGED <<given, tree>>
    BY DEF ConvertStarts, Building
  <1>2. Reported' /\ TreeOK(zone)' /\ Index' = Index
    BY <1>1, TreeKept DEF SortOK, Reported, Index
  <1>3. /\ index = Len(given) /\ Len(given) \in Nat /\ mmap \in [Index -> Area]
        /\ Index = 0..(index - 1)
    BY <1>1, MapTypes DEF InsertsOK, SortOK, Index
  <1>4. /\ DOMAIN mmap' = {} /\ 0..(index' - 1) = {} /\ index' \in Nat
    BY <1>1
  <1>5. PICK c : c = [node |-> 1, whole |-> TRUE]
    OBVIOUS
  <1>6. /\ 1 \in DOMAIN tree /\ zone[1] = Nat
    BY <1>1, TreeTypes, EmptySeq DEF TreeOK
  <1>7. c \in Visit' /\ c \in Visit /\ calls' = <<c>> /\ c.node = 1 /\ c.whole
    BY <1>1, <1>5, <1>6 DEF Visit, Subtree, Null
  <1>8. calls' \in Seq(Visit)' /\ DOMAIN calls' = {1} /\ calls'[1] = c
    BY <1>7
  <1>9. Ordered(zone, calls)'
    BY <1>8 DEF Ordered
  <1>10. TypesOK(sorted, Len(given))'
    <2>1. TypesOK(mmap, Len(given))
      BY <1>3 DEF InsertsOK
    <2> QED BY <1>1, <2>1 DEF TypesOK, Holds, Decides
  <1>11. \A i \in Index : \A a \in Nat : Covers(sorted'[i], a) => InTree(a)'
    <2>1. \A i \in Index : \A a \in Nat : Covers(mmap[i], a) => InTree(a)
      BY <1>1, <1>3 DEF InsertsOK
    <2> QED BY <1>1, <2>1 DEF InTree, Holds
  <1>12. \A a \in Nat : \E d \in Range(calls') : a \in Extent(zone, d)'
    <2>1. c \in Range(calls')
      BY <1>8 DEF Range
    <2>2. \A a \in Nat : a \in Extent(zone, c)'
      BY <1>6, <1>7 DEF Extent
    <2> QED BY <2>1, <2>2
  <1> QED BY <1>1, <1>2, <1>3, <1>4, <1>8, <1>9, <1>10, <1>11, <1>12 DEF ConvertOK

\* The conversion leaves the tree, and what it was made of, alone.
LEMMA ConvertKept ==
    ASSUME NEW zone, TreeOK(zone), ConvertOK(zone), Reported, UNCHANGED <<given, tree, sorted>>
    PROVE  /\ Reported' /\ TreeOK(zone)' /\ Index' = Index /\ Visit' = Visit
           /\ \A c : Extent(zone, c)' = Extent(zone, c)
           /\ \A q : Ordered(zone, q)' <=> Ordered(zone, q)
           /\ sorted' \in [Index' -> Area]
           /\ TypesOK(sorted, Len(given))'
           /\ \A i \in Index' : \A a \in Nat : Covers(sorted'[i], a) => InTree(a)'
  <1>1. Reported' /\ TreeOK(zone)' /\ Index' = Index /\ Visit' = Visit
    BY TreeKept DEF Reported, Index, Visit
  <1>2. \A c : Extent(zone, c)' = Extent(zone, c)
    BY DEF Extent, Holds
  <1>3. \A q : Ordered(zone, q)' <=> Ordered(zone, q)
    BY <1>2 DEF Ordered
  <1>4. sorted' \in [Index' -> Area]
    BY <1>1 DEF ConvertOK
  <1>5. TypesOK(sorted, Len(given))'
    BY DEF ConvertOK, TypesOK, Holds, Decides
  <1>6. \A i \in Index' : \A a \in Nat : Covers(sorted'[i], a) => InTree(a)'
    BY <1>1 DEF ConvertOK, InTree, Holds
  <1> QED BY <1>1, <1>2, <1>3, <1>4, <1>5, <1>6

LEMMA ConvertAroundStep ==
    ASSUME Reported, NEW zone, TreeOK(zone), ConvertOK(zone), ConvertAround
    PROVE  Reported' /\ TreeOK(zone)' /\ ConvertOK(zone)'
  <1>1. /\ calls # <<>> /\ Head(calls).whole
        /\ UNCHANGED <<given, mmap, tree, index, sorted>>
    BY DEF ConvertAround
  <1>2. PICK c, n, T, S : c = Head(calls) /\ n = c.node /\ T = Tail(calls) /\ S = Visit
    OBVIOUS
  <1>3. calls \in Seq(Visit) /\ Ordered(zone, calls)
    BY DEF ConvertOK
  <1>4. /\ c \in Visit /\ c \in Range(calls) /\ T \in Seq(S) /\ Ordered(zone, T)
        /\ Range(calls) = {c} \cup Range(T)
        /\ \A d \in Range(T) : \A a \in Extent(zone, c), b \in Extent(zone, d) : a < b
    BY <1>1, <1>2, <1>3, HeadVisit
  <1>5. PICK ZL, ZR, l, r : /\ ZL = Beside(zone, n, "left") /\ ZR = Beside(zone, n, "right")
                            /\ l = tree[n].left /\ r = tree[n].right
    OBVIOUS
  <1>6. /\ n \in DOMAIN tree /\ n # Null /\ Extent(zone, c) = zone[n] /\ zone[n] \subseteq Nat
        /\ tree[n].min \in Nat /\ tree[n].max \in Nat /\ tree[n].min <= tree[n].max
        /\ \A a \in Nat : Holds(n, a) => a \in zone[n]
    <2>1. n \in DOMAIN tree
      BY <1>2, <1>4 DEF Visit
    <2>2. n # Null
      BY <2>1, TreeTypes DEF Null
    <2>3. Extent(zone, c) = zone[n]
      BY <1>1, <1>2 DEF Extent
    <2>4. /\ zone[n] \subseteq Nat /\ tree[n].min \in Nat /\ tree[n].max \in Nat
          /\ tree[n].min <= tree[n].max
      BY <2>1, TreeTypes
    <2> QED BY <2>1, <2>2, <2>3, <2>4 DEF TreeOK
  <1>7. /\ ZL = {a \in zone[n] : a < tree[n].min}
        /\ ZR = {a \in zone[n] : a > tree[n].max}
    BY <1>5, <1>6 DEF Beside
  <1>8. PICK A, O, C : A = Subtree(l) /\ O = Own(n) /\ C = Subtree(r)
    OBVIOUS
  <1>9. calls' = A \o O \o C \o T
    BY <1>2, <1>5, <1>8 DEF ConvertAround
  <1>10. /\ A \in Seq(S) /\ Ordered(zone, A)
         /\ \A d \in Range(A) : Extent(zone, d) = ZL
         /\ \A a \in ZL : InTree(a) => \E d \in Range(A) : a \in Extent(zone, d)
    <2>1. CASE l = Null
      <3>1. \A a \in ZL : ~ InTree(a)
        BY <1>5, <1>6, <2>1, SonZone DEF Side
      <3>2. A = <<>>
        BY <1>8, <2>1 DEF Subtree
      <3> QED BY <3>1, <3>2 DEF Ordered, Range
    <2>2. CASE l # Null
      <3>1. l \in DOMAIN tree /\ zone[l] = ZL
        BY <1>5, <1>6, <2>2, SonZone DEF Side
      <3>2. PICK d : d = [node |-> l, whole |-> TRUE]
        OBVIOUS
      <3>3. A = <<d>> /\ d \in S /\ Extent(zone, d) = ZL
        BY <1>2, <1>8, <2>2, <3>1, <3>2 DEF Subtree, Visit, Extent
      <3>4. A \in Seq(S) /\ Range(A) = {d} /\ DOMAIN A = {1}
        BY <3>3 DEF Range
      <3>5. Ordered(zone, A)
        BY <3>4 DEF Ordered
      <3> QED BY <3>3, <3>4, <3>5
    <2> QED BY <2>1, <2>2
  <1>11. /\ C \in Seq(S) /\ Ordered(zone, C)
         /\ \A d \in Range(C) : Extent(zone, d) = ZR
         /\ \A a \in ZR : InTree(a) => \E d \in Range(C) : a \in Extent(zone, d)
    <2>1. CASE r = Null
      <3>1. \A a \in ZR : ~ InTree(a)
        BY <1>5, <1>6, <2>1, SonZone DEF Side
      <3>2. C = <<>>
        BY <1>8, <2>1 DEF Subtree
      <3> QED BY <3>1, <3>2 DEF Ordered, Range
    <2>2. CASE r # Null
      <3>1. r \in DOMAIN tree /\ zone[r] = ZR
        BY <1>5, <1>6, <2>2, SonZone DEF Side
      <3>2. PICK d : d = [node |-> r, whole |-> TRUE]
        OBVIOUS
      <3>3. C = <<d>> /\ d \in S /\ Extent(zone, d) = ZR
        BY <1>2, <1>8, <2>2, <3>1, <3>2 DEF Subtree, Visit, Extent
      <3>4. C \in Seq(S) /\ Range(C) = {d} /\ DOMAIN C = {1}
        BY <3>3 DEF Range
      <3>5. Ordered(zone, C)
        BY <3>4 DEF Ordered
      <3> QED BY <3>3, <3>4, <3>5
    <2> QED BY <2>1, <2>2
  <1>12. PICK ZO : ZO = {a \in Nat : Holds(n, a)}
    OBVIOUS
  <1>13. /\ O \in Seq(S) /\ Ordered(zone, O) /\ Range(O) # {}
         /\ \A d \in Range(O) : Extent(zone, d) = ZO
    <2>1. PICK d : d = [node |-> n, whole |-> FALSE]
      OBVIOUS
    <2>2. O = <<d>> /\ d \in S /\ Extent(zone, d) = ZO
      BY <1>2, <1>6, <1>8, <1>12, <2>1 DEF Own, Visit, Extent
    <2>3. O \in Seq(S) /\ Range(O) = {d} /\ DOMAIN O = {1}
      BY <2>2 DEF Range
    <2>4. Ordered(zone, O)
      BY <2>3 DEF Ordered
    <2> QED BY <2>2, <2>3, <2>4
  <1>14. /\ ZL \subseteq zone[n] /\ ZO \subseteq zone[n] /\ ZR \subseteq zone[n]
         /\ \A a \in ZL, b \in ZO \cup ZR : a < b
         /\ \A a \in ZO, b \in ZR : a < b
         /\ \A a \in zone[n] : a \in ZL \/ a \in ZO \/ a \in ZR
    BY <1>6, <1>7, <1>12 DEF Holds
  <1>15. PICK p : p = A \o O
    OBVIOUS
  <1>16. p \in Seq(S) /\ Range(p) = Range(A) \cup Range(O) /\ Ordered(zone, p)
    <2>1. Precede(zone, A, O)
      BY <1>10, <1>13, <1>14 DEF Precede
    <2>3. p \in Seq(S)
      BY <1>10, <1>13, <1>15, <2>1, OrderedRow
    <2>4. Range(p) = Range(A) \cup Range(O)
      BY <1>10, <1>13, <1>15, <2>1, ConcatElements
    <2>5. Ordered(zone, p)
      BY <1>10, <1>13, <1>15, <2>1, OrderedRow
    <2> QED BY <2>3, <2>4, <2>5
  <1>29. PICK q : q = p \o C
    OBVIOUS
  <1>17. q \in Seq(S) /\ Range(q) = Range(p) \cup Range(C) /\ Ordered(zone, q)
    <2>1. Precede(zone, p, C)
      BY <1>10, <1>11, <1>13, <1>14, <1>16 DEF Precede
    <2>3. q \in Seq(S)
      BY <1>11, <1>16, <1>29, <2>1, OrderedRow
    <2>4. Range(q) = Range(p) \cup Range(C)
      BY <1>11, <1>16, <1>29, <2>1, ConcatElements
    <2>5. Ordered(zone, q)
      BY <1>11, <1>16, <1>29, <2>1, OrderedRow
    <2> QED BY <2>3, <2>4, <2>5
  <1>18. \A d \in Range(q) : Extent(zone, d) \subseteq Extent(zone, c)
    BY <1>6, <1>10, <1>11, <1>13, <1>14, <1>16, <1>17
  <1>19. PICK w : w = calls'
    OBVIOUS
  <1>20. w \in Seq(S) /\ Range(w) = Range(q) \cup Range(T) /\ Ordered(zone, w)
    <2>1. Precede(zone, q, T)
      BY <1>4, <1>18 DEF Precede
    <2>2. w = q \o T
      BY <1>9, <1>15, <1>19, <1>29
    <2>3. w \in Seq(S)
      BY <1>4, <1>17, <2>1, <2>2, OrderedRow
    <2>4. Range(w) = Range(q) \cup Range(T)
      BY <1>4, <1>17, <2>1, <2>2, ConcatElements
    <2>5. Ordered(zone, w)
      BY <1>4, <1>17, <2>1, <2>2, OrderedRow
    <2> QED BY <2>3, <2>4, <2>5
  <1>21. \A d \in Range(w) : \/ d \in Range(calls)
                             \/ Extent(zone, d) \subseteq Extent(zone, c)
    BY <1>4, <1>18, <1>20
  <1>22. /\ Reported' /\ TreeOK(zone)' /\ Index' = Index /\ Visit' = Visit
         /\ \A d : Extent(zone, d)' = Extent(zone, d)
         /\ \A u : Ordered(zone, u)' <=> Ordered(zone, u)
         /\ sorted' \in [Index' -> Area]
         /\ TypesOK(sorted, Len(given))'
         /\ \A i \in Index' : \A a \in Nat : Covers(sorted'[i], a) => InTree(a)'
    BY <1>1, ConvertKept
  <1>23. calls' \in Seq(Visit)' /\ Ordered(zone, calls)'
    <2>1. Ordered(zone, w)'
      BY <1>20, <1>22
    <2> QED BY <1>2, <1>19, <1>20, <1>22, <2>1 DEF Ordered
  <1>24. ASSUME NEW m \in DOMAIN tree, NEW a \in Nat, Holds(m, a)
         PROVE  \/ \E i \in DOMAIN mmap : Covers(mmap[i], a)
                \/ \E d \in Range(w) : a \in Extent(zone, d)
    <2>1. InTree(a)
      BY <1>24 DEF InTree
    <2>2. ASSUME a \in zone[n] PROVE \E d \in Range(w) : a \in Extent(zone, d)
      <3>1. CASE a \in ZL
        BY <1>10, <1>16, <1>17, <1>20, <2>1, <3>1
      <3>2. CASE a \in ZO
        BY <1>13, <1>16, <1>17, <1>20, <3>2
      <3>3. CASE a \in ZR
        BY <1>11, <1>17, <1>20, <2>1, <3>3
      <3> QED BY <1>14, <2>2, <3>1, <3>2, <3>3
    <2>3. \/ \E i \in DOMAIN mmap : Covers(mmap[i], a)
          \/ \E d \in Range(calls) : a \in Extent(zone, d)
      BY <1>24 DEF ConvertOK
    <2> QED BY <1>4, <1>6, <1>20, <2>2, <2>3
  <1>25. \A i \in DOMAIN mmap : \A d \in Range(w) : \A a \in Extent(zone, d) :
           mmap[i].addr + mmap[i].len <= a
    BY <1>4, <1>21 DEF ConvertOK
  <1>26. \A m \in DOMAIN tree' : \A a \in Nat :
           Holds(m, a)' => \/ \E i \in DOMAIN mmap' : Covers(mmap'[i], a)
                           \/ \E d \in Range(calls') : a \in Extent(zone, d)'
    BY <1>1, <1>19, <1>22, <1>24 DEF Holds
  <1>27. \A i \in DOMAIN mmap' : \A d \in Range(calls') : \A a \in Extent(zone, d)' :
           mmap'[i].addr + mmap'[i].len <= a
    BY <1>1, <1>19, <1>22, <1>25
  <1>28. /\ index' \in Nat /\ DOMAIN mmap' = 0..(index' - 1)
         /\ \A i \in DOMAIN mmap' : \E m \in DOMAIN tree' : mmap'[i] = Entry(tree'[m])
         /\ \A i, j \in DOMAIN mmap' : i < j => mmap'[i].addr + mmap'[i].len <= mmap'[j].addr
    BY <1>1 DEF ConvertOK
  <1> QED BY <1>22, <1>23, <1>26, <1>27, <1>28 DEF ConvertOK

LEMMA ConvertWriteStep ==
    ASSUME Reported, NEW zone, TreeOK(zone), ConvertOK(zone), ConvertWrite
    PROVE  Reported' /\ TreeOK(zone)' /\ ConvertOK(zone)'
  <1>1. /\ calls # <<>> /\ ~ Head(calls).whole
        /\ mmap' = [i \in 0..index |-> IF i = index THEN Entry(tree[Head(calls).node])
                                       ELSE mmap[i]]
        /\ index' = index + 1 /\ calls' = Tail(calls)
        /\ UNCHANGED <<given, tree, sorted>>
    BY DEF ConvertWrite
  <1>2. PICK c, n, T, S : c = Head(calls) /\ n = c.node /\ T = Tail(calls) /\ S = Visit
    OBVIOUS
  <1>3. /\ calls \in Seq(Visit) /\ Ordered(zone, calls)
        /\ index \in Nat /\ DOMAIN mmap = 0..(index - 1)
    BY DEF ConvertOK
  <1>4. /\ c \in Visit /\ c \in Range(calls) /\ T \in Seq(S) /\ Ordered(zone, T)
        /\ Range(calls) = {c} \cup Range(T)
        /\ \A d \in Range(T) : \A a \in Extent(zone, c), b \in Extent(zone, d) : a < b
    BY <1>1, <1>2, <1>3, HeadVisit
  <1>5. /\ n \in DOMAIN tree /\ Extent(zone, c) = {a \in Nat : Holds(n, a)}
        /\ tree[n].min \in Nat /\ tree[n].max \in Nat /\ tree[n].min <= tree[n].max
    <2>1. n \in DOMAIN tree
      BY <1>2, <1>4 DEF Visit
    <2>2. Extent(zone, c) = {a \in Nat : Holds(n, a)}
      BY <1>1, <1>2 DEF Extent
    <2> QED BY <2>1, <2>2, TreeTypes
  <1>6. PICK e, lo, hi : e = Entry(tree[n]) /\ lo = tree[n].min /\ hi = tree[n].max
    OBVIOUS
  <1>7. /\ e.addr = lo /\ e.len = (hi - lo) + 1 /\ lo \in Nat /\ hi \in Nat /\ lo <= hi
        /\ e.addr + e.len = hi + 1
        /\ \A a \in Nat : Holds(n, a) <=> Covers(e, a)
        /\ lo \in Extent(zone, c) /\ hi \in Extent(zone, c)
    BY <1>5, <1>6 DEF Entry, Region, Covers, Holds
  <1>8. /\ DOMAIN mmap' = 0..index /\ mmap'[index] = e
        /\ \A i \in 0..(index - 1) : mmap'[i] = mmap[i] /\ i \in 0..index /\ i < index
        /\ \A i \in 0..index : i = index \/ i \in 0..(index - 1)
        /\ index \in 0..index
    <2>1. \A i \in 0..(index - 1) : i \in 0..index /\ i < index /\ i # index
      BY <1>3
    <2>2. \A i \in 0..index : i = index \/ i \in 0..(index - 1)
      BY <1>3
    <2>3. index \in 0..index
      BY <1>3
    <2> QED BY <1>1, <1>2, <1>6, <2>1, <2>2, <2>3
  <1>9. /\ Reported' /\ TreeOK(zone)' /\ Index' = Index /\ Visit' = Visit
        /\ \A d : Extent(zone, d)' = Extent(zone, d)
        /\ \A u : Ordered(zone, u)' <=> Ordered(zone, u)
        /\ sorted' \in [Index' -> Area]
        /\ TypesOK(sorted, Len(given))'
        /\ \A i \in Index' : \A a \in Nat : Covers(sorted'[i], a) => InTree(a)'
    BY <1>1, ConvertKept
  <1>10. calls' \in Seq(Visit)' /\ Ordered(zone, calls)'
    <2>1. Ordered(zone, T)'
      BY <1>4, <1>9
    <2> QED BY <1>1, <1>2, <1>4, <1>9, <2>1 DEF Ordered
  <1>11. index' \in Nat /\ DOMAIN mmap' = 0..(index' - 1)
    BY <1>1, <1>3, <1>8
  <1>12. \A i \in DOMAIN mmap' : \E m \in DOMAIN tree' : mmap'[i] = Entry(tree'[m])
    BY <1>1, <1>3, <1>5, <1>6, <1>8 DEF ConvertOK
  <1>13. ASSUME NEW m \in DOMAIN tree, NEW a \in Nat, Holds(m, a)
         PROVE  \/ \E i \in DOMAIN mmap' : Covers(mmap'[i], a)
                \/ \E d \in Range(T) : a \in Extent(zone, d)
    <2>1. CASE \E i \in DOMAIN mmap : Covers(mmap[i], a)
      BY <1>3, <1>8, <2>1
    <2>2. CASE a \in Extent(zone, c)
      BY <1>5, <1>7, <1>8, <2>2
    <2>3. CASE \E d \in Range(T) : a \in Extent(zone, d)
      BY <2>3
    <2> QED BY <1>4, <1>13, <2>1, <2>2, <2>3 DEF ConvertOK
  <1>14. \A i, j \in DOMAIN mmap' : i < j => mmap'[i].addr + mmap'[i].len <= mmap'[j].addr
    <2> SUFFICES ASSUME NEW i \in 0..index, NEW j \in 0..index, i < j
                 PROVE  mmap'[i].addr + mmap'[i].len <= mmap'[j].addr
      BY <1>8
    <2>1. i \in 0..(index - 1)
      BY <1>3, <1>8
    <2>2. CASE j = index
      BY <1>3, <1>4, <1>7, <1>8, <2>1, <2>2 DEF ConvertOK
    <2>3. CASE j \in 0..(index - 1)
      BY <1>3, <1>8, <2>1, <2>3 DEF ConvertOK
    <2> QED BY <1>8, <2>2, <2>3
  <1>15. \A i \in DOMAIN mmap' : \A d \in Range(T) : \A a \in Extent(zone, d) :
           mmap'[i].addr + mmap'[i].len <= a
    <2> SUFFICES ASSUME NEW i \in 0..index, NEW d \in Range(T), NEW a \in Extent(zone, d)
                 PROVE  mmap'[i].addr + mmap'[i].len <= a
      BY <1>8
    <2>1. CASE i = index
      <3>1. hi < a
        BY <1>4, <1>7
      <3>2. a \in Nat
        <4>1. PICK k \in DOMAIN T : d = T[k]
          BY DEF Range
        <4>2. d \in Visit
          BY <1>2, <1>4, <4>1, LenProperties, ElementOfSeq
        <4>3. d.node \in DOMAIN tree
          BY <4>2 DEF Visit
        <4> QED BY <4>3, TreeTypes DEF Extent
      <3> QED BY <1>7, <1>8, <2>1, <3>1, <3>2
    <2>2. CASE i \in 0..(index - 1)
      BY <1>3, <1>4, <1>8, <2>2 DEF ConvertOK
    <2> QED BY <1>8, <2>1, <2>2
  <1>16. \A m \in DOMAIN tree' : \A a \in Nat :
           Holds(m, a)' => \/ \E i \in DOMAIN mmap' : Covers(mmap'[i], a)
                           \/ \E d \in Range(calls') : a \in Extent(zone, d)'
    BY <1>1, <1>2, <1>9, <1>13 DEF Holds
  <1>17. \A i \in DOMAIN mmap' : \A d \in Range(calls') : \A a \in Extent(zone, d)' :
           mmap'[i].addr + mmap'[i].len <= a
    BY <1>1, <1>2, <1>9, <1>15
  <1> QED BY <1>9, <1>10, <1>11, <1>12, <1>14, <1>16, <1>17 DEF ConvertOK

\* What the conversion has made once no call is left.
LEMMA ConvertedMap ==
    ASSUME NEW zone, TreeOK(zone), ConvertOK(zone), calls = <<>>
    PROVE  /\ index \in Nat /\ DOMAIN mmap = 0..(index - 1)
           /\ \A i \in DOMAIN mmap : /\ mmap[i].addr \in Nat /\ mmap[i].len \in Nat \ {0}
                                     /\ mmap[i].type \in Nat
                                     /\ mmap[i] \in Area
           /\ \A i, j \in DOMAIN mmap : i < j => mmap[i].addr + mmap[i].len <= mmap[j].addr
           /\ \A i \in DOMAIN mmap : \E n \in DOMAIN tree :
                mmap[i].type = tree[n].type /\ \A a \in Nat : Holds(n, a) <=> Covers(mmap[i], a)
           /\ \A a \in Nat : InTree(a) => \E i \in DOMAIN mmap : Covers(mmap[i], a)
  <1>1. ASSUME NEW i \in DOMAIN mmap
        PROVE  /\ mmap[i] \in Area
               /\ \E n \in DOMAIN tree :
                    mmap[i].type = tree[n].type /\ \A a \in Nat : Holds(n, a) <=> Covers(mmap[i], a)
    <2>1. PICK n \in DOMAIN tree : mmap[i] = Entry(tree[n])
      BY DEF ConvertOK
    <2>2. PICK lo, hi, ty, e : lo = tree[n].min /\ hi = tree[n].max /\ ty = tree[n].type /\ e = mmap[i]
      OBVIOUS
    <2>3. lo \in Nat /\ hi \in Nat /\ lo <= hi /\ ty \in Nat
      BY <2>2, TreeTypes DEF TreeNode
    <2>4. e = [addr |-> lo, len |-> (hi - lo) + 1, type |-> ty]
      BY <2>1, <2>2 DEF Entry, Region
    <2>5. e \in Area /\ e.type = ty
      BY <2>3, <2>4 DEF Area
    <2>6. \A a \in Nat : Holds(n, a) <=> Covers(e, a)
      BY <2>2, <2>3, <2>4 DEF Holds, Covers
    <2> QED BY <2>2, <2>5, <2>6
  <1>2. ASSUME NEW a \in Nat, InTree(a) PROVE \E i \in DOMAIN mmap : Covers(mmap[i], a)
    <2>1. Range(calls) = {}
      BY DEF Range
    <2> QED BY <1>2, <2>1 DEF InTree, ConvertOK
  <1>3. \A i \in DOMAIN mmap : /\ mmap[i].addr \in Nat /\ mmap[i].len \in Nat \ {0}
                               /\ mmap[i].type \in Nat
    BY <1>1 DEF Area
  <1> QED BY <1>1, <1>2, <1>3 DEF ConvertOK

LEMMA TruncateStep ==
    ASSUME NEW zone, TreeOK(zone), ConvertOK(zone), Truncate
    PROVE  CleanMap'
  <1>1. calls = <<>> /\ mmap' = [i \in DOMAIN mmap |-> Truncated(mmap[i])]
    BY DEF Truncate, Converted
  <1>2. /\ index \in Nat /\ DOMAIN mmap = 0..(index - 1)
        /\ \A i \in DOMAIN mmap : /\ mmap[i].addr \in Nat /\ mmap[i].len \in Nat \ {0}
                                  /\ mmap[i].type \in Nat
                                  /\ mmap[i] \in Area
        /\ \A i, j \in DOMAIN mmap : i < j => mmap[i].addr + mmap[i].len <= mmap[j].addr
    BY <1>1, ConvertedMap
  <1>3. ASSUME NEW r \in Area
        PROVE  /\ Truncated(r) \in [addr : Nat, len : Nat, type : Nat]
               /\ Truncated(r).addr = r.addr /\ Truncated(r).len <= r.len
               /\ Truncated(r).len \in Nat
               /\ Truncated(r).type = Available => Truncated(r).addr + Truncated(r).len < Limit
    <2>1. r.addr \in Nat /\ r.len \in Nat \ {0} /\ r.type \in Nat /\ Limit \in Nat
      BY E820Assumption DEF Area
    <2>2. CASE r.type = Available /\ r.addr >= Limit
      <3>1. Truncated(r) = [r EXCEPT !.type = Reserved]
        BY <2>2 DEF Truncated
      <3> QED BY <2>1, <3>1 DEF Area, Available, Reserved
    <2>3. CASE r.type = Available /\ ~ r.addr >= Limit /\ r.addr + r.len >= Limit
      <3>1. Truncated(r) = [r EXCEPT !.len = Limit - 1 - r.addr]
        BY <2>3 DEF Truncated
      <3>2. PICK l : l = Limit - 1 - r.addr
        OBVIOUS
      <3>3. l \in Nat /\ l <= r.len /\ r.addr + l < Limit
        BY <2>1, <2>3, <3>2
      <3>4. Truncated(r) = [r EXCEPT !.len = l]
        BY <3>1, <3>2
      <3> QED BY <2>1, <3>3, <3>4 DEF Area
    <2>4. CASE ~ (r.type = Available /\ r.addr >= Limit) /\ ~ (r.type = Available /\ r.addr + r.len >= Limit)
      <3>1. Truncated(r) = r
        BY <2>4 DEF Truncated
      <3> QED BY <2>1, <2>4, <3>1 DEF Area
    <2> QED BY <2>2, <2>3, <2>4
  <1>4. DOMAIN mmap' = 0..(index - 1) /\ \A i \in 0..(index - 1) : mmap'[i] = Truncated(mmap[i])
    BY <1>1, <1>2
  <1>5. mmap' \in [0..(index - 1) -> [addr : Nat, len : Nat, type : Nat]]
    BY <1>1, <1>2, <1>3
  <1>6. \A i, j \in DOMAIN mmap' : i < j => mmap'[i].addr + mmap'[i].len <= mmap'[j].addr
    <2> SUFFICES ASSUME NEW i \in 0..(index - 1), NEW j \in 0..(index - 1), i < j
                 PROVE  mmap'[i].addr + mmap'[i].len <= mmap'[j].addr
      BY <1>4
    <2>1. PICK p, q, s, t : p = mmap[i] /\ q = mmap[j] /\ s = mmap'[i] /\ t = mmap'[j]
      OBVIOUS
    <2>2. /\ s.addr = p.addr /\ s.len <= p.len /\ s.len \in Nat /\ t.addr = q.addr
          /\ p.addr \in Nat /\ p.len \in Nat /\ q.addr \in Nat
          /\ p.addr + p.len <= q.addr
      BY <1>2, <1>3, <1>4, <2>1
    <2>3. s.addr + s.len <= t.addr
      BY <2>2
    <2> QED BY <2>1, <2>3
  <1>7. \A r \in Entries' : r.type = Available => r.addr + r.len < Limit
    BY <1>2, <1>3, <1>4 DEF Entries
  <1> QED BY <1>2, <1>5, <1>6, <1>7 DEF CleanMap, InOrderDisjoint, NoneAbove4GB

-----------------------------------------------------------------------------
(* The properties of the memory map                                        *)

\* A map that is a permutation of the reported one has each region as often.
LEMMA SameCount ==
    ASSUME Reported, mmap \in [Index -> Area], Permuted(mmap), NEW r
    PROVE  Cardinality({i \in DOMAIN mmap : mmap[i] = r})
               = Cardinality({i \in DOMAIN given : given[i] = r})
  <1>1. PICK p \in Bijection(Index, DOMAIN given) : \A i \in Index : mmap[i] = given[p[i]]
    BY DEF Permuted
  <1>2. /\ p \in [Index -> DOMAIN given]
        /\ \A a, b \in Index : p[a] = p[b] => a = b
        /\ \A d \in DOMAIN given : \E a \in Index : p[a] = d
    BY <1>1, Fun_BijectionProperties
  <1>3. PICK S, T : S = {i \in Index : mmap[i] = r} /\ T = {i \in DOMAIN given : given[i] = r}
    OBVIOUS
  <1>4. PICK q : q = [i \in S |-> p[i]]
    OBVIOUS
  <1>5. q \in [S -> T] /\ \A i \in S : q[i] = p[i]
    BY <1>1, <1>2, <1>3, <1>4
  <1>6. \A a, b \in S : q[a] = q[b] => a = b
    BY <1>2, <1>3, <1>5
  <1>7. \A t \in T : \E a \in S : q[a] = t
    BY <1>1, <1>2, <1>3, <1>5
  <1>8. q \in Bijection(S, T)
    BY <1>5, <1>6, <1>7, Fun_IsBij
  <1>9. ExistsBijection(S, T)
    BY <1>8, Fun_ExistsBij
  <1>10. IsFiniteSet(S)
    <2>1. Len(given) \in Nat
      BY LenProperties DEF Reported
    <2>2. IsFiniteSet(Index)
      BY <2>1, FS_Interval DEF Index
    <2>3. S \in SUBSET Index
      BY <1>3
    <2> QED BY <2>2, <2>3, FS_Subset
  <1>11. Cardinality(T) = Cardinality(S)
    BY <1>9, <1>10, FS_Bijection
  <1>12. DOMAIN mmap = Index
    OBVIOUS
  <1> QED BY <1>3, <1>11, <1>12

LEMMA MapInvSort ==
    ASSUME MapInv
    PROVE  SortPermutes
  <1> SUFFICES ASSUME phase = "sort"
               PROVE  /\ \A r \in Range(given) \cup Entries :
                            Cardinality({i \in DOMAIN mmap : mmap[i] = r})
                                = Cardinality({i \in DOMAIN given : given[i] = r})
                      /\ ranges = <<>> =>
                            \A i, j \in DOMAIN mmap : i + 2 <= j => mmap[i].type >= mmap[j].type
    BY DEF SortPermutes
  <1>1. SortOK
    BY DEF MapInv
  <1>2. \A r \in Range(given) \cup Entries :
          Cardinality({i \in DOMAIN mmap : mmap[i] = r})
              = Cardinality({i \in DOMAIN given : given[i] = r})
    BY <1>1, SameCount DEF SortOK
  <1>3. ASSUME ranges = <<>>, NEW i \in DOMAIN mmap, NEW j \in DOMAIN mmap, i + 2 <= j
        PROVE  mmap[i].type >= mmap[j].type
    <2>1. i \in Index /\ j \in Index /\ i \in Nat /\ j \in Nat
      BY <1>1, MapTypes
    <2>2. i < j /\ j # i + 1
      BY <1>3, <2>1
    <2>3. ~ Wrapped /\ DOMAIN ranges = {}
      BY <1>3 DEF Wrapped
    <2> QED BY <1>1, <2>1, <2>2, <2>3 DEF SortOK, OrderOK
  <1> QED BY <1>2, <1>3

LEMMA MapInvOrder ==
    ASSUME MapInv
    PROVE  InOrderDisjoint
  <1>1. CASE Converted
    <2>1. PICK zone : TreeOK(zone) /\ ConvertOK(zone)
      BY <1>1 DEF MapInv, Converted
    <2>2. \A i, j \in DOMAIN mmap : i < j => mmap[i].addr + mmap[i].len <= mmap[j].addr
      BY <1>1, <2>1, ConvertedMap DEF Converted
    <2> QED BY <2>2 DEF InOrderDisjoint
  <1>2. CASE phase = "done"
    BY <1>2 DEF MapInv, CleanMap
  <1> QED BY <1>1, <1>2 DEF InOrderDisjoint

LEMMA MapInvFirst ==
    ASSUME MapInv
    PROVE  FirstEntryWins
  <1> SUFFICES ASSUME Converted,
                      NEW a \in UNION {r.addr..(r.addr + r.len) :
                                        r \in Entries \cup {sorted[i] : i \in DOMAIN sorted}}
               PROVE  LET by == {i \in DOMAIN sorted : Covers(sorted[i], a)}
                          to == {i \in DOMAIN mmap : Covers(mmap[i], a)}
                      IN  /\ by = {} <=> to = {}
                          /\ by # {} => \A i \in to : mmap[i].type = sorted[Min(by)].type
    BY DEF FirstEntryWins
  <1>1. PICK zone : TreeOK(zone) /\ ConvertOK(zone)
    BY DEF MapInv, Converted
  <1>2. /\ \A i \in DOMAIN mmap : mmap[i].addr \in Nat /\ mmap[i].len \in Nat \ {0}
        /\ \A i \in DOMAIN mmap : \E n \in DOMAIN tree :
             mmap[i].type = tree[n].type /\ \A b \in Nat : Holds(n, b) <=> Covers(mmap[i], b)
        /\ \A b \in Nat : InTree(b) => \E i \in DOMAIN mmap : Covers(mmap[i], b)
    BY <1>1, ConvertedMap DEF Converted
  <1>3. /\ sorted \in [Index -> Area] /\ TypesOK(sorted, Len(given)) /\ Len(given) \in Nat
        /\ \A i \in Index : \A b \in Nat : Covers(sorted[i], b) => InTree(b)
    BY <1>1, LenProperties DEF ConvertOK, MapInv, Converted, Reported
  <1>4. a \in Nat
    <2>1. PICK r \in Entries \cup {sorted[i] : i \in DOMAIN sorted} : a \in r.addr..(r.addr + r.len)
      OBVIOUS
    <2>2. r.addr \in Nat /\ r.len \in Nat
      <3>1. CASE r \in Entries
        BY <1>2, <3>1 DEF Entries
      <3>2. CASE r \in {sorted[i] : i \in DOMAIN sorted}
        BY <1>3, <3>2 DEF Area
      <3> QED BY <3>1, <3>2
    <2> QED BY <2>1, <2>2
  <1>5. PICK by, to : /\ by = {i \in DOMAIN sorted : Covers(sorted[i], a)}
                      /\ to = {i \in DOMAIN mmap : Covers(mmap[i], a)}
    OBVIOUS
  <1>6. by \in SUBSET Nat /\ DOMAIN sorted = Index
    BY <1>3, <1>5 DEF Index
  <1>7. ASSUME NEW i \in to
        PROVE  \E d \in by : mmap[i].type = sorted[d].type /\ \A h \in by : d <= h
    <2>1. PICK n \in DOMAIN tree : mmap[i].type = tree[n].type /\ Holds(n, a)
      BY <1>2, <1>4, <1>5
    <2>2. PICK d \in 0..(Len(given) - 1) :
             Decides(sorted, Len(given), d, a) /\ tree[n].type = sorted[d].type
      BY <1>3, <1>4, <2>1 DEF TypesOK
    <2>3. d \in by
      BY <1>5, <1>6, <2>2 DEF Decides, Index
    <2>4. \A h \in by : ~ h < d
      BY <1>5, <1>6, <2>2 DEF Decides, Index
    <2>5. \A h \in by : d <= h
      BY <1>6, <2>3, <2>4
    <2> QED BY <2>1, <2>2, <2>3, <2>5
  <1>8. by = {} <=> to = {}
    <2>1. ASSUME NEW i \in by PROVE to # {}
      BY <1>2, <1>3, <1>4, <1>5
    <2> QED BY <1>7, <2>1
  <1>9. ASSUME by # {}, NEW i \in to PROVE mmap[i].type = sorted[Min(by)].type
    <2>1. PICK d \in by : mmap[i].type = sorted[d].type /\ \A h \in by : d <= h
      BY <1>7
    <2>2. Min(by) \in by /\ \A h \in by : Min(by) <= h
      BY <1>6, <1>9, LeastOf
    <2>3. d \in Nat /\ Min(by) \in Nat
      BY <1>6, <2>2
    <2>4. d = Min(by)
      BY <2>1, <2>2, <2>3
    <2> QED BY <2>1, <2>4
  <1> QED BY <1>5, <1>8, <1>9

LEMMA MapInvLow ==
    ASSUME MapInv
    PROVE  NoneAbove4GB
  BY DEF MapInv, CleanMap, NoneAbove4GB

-----------------------------------------------------------------------------
(* The invariant                                                           *)

LEMMA MapInvInit ==
    ASSUME Init
    PROVE  MapInv
  BY DEF Init, MapInv, Phases

LEMMA MapInvKept ==
    ASSUME MapInv, UNCHANGED vars
    PROVE  MapInv'
  <1>1. UNCHANGED <<phase, given, mmap, ranges, cursor, tree, calls, index, sorted>>
    BY DEF vars
  <1>2. phase' \in Phases
    BY <1>1 DEF MapInv
  <1>3. ASSUME phase = "sort" PROVE SortOK' /\ \E zone : TreeOK(zone)' /\ InsertsOK(zone)'
    <2>1. PICK zone : TreeOK(zone) /\ InsertsOK(zone)
      BY <1>3 DEF MapInv
    <2>2. SortOK' /\ Index' = Index /\ TreeOK(zone)'
      BY <1>1, <1>3, <2>1, SortKept, TreeKept DEF MapInv
    <2>3. InsertsOK(zone)'
      BY <1>1, <2>1 DEF InsertsOK, CallType, CallOK, Beside, TypesOK, Holds, InTree, Decides
    <2> QED BY <2>2, <2>3
  <1>4. ASSUME phase = "convert" PROVE Reported' /\ \E zone : TreeOK(zone)' /\ ConvertOK(zone)'
    <2>1. PICK zone : TreeOK(zone) /\ ConvertOK(zone)
      BY <1>4 DEF MapInv
    <2>2. Reported
      BY <1>4 DEF MapInv
    <2>3. /\ Reported' /\ TreeOK(zone)' /\ Index' = Index /\ Visit' = Visit
          /\ \A c : Extent(zone, c)' = Extent(zone, c)
          /\ \A q : Ordered(zone, q)' <=> Ordered(zone, q)
          /\ sorted' \in [Index' -> Area]
          /\ TypesOK(sorted, Len(given))'
          /\ \A i \in Index' : \A a \in Nat : Covers(sorted'[i], a) => InTree(a)'
      BY <1>1, <2>1, <2>2, ConvertKept
    <2>4. ConvertOK(zone)'
      BY <1>1, <2>1 DEF ConvertOK, Index, Visit, Ordered, Extent, TypesOK, Holds, InTree, Decides
    <2> QED BY <2>3, <2>4
  <1>5. ASSUME phase = "done" PROVE CleanMap'
    BY <1>1, <1>5 DEF MapInv, CleanMap, InOrderDisjoint, NoneAbove4GB, Entries, Converted
  <1> QED BY <1>1, <1>2, <1>3, <1>4, <1>5 DEF MapInv

\* The steps of the sort leave the tree as it is: there is none yet.
LEMMA SortPhase ==
    ASSUME MapInv, phase = "sort", ranges # <<>>, SortOK',
           UNCHANGED <<phase, given, tree, calls, index>>
    PROVE  MapInv'
  <1>1. index = 0 /\ tree = <<>> /\ calls = <<>>
    BY DEF MapInv, InsertsOK
  <1>2. Len(given') \in Nat
    <2>1. Reported'
      BY DEF SortOK
    <2> QED BY <2>1, LenProperties DEF Reported
  <1>3. \E zone : TreeOK(zone)' /\ InsertsOK(zone)'
    <2>1. tree' = <<>> /\ calls' = <<>> /\ index' = 0
      BY <1>1
    <2> QED BY <1>2, <2>1, NoTree
  <1> QED BY <1>3 DEF MapInv

\* Whatever map is copied, the sort starts with all of it.
LEMMA CopyPhase ==
    ASSUME MapInv, NEW regions \in Seq(Area), Len(regions) < 255, Copy(regions)
    PROVE  MapInv'
  <1>1. /\ phase = "boot" /\ phase' = "sort"
        /\ UNCHANGED <<cursor, tree, calls, index>>
    BY DEF Copy
  <1>2. cursor = <<>> /\ tree' = <<>> /\ calls' = <<>> /\ index' = 0
    BY <1>1 DEF MapInv
  <1>3. SortOK'
    BY <1>1, <1>2, CopyStep
  <1>4. Len(given') \in Nat
    BY <1>3, LenProperties DEF SortOK, Reported
  <1>5. \E zone : TreeOK(zone)' /\ InsertsOK(zone)'
    BY <1>2, <1>4, NoTree
  <1>6. phase' \in Phases
    BY <1>1 DEF Phases
  <1> QED BY <1>1, <1>3, <1>5, <1>6 DEF MapInv

LEMMA MapInvStep ==
    ASSUME MapInv, [Next]_vars
    PROVE  MapInv'
  <1>1. CASE UNCHANGED vars
    BY <1>1, MapInvKept
  <1>2. ASSUME phase' = "failed" PROVE MapInv'
    BY <1>2 DEF MapInv, Phases
  <1>3. ASSUME NEW m \in Maps, Relocate(m) PROVE MapInv'
    <2>1. m \in Seq(Area)
      BY E820Assumption DEF Area
    <2>2. Len(m) < 255 /\ Copy(m)
      <3>1. Len(m) \in Nat /\ Len(m) <= MmapMax /\ MmapMax \in 1..254
        BY <1>3, <2>1, LenProperties, E820Assumption DEF Relocate
      <3>2. Len(m) < 255
        BY <3>1
      <3> QED BY <1>3, <3>2 DEF Relocate
    <2> QED BY <2>1, <2>2, CopyPhase
  <1>4. ASSUME NEW l \in Lowers, NEW u \in Uppers, RelocateLegacy(l, u) PROVE MapInv'
    <2>1. PICK q : q = <<Region(LowStart, l, Available), Region(RomStart, RomSize, Reserved),
                         Region(HighStart, u, Available)>>
      OBVIOUS
    <2>2. l \in Nat \ {0} /\ u \in Nat \ {0} /\ Copy(q)
      BY <1>4, <2>1, E820Assumption DEF RelocateLegacy
    <2>3. /\ Region(LowStart, l, Available) \in Area /\ Region(RomStart, RomSize, Reserved) \in Area
          /\ Region(HighStart, u, Available) \in Area
      BY <2>2, E820Assumption DEF Region, Area, Available, Reserved
    <2>4. q \in Seq(Area) /\ Len(q) = 3
      BY <2>1, <2>3
    <2>5. Len(q) < 255
      BY <2>4
    <2> QED BY <2>2, <2>4, <2>5, CopyPhase
  <1>5. ASSUME SortNothing \/ PartitionStarts \/ Sweep \/ PartitionEnds PROVE MapInv'
    <2>1. /\ phase = "sort" /\ ranges # <<>>
          /\ UNCHANGED <<phase, given, tree, calls, index>>
      BY <1>5 DEF SortNothing, PartitionStarts, Sweep, PartitionEnds, Sorting
    <2>2. SortOK
      BY <2>1 DEF MapInv
    <2>3. SortOK'
      BY <1>5, <2>2, SortNothingStep, PartitionStartsStep, SweepStep, PartitionEndsStep
    <2> QED BY <2>1, <2>3, SortPhase
  <1>6. ASSUME Insert \/ InsertAround \/ InsertLeaf PROVE MapInv'
    <2>1. phase = "sort" /\ phase' = "sort"
      BY <1>6 DEF Insert, InsertAround, InsertLeaf, Building
    <2>2. SortOK
      BY <2>1 DEF MapInv
    <2>3. PICK zone : TreeOK(zone) /\ InsertsOK(zone)
      BY <2>1 DEF MapInv
    <2>4. SortOK' /\ \E z : TreeOK(z)' /\ InsertsOK(z)'
      BY <1>6, <2>2, <2>3, InsertStep, InsertAroundStep, InsertLeafStep
    <2> QED BY <2>1, <2>4 DEF MapInv, Phases
  <1>7. ASSUME ConvertStarts PROVE MapInv'
    <2>1. phase = "sort" /\ phase' = "convert"
      BY <1>7 DEF ConvertStarts, Building
    <2>2. SortOK
      BY <2>1 DEF MapInv
    <2>3. PICK zone : TreeOK(zone) /\ InsertsOK(zone)
      BY <2>1 DEF MapInv
    <2>4. Reported' /\ TreeOK(zone)' /\ ConvertOK(zone)'
      BY <1>7, <2>2, <2>3, ConvertStartsStep
    <2> QED BY <2>1, <2>4 DEF MapInv, Phases
  <1>8. ASSUME ConvertAround \/ ConvertWrite PROVE MapInv'
    <2>1. phase = "convert" /\ phase' = "convert"
      BY <1>8 DEF ConvertAround, ConvertWrite
    <2>2. Reported
      BY <2>1 DEF MapInv
    <2>3. PICK zone : TreeOK(zone) /\ ConvertOK(zone)
      BY <2>1 DEF MapInv
    <2>4. Reported' /\ TreeOK(zone)' /\ ConvertOK(zone)'
      BY <1>8, <2>2, <2>3, ConvertAroundStep, ConvertWriteStep
    <2> QED BY <2>1, <2>4 DEF MapInv, Phases
  <1>9. ASSUME Truncate PROVE MapInv'
    <2>1. phase = "convert" /\ phase' = "done"
      BY <1>9 DEF Truncate, Converted
    <2>2. PICK zone : TreeOK(zone) /\ ConvertOK(zone)
      BY <2>1 DEF MapInv
    <2>3. CleanMap'
      BY <1>9, <2>2, TruncateStep
    <2> QED BY <2>1, <2>3 DEF MapInv, Phases
  <1>10. ASSUME \/ \E m \in Maps : RelocateOverruns(m)
                \/ SortOverruns \/ InsertFails
         PROVE  MapInv'
    BY <1>2, <1>10 DEF RelocateOverruns, SortOverruns, InsertFails
  <1> QED BY <1>1, <1>3, <1>4, <1>5, <1>6, <1>7, <1>8, <1>9, <1>10 DEF Next


-----------------------------------------------------------------------------
(* Moving the boot modules                                                 *)

LEMMA Quotient ==
    ASSUME NEW a \in Nat, NEW b \in Nat \ {0}
    PROVE  /\ a \div b \in Nat /\ (a \div b) * b <= a /\ a < (a \div b) * b + b
           /\ a % b \in 0..(b - 1) /\ a = (a \div b) * b + (a % b)
  BY SMT

LEMMA QuotientIs ==
    ASSUME NEW b \in Nat \ {0}, NEW q \in Int, NEW r \in 0..(b - 1), NEW a, a = q * b + r
    PROVE  a \div b = q /\ a % b = r
  BY SMT

LEMMA Multiples ==
    ASSUME NEW b \in Nat \ {0}, NEW p \in Int, NEW q \in Int, p < q
    PROVE  p * b + b <= q * b
  <1>1. PICK d \in Nat : q = p + 1 + d
    <2>1. q - p - 1 \in Nat /\ q = p + 1 + (q - p - 1)
      OBVIOUS
    <2> QED BY <2>1
  <1>2. q * b = p * b + b + d * b /\ d * b \in Nat
    BY <1>1
  <1> QED BY <1>2

Multiple(a) == \E q \in Nat : a = q * Page

LEMMA PageSize == Page \in Nat \ {0} /\ Word \in Nat \ {0} /\ ByteBits \in Nat \ {0}
  BY BootAssumption

LEMMA Aligned ==
    ASSUME NEW a \in Nat
    PROVE  AlignSup(a) \in Nat /\ a <= AlignSup(a) /\ Multiple(AlignSup(a))
  <1>1. PICK q : q = (a + Page - 1) \div Page
    OBVIOUS
  <1>2. a + Page - 1 \in Nat
    BY PageSize
  <1>3. q \in Nat /\ a + Page - 1 < q * Page + Page
    BY <1>1, <1>2, PageSize, Quotient
  <1>4. AlignSup(a) = q * Page
    BY <1>1 DEF AlignSup
  <1>5. q * Page \in Nat /\ a <= q * Page
    BY <1>2, <1>3, PageSize
  <1> QED BY <1>3, <1>4, <1>5 DEF Multiple

LEMMA MultipleSum ==
    ASSUME NEW a, NEW b, Multiple(a), Multiple(b)
    PROVE  Multiple(a + b) /\ a + b \in Nat /\ a \in Nat /\ b \in Nat
  <1>1. PICK p \in Nat, q \in Nat : a = p * Page /\ b = q * Page
    BY DEF Multiple
  <1>2. a + b = (p + q) * Page /\ p + q \in Nat /\ a \in Nat /\ b \in Nat
    BY <1>1, PageSize
  <1> QED BY <1>2 DEF Multiple

Module == [start : Nat, end : Nat]

\* The units of a module that are copied.
Words(mod) == ((mod.end - mod.start) \div Word) * Word

LEMMA WordsCopied ==
    ASSUME NEW mod \in Module, mod.start <= mod.end
    PROVE  Words(mod) \in Nat /\ Words(mod) <= mod.end - mod.start
  <1>1. mod.end - mod.start \in Nat
    BY DEF Module
  <1>2. PICK q : q = (mod.end - mod.start) \div Word
    OBVIOUS
  <1>3. q \in Nat /\ q * Word <= mod.end - mod.start
    BY <1>1, <1>2, PageSize, Quotient
  <1> QED BY <1>2, <1>3, PageSize DEF Words

\* The first n units of module i are where mods_list says.
Present(i, n) == \A k \in 0..(n - 1) : memory[mods[i].start + k] = <<i, k>>

Moved(i) ==
    /\ mods[i].start <= mods[i].end
    /\ mods[i].start + Words(mods[i]) <= limit /\ mods[i].start + Words(mods[i]) <= Limit
    /\ Present(i, Words(mods[i]))

\* A module that lies below limit by now will be refused when its turn comes.
Waiting(i) ==
    /\ mods[i].start <= mods[i].end /\ mods[i].end <= Limit
    /\ mods[i].start >= limit => Present(i, mods[i].end - mods[i].start)

ModsInv ==
    /\ limit \in Nat
    /\ stage = "map" => next = 1
    /\ stage \in {"modules", "sum", "place", "fill", "ready"} => phase = "done"
    /\ stage \in {"modules", "sum"} => mods \in Seq(Module) /\ DOMAIN memory = 0..(Limit - 1)
    /\ stage = "modules" =>
          /\ next \in 1..(Len(mods) + 1)
          /\ \A j \in DOMAIN mods : IF j < next THEN Moved(j) ELSE Waiting(j)
    /\ stage = "sum" => \A j \in DOMAIN mods : Moved(j)
    /\ ModulesIntact

\* Whatever the list, memory as loaded has each unit of each module.
LEMMA LoadedModules ==
    ASSUME NEW list \in ModLists, NEW j \in DOMAIN list,
           NEW k \in 0..(list[j].end - list[j].start - 1)
    PROVE  Loaded(list)[list[j].start + k] = <<j, k>>
  <1>1. /\ list \in Seq(Module)
        /\ \A i \in DOMAIN list : list[i].start <= list[i].end /\ list[i].end <= Limit
        /\ \A h, i \in DOMAIN list :
             h # i => list[h].end <= list[i].start \/ list[i].end <= list[h].start
    BY ModListsAssumption DEF Module
  <1>2. ASSUME NEW i \in DOMAIN list PROVE list[i].start \in Nat /\ list[i].end \in Nat
    <2>1. i \in 1..Len(list)
      BY <1>1, LenProperties
    <2>2. list[i] \in Module
      BY <1>1, <2>1, ElementOfSeq
    <2> QED BY <2>2 DEF Module
  <1>3. Limit \in Nat
    BY E820Assumption
  <1>4. PICK a : a = list[j].start + k
    OBVIOUS
  <1>5. a \in 0..(Limit - 1) /\ list[j].start <= a /\ a < list[j].end /\ a - list[j].start = k
    BY <1>1, <1>2, <1>3, <1>4
  <1>6. \A i \in DOMAIN list : list[i].start <= a /\ a < list[i].end => i = j
    <2> SUFFICES ASSUME NEW i \in DOMAIN list, list[i].start <= a, a < list[i].end, i # j
                 PROVE  FALSE
      OBVIOUS
    <2>1. list[i].end <= list[j].start \/ list[j].end <= list[i].start
      BY <1>1
    <2>2. /\ a \in Int /\ list[i].start \in Nat /\ list[i].end \in Nat
          /\ list[j].start \in Nat /\ list[j].end \in Nat
      BY <1>2, <1>5
    <2> QED BY <1>5, <2>1, <2>2
  <1>7. PICK i : i = CHOOSE h \in DOMAIN list : list[h].start <= a /\ a < list[h].end
    OBVIOUS
  <1>8. i = j
    BY <1>5, <1>6, <1>7
  <1>9. Loaded(list)[a] = <<i, a - list[i].start>>
    BY <1>5, <1>7 DEF Loaded
  <1> QED BY <1>4, <1>5, <1>8, <1>9

LEMMA ModsReportedStep ==
    ASSUME ModsInv, NEW list \in ModLists, ModsReported(list)
    PROVE  ModsInv'
  <1>1. /\ stage = "map" /\ phase = "done" /\ phase' = "done"
        /\ mods' = list /\ memory' = Loaded(list) /\ stage' \in {"modules", "failed"}
        /\ UNCHANGED <<limit, next>>
    BY DEF ModsReported, vars
  <1>2. limit' \in Nat /\ next' = 1
    BY <1>1 DEF ModsInv
  <1>3. /\ list \in Seq(Module)
        /\ \A i \in DOMAIN list : list[i].start <= list[i].end /\ list[i].end <= Limit
    BY ModListsAssumption DEF Module
  <1>4. DOMAIN memory' = 0..(Limit - 1)
    BY <1>1 DEF Loaded
  <1>5. \A j \in DOMAIN list : j \in Nat /\ ~ j < 1
    BY <1>3, LenProperties
  <1>6. \A j \in DOMAIN list : Waiting(j)'
    BY <1>1, <1>3, LoadedModules DEF Waiting, Present
  <1>7. 1 \in 1..(Len(list) + 1)
    BY <1>3, LenProperties
  <1> QED BY <1>1, <1>2, <1>3, <1>4, <1>5, <1>6, <1>7 DEF ModsInv, ModulesIntact

LEMMA MoveModuleStep ==
    ASSUME ModsInv, MoveModule
    PROVE  ModsInv'
  <1>1. PICK mod : mod = mods[next]
    OBVIOUS
  <1>2. PICK W : W = Words(mod)
    OBVIOUS
  <1>3. /\ stage = "modules" /\ stage' = "modules" /\ phase' = phase /\ next \in DOMAIN mods
        /\ mod.start >= limit
        /\ memory' = MemCopy(memory, mod.start, limit, mod.end - mod.start)
        /\ mods' = [mods EXCEPT ![next] = [start |-> limit, end |-> limit + mod.end - mod.start]]
        /\ limit' = limit + AlignSup(mod.end - mod.start)
        /\ next' = next + 1
    BY <1>1 DEF MoveModule, Movable, Advance, vars
  <1>4. /\ limit \in Nat /\ phase = "done"
        /\ mods \in Seq(Module) /\ DOMAIN memory = 0..(Limit - 1)
        /\ next \in 1..(Len(mods) + 1)
        /\ \A j \in DOMAIN mods : IF j < next THEN Moved(j) ELSE Waiting(j)
    BY <1>3 DEF ModsInv
  <1>5. /\ Len(mods) \in Nat /\ DOMAIN mods = 1..Len(mods)
        /\ \A j \in DOMAIN mods : mods[j] \in Module /\ mods[j].start \in Nat /\ mods[j].end \in Nat
    <2>1. Len(mods) \in Nat /\ DOMAIN mods = 1..Len(mods)
      BY <1>4, LenProperties
    <2>2. ASSUME NEW j \in DOMAIN mods
          PROVE  mods[j] \in Module /\ mods[j].start \in Nat /\ mods[j].end \in Nat
      <3>1. mods[j] \in Module
        BY <1>4, <2>1, ElementOfSeq
      <3> QED BY <3>1 DEF Module
    <2> QED BY <2>1, <2>2
  <1>6. /\ next \in Nat /\ next \in 1..Len(mods) /\ mod.start <= mod.end /\ mod.end <= Limit
        /\ \A k \in 0..(mod.end - mod.start - 1) : memory[mod.start + k] = <<next, k>>
        /\ mod \in Module /\ mod.start \in Nat /\ mod.end \in Nat /\ Limit \in Nat
    <2>1. next \in Nat /\ next \in 1..Len(mods) /\ Limit \in Nat
      BY <1>3, <1>4, <1>5, E820Assumption
    <2>2. Waiting(next)
      BY <1>3, <1>4, <2>1
    <2>3. mod \in Module /\ mod.start \in Nat /\ mod.end \in Nat
      BY <1>1, <1>3, <1>5
    <2> QED BY <1>1, <1>3, <2>1, <2>2, <2>3 DEF Waiting, Present
  <1>7. W \in Nat /\ W <= mod.end - mod.start
    BY <1>2, <1>6, WordsCopied
  <1>8. limit' \in Nat /\ limit + W <= limit' /\ limit <= limit'
    <2>1. PICK l : l = mod.end - mod.start
      OBVIOUS
    <2>2. l \in Nat
      BY <1>6, <2>1
    <2>3. AlignSup(l) \in Nat /\ l <= AlignSup(l)
      BY <2>2, Aligned
    <2> QED BY <1>3, <1>4, <1>7, <2>1, <2>2, <2>3
  <1>8a. /\ limit \in Nat /\ Limit \in Nat /\ next \in Nat /\ W \in Nat
         /\ mod.start \in Nat /\ mod.end \in Nat /\ limit <= mod.start
         /\ mod.end <= Limit /\ W <= mod.end - mod.start
    BY <1>3, <1>4, <1>6, <1>7
  <1>9. PICK new : new = [start |-> limit, end |-> limit + mod.end - mod.start]
    OBVIOUS
  <1>10. /\ new \in Module /\ new.start = limit /\ new.end - new.start = mod.end - mod.start
         /\ new.start <= new.end
    BY <1>4, <1>6, <1>9 DEF Module
  <1>11. /\ mods' \in Seq(Module) /\ DOMAIN mods' = 1..Len(mods) /\ Len(mods') = Len(mods)
         /\ mods'[next] = new /\ \A j \in DOMAIN mods : j # next => mods'[j] = mods[j]
    BY <1>3, <1>4, <1>6, <1>9, <1>10, ExceptSeq
  <1>12. /\ DOMAIN memory' = 0..(Limit - 1)
         /\ \A a \in 0..(Limit - 1) :
              memory'[a] = IF limit <= a /\ a < limit + W THEN memory[mod.start + (a - limit)]
                           ELSE memory[a]
    BY <1>2, <1>3, <1>4 DEF MemCopy, Words
  <1>13. ASSUME NEW j \in 1..Len(mods), j < next PROVE Moved(j)'
    <2>1. /\ mods[j].start <= mods[j].end
          /\ mods[j].start + Words(mods[j]) <= limit /\ mods[j].start + Words(mods[j]) <= Limit
          /\ \A k \in 0..(Words(mods[j]) - 1) : memory[mods[j].start + k] = <<j, k>>
      BY <1>4, <1>5, <1>13 DEF Moved, Present
    <2>2. Words(mods[j]) \in Nat
      BY <1>5, <2>1, WordsCopied
    <2>3. mods'[j] = mods[j] /\ Words(mods[j])' = Words(mods[j])
      BY <1>5, <1>6, <1>11, <1>13 DEF Words
    <2>4. ASSUME NEW k \in 0..(Words(mods[j]) - 1)
          PROVE  memory'[mods[j].start + k] = <<j, k>>
      <3>1. PICK a : a = mods[j].start + k
        OBVIOUS
      <3>2. /\ mods[j].start \in Nat /\ mods[j].start + Words(mods[j]) <= limit
            /\ mods[j].start + Words(mods[j]) <= Limit
        BY <1>5, <2>1
      <3>3. a \in 0..(Limit - 1) /\ ~ limit <= a
        <4>1. PICK s, w : s = mods[j].start /\ w = Words(mods[j])
          OBVIOUS
        <4>2. s \in Nat /\ w \in Nat /\ s + w <= limit /\ s + w <= Limit /\ a = s + k /\ k \in 0..(w - 1)
          BY <2>2, <3>1, <3>2, <4>1
        <4> QED BY <1>8a, <4>2
      <3> QED BY <1>12, <2>1, <3>1, <3>3
    <2>5. mods[j].start + Words(mods[j]) <= limit'
      BY <1>4, <1>5, <1>8, <2>1, <2>2
    <2> QED BY <2>1, <2>3, <2>4, <2>5 DEF Moved, Present
  <1>14. ASSUME NEW n, n = next PROVE Moved(n)'
    <2>1. Words(mods'[n]) = W
      BY <1>2, <1>10, <1>11, <1>14 DEF Words
    <2>2. ASSUME NEW k \in 0..(W - 1) PROVE memory'[limit + k] = <<n, k>>
      <3>1. PICK a : a = limit + k
        OBVIOUS
      <3>2. /\ a \in 0..(Limit - 1) /\ limit <= a /\ a < limit + W /\ a - limit = k
            /\ k \in 0..(mod.end - mod.start - 1)
        BY <1>8a, <3>1
      <3> QED BY <1>6, <1>12, <1>14, <3>1, <3>2
    <2>3. limit + W <= Limit
      BY <1>8a
    <2>4. PICK m : m = mods'[n]
      OBVIOUS
    <2>5. /\ m.start <= m.end /\ m.start + Words(m) <= limit' /\ m.start + Words(m) <= Limit
          /\ \A k \in 0..(Words(m) - 1) : memory'[m.start + k] = <<n, k>>
      BY <1>8, <1>10, <1>11, <1>14, <2>1, <2>2, <2>3, <2>4
    <2> QED BY <2>4, <2>5 DEF Moved, Present
  <1>15. ASSUME NEW j \in 1..Len(mods), j > next PROVE Waiting(j)'
    <2>1. /\ mods[j].start <= mods[j].end /\ mods[j].end <= Limit
          /\ mods[j].start >= limit =>
               \A k \in 0..(mods[j].end - mods[j].start - 1) : memory[mods[j].start + k] = <<j, k>>
      <3>1. ~ j < next
        BY <1>5, <1>8a, <1>15
      <3>2. Waiting(j)
        BY <1>4, <1>5, <3>1
      <3> QED BY <3>2 DEF Waiting, Present
    <2>2. mods'[j] = mods[j]
      BY <1>5, <1>6, <1>11, <1>15
    <2>3. ASSUME mods[j].start >= limit', NEW k \in 0..(mods[j].end - mods[j].start - 1)
          PROVE  memory'[mods[j].start + k] = <<j, k>>
      <3>1. PICK a : a = mods[j].start + k
        OBVIOUS
      <3>2. a \in 0..(Limit - 1) /\ ~ a < limit + W /\ mods[j].start >= limit
        <4>1. limit' \in Nat /\ limit + W <= limit' /\ limit <= limit' /\ mods[j].start >= limit'
          BY <1>8, <2>3
        <4>2. mods[j].start \in Nat /\ mods[j].end \in Nat /\ mods[j].end <= Limit
          BY <1>5, <2>1
        <4>3. PICK s, e : s = mods[j].start /\ e = mods[j].end
          OBVIOUS
        <4>4. /\ s \in Nat /\ e \in Nat /\ e <= Limit /\ s >= limit' /\ a = s + k
              /\ k \in 0..(e - s - 1)
          BY <3>1, <4>1, <4>2, <4>3
        <4>5. limit \in Nat /\ W \in Nat /\ Limit \in Nat /\ s >= limit + W /\ s >= limit
          BY <1>8a, <4>1, <4>4
        <4>6. a \in 0..(Limit - 1) /\ ~ a < limit + W
          BY <4>4, <4>5
        <4> QED BY <4>3, <4>5, <4>6
      <3> QED BY <1>12, <2>1, <3>1, <3>2
    <2> QED BY <2>1, <2>2, <2>3 DEF Waiting, Present
  <1>16. next' \in 1..(Len(mods') + 1)
    BY <1>3, <1>5, <1>6, <1>11
  <1>17. ASSUME NEW j \in DOMAIN mods' PROVE IF j < next' THEN Moved(j)' ELSE Waiting(j)'
    <2>1. j \in 1..Len(mods) /\ j \in Nat
      BY <1>5, <1>11
    <2>2. CASE j < next
      <3>1. j < next'
        BY <1>3, <1>8a, <2>1, <2>2
      <3> QED BY <1>13, <2>1, <2>2, <3>1
    <2>3. CASE j = next
      <3>1. j < next'
        BY <1>3, <1>8a, <2>1, <2>3
      <3> QED BY <1>14, <2>3, <3>1
    <2>4. CASE j > next
      <3>1. ~ j < next'
        BY <1>3, <1>8a, <2>1, <2>4
      <3> QED BY <1>15, <2>1, <2>4, <3>1
    <2>5. j < next \/ j = next \/ j > next
      BY <1>8a, <2>1
    <2> QED BY <2>2, <2>3, <2>4, <2>5
  <1> QED BY <1>3, <1>4, <1>8, <1>11, <1>12, <1>16, <1>17 DEF ModsInv, ModulesIntact

LEMMA ModulesMovedStep ==
    ASSUME ModsInv, ModulesMoved
    PROVE  ModsInv'
  <1>1. /\ stage = "modules" /\ stage' = "sum" /\ next \notin DOMAIN mods
        /\ UNCHANGED <<phase, mods, memory, limit>>
    BY DEF ModulesMoved, vars
  <1>2. /\ mods \in Seq(Module) /\ DOMAIN memory = 0..(Limit - 1) /\ phase = "done" /\ limit \in Nat
        /\ next \in 1..(Len(mods) + 1)
        /\ \A j \in DOMAIN mods : IF j < next THEN Moved(j) ELSE Waiting(j)
    BY <1>1 DEF ModsInv
  <1>3. \A j \in DOMAIN mods : j < next
    <2>1. Len(mods) \in Nat /\ DOMAIN mods = 1..Len(mods)
      BY <1>2, LenProperties
    <2> QED BY <1>1, <1>2, <2>1
  <1>4. \A j \in DOMAIN mods : Moved(j)'
    BY <1>1, <1>2, <1>3 DEF Moved, Present, Words
  <1> QED BY <1>1, <1>2, <1>4 DEF ModsInv, ModulesIntact

\* What is placed behind the modules overwrites none.
LEMMA PlaceIntact ==
    ASSUME ModsInv, Place, limit' \in Nat
    PROVE  ModsInv'
  <1>1. /\ stage = "sum" /\ stage' = "place" /\ UNCHANGED <<phase, mods>>
        /\ \E start : memory' = [a \in DOMAIN memory |->
                                   IF limit <= a /\ a < start THEN Nothing ELSE memory[a]]
    BY DEF Place, vars
  <1>2. /\ mods \in Seq(Module) /\ DOMAIN memory = 0..(Limit - 1) /\ phase = "done" /\ limit \in Nat
        /\ \A j \in DOMAIN mods : Moved(j)
    BY <1>1 DEF ModsInv
  <1>3. ASSUME NEW a \in 0..(Limit - 1), ~ limit <= a PROVE memory'[a] = memory[a]
    BY <1>1, <1>2, <1>3
  <1>4. ASSUME NEW i \in DOMAIN mods, NEW k \in 0..(Words(mods[i]) - 1)
        PROVE  memory'[mods[i].start + k] = <<i, k>>
    <2>1. i \in 1..Len(mods)
      BY <1>2, LenProperties
    <2>2. mods[i] \in Module
      BY <1>2, <2>1, ElementOfSeq
    <2>3. Moved(i)
      BY <1>2
    <2>4. PICK s, w, a : s = mods[i].start /\ w = Words(mods[i]) /\ a = s + k
      OBVIOUS
    <2>5. /\ w \in Nat /\ s \in Nat /\ s + w <= limit /\ s + w <= Limit /\ k \in 0..(w - 1)
          /\ memory[a] = <<i, k>>
      BY <2>2, <2>3, <2>4, WordsCopied DEF Moved, Present, Module
    <2>6. limit \in Nat /\ Limit \in Nat
      BY <1>2, E820Assumption
    <2>7. a \in 0..(Limit - 1) /\ ~ limit <= a
      BY <2>4, <2>5, <2>6
    <2> QED BY <1>3, <2>4, <2>5, <2>7
  <1>5. ModulesIntact'
    BY <1>1, <1>4 DEF ModulesIntact, Words
  <1> QED BY <1>1, <1>2, <1>5 DEF ModsInv

LEMMA DoneStays ==
    ASSUME phase = "done", Next
    PROVE  FALSE
  BY DEF Next, Relocate, RelocateOverruns, RelocateLegacy, Copy, SortNothing, SortOverruns,
         PartitionStarts, Sweep, PartitionEnds, Sorting, Insert, InsertAround, InsertLeaf,
         InsertFails, Building, ConvertStarts, ConvertAround, ConvertWrite, Truncate, Converted

LEMMA ModsKept ==
    ASSUME ModsInv, UNCHANGED <<phase, mods, memory, limit>>
    PROVE  /\ stage = "sum" /\ stage' = "sum" => ModsInv'
           /\ stage \in {"place", "fill", "ready"} /\ stage' \in {"fill", "ready", "hung"} => ModsInv'
           /\ UNCHANGED <<stage, next>> => ModsInv'
  <1>1. limit' \in Nat
    BY DEF ModsInv
  <1>2. \A j : /\ Moved(j)' <=> Moved(j)
               /\ Waiting(j)' <=> Waiting(j)
    BY DEF Moved, Waiting, Present, Words
  <1>3. ASSUME stage = "sum", stage' = "sum" PROVE ModsInv'
    BY <1>1, <1>2, <1>3 DEF ModsInv, ModulesIntact
  <1>4. ASSUME stage \in {"place", "fill", "ready"}, stage' \in {"fill", "ready", "hung"}
        PROVE  ModsInv'
    BY <1>1, <1>4 DEF ModsInv, ModulesIntact
  <1>5. ASSUME UNCHANGED <<stage, next>> PROVE ModsInv'
    BY <1>1, <1>2, <1>5 DEF ModsInv, ModulesIntact
  <1> QED BY <1>3, <1>4, <1>5

LEMMA ModsFailed ==
    ASSUME ModsInv, UNCHANGED limit, stage' = "failed"
    PROVE  ModsInv'
  BY DEF ModsInv, ModulesIntact

\* The first address behind everything that is set aside stays aligned.
LEMMA PlaceAligned ==
    ASSUME Multiple(limit), mem \in Nat, mem <= Limit, Place
    PROVE  /\ Multiple(limit') /\ limit' \in Nat /\ boot'.start = limit'
           /\ boot'.size \in Nat /\ boot'.size * ByteBits <= Limit \div Page
  <1>1. PICK size, start : /\ size = (mem \div Page) \div ByteBits
                           /\ start = limit + Rounded(size) + Rounded(PoolPages * Word) + TableSize
    OBVIOUS
  <1>2. boot' = [bitmap |-> limit, size |-> size, start |-> start] /\ limit' = start
    BY <1>1 DEF Place
  <1>3. PICK pages : pages = mem \div Page
    OBVIOUS
  <1>4. pages \in Nat /\ pages * Page <= mem
    BY <1>3, PageSize, Quotient
  <1>5. size \in Nat /\ size * ByteBits <= pages
    BY <1>1, <1>3, <1>4, PageSize, Quotient
  <1>6. \A n \in Nat : Multiple(Rounded(n))
    <2> SUFFICES ASSUME NEW n \in Nat PROVE Multiple(Rounded(n))
      OBVIOUS
    <2>1. n \div Page \in Nat
      BY PageSize, Quotient
    <2>2. (n \div Page) + 1 \in Nat
      BY <2>1
    <2> QED BY <2>2 DEF Multiple, Rounded
  <1>7. Multiple(TableSize)
    <2>1. TableSize \in Nat /\ TableSize % Page = 0
      BY BootAssumption
    <2>2. TableSize \div Page \in Nat /\ TableSize = (TableSize \div Page) * Page + (TableSize % Page)
      BY <2>1, PageSize, Quotient
    <2>3. PICK q \in Nat : q = TableSize \div Page
      BY <2>2
    <2>4. TableSize = q * Page
      BY <2>1, <2>2, <2>3, PageSize
    <2> QED BY <2>4 DEF Multiple
  <1>8. PoolPages * Word \in Nat
    BY BootAssumption, PageSize
  <1>9. PICK a, b : a = Rounded(size) /\ b = Rounded(PoolPages * Word)
    OBVIOUS
  <1>10. Multiple(a) /\ Multiple(b)
    BY <1>5, <1>6, <1>8, <1>9
  <1>11. Multiple(limit + a)
    BY <1>10, MultipleSum
  <1>12. Multiple(limit + a + b)
    BY <1>10, <1>11, MultipleSum
  <1>13. Multiple(limit + a + b + TableSize) /\ limit + a + b + TableSize \in Nat
    BY <1>7, <1>12, MultipleSum
  <1>14. Multiple(start) /\ start \in Nat
    BY <1>1, <1>9, <1>13
  <1>15. pages <= Limit \div Page
    <2>1. Limit \in Nat
      BY E820Assumption
    <2>2. PICK q : q = Limit \div Page
      OBVIOUS
    <2>3. q \in Nat /\ Limit < q * Page + Page
      BY <2>1, <2>2, PageSize, Quotient
    <2>4. CASE q < pages
      <3>1. q * Page + Page <= pages * Page
        BY <1>4, <2>3, <2>4, PageSize, Multiples
      <3>2. q * Page \in Nat /\ pages * Page \in Nat
        BY <1>4, <2>3, PageSize
      <3> QED BY <1>4, <2>1, <2>3, <3>1, <3>2, PageSize
    <2> QED BY <1>4, <2>2, <2>3, <2>4
  <1>16. size * ByteBits <= Limit \div Page
    <2>1. size * ByteBits \in Nat /\ Limit \div Page \in Nat
      BY <1>5, PageSize, Quotient, E820Assumption
    <2> QED BY <1>4, <1>5, <1>15, <2>1
  <1> QED BY <1>2, <1>5, <1>14, <1>16 DEF Multiple

-----------------------------------------------------------------------------
(* Filling the bitmap                                                      *)

LEMMA LowerMultiple ==
    ASSUME NEW p \in Nat, NEW a \in Nat, Multiple(a), p * Page < a
    PROVE  p * Page + Page <= a
  <1>1. PICK q \in Nat : a = q * Page
    BY DEF Multiple
  <1>2. CASE p < q
    BY <1>1, <1>2, PageSize, Multiples
  <1>3. CASE q < p
    <2>1. q * Page + Page <= p * Page
      BY <1>3, PageSize, Multiples
    <2>2. q * Page \in Nat /\ p * Page \in Nat
      BY PageSize
    <2> QED BY <1>1, <2>1, <2>2, PageSize
  <1>4. CASE p = q
    BY <1>1, <1>4, PageSize
  <1> QED BY <1>2, <1>3, <1>4

LEMMA Remainder ==
    ASSUME NEW a \in Nat, NEW b \in Nat, a < b
    PROVE  a % b = a
  BY SMT

\* A region that ends below 4 GB.
Below(r) == r.addr \in Nat /\ r.len \in Nat /\ r.addr + r.len < Limit

\* The loop over such a region visits the addresses that are whole pages
\* behind its first one.
LEMMA LowVisited ==
    ASSUME NEW r, Below(r), NEW j
    PROVE  j \in Visited(r) <=> /\ j \in Nat /\ r.addr <= j /\ j < r.addr + r.len
                                /\ (j - r.addr) % Page = 0
  <1>1. PICK a, l : a = r.addr /\ l = r.len
    OBVIOUS
  <1>2. a \in Nat /\ l \in Nat /\ a + l < Limit /\ Limit \in Nat \ {0}
    BY <1>1, E820Assumption DEF Below
  <1>3. a < Limit /\ a + l \in Nat
    BY <1>2
  <1>4. a % Limit = a /\ (a + l) % Limit = a + l
    BY <1>2, <1>3, Remainder
  <1>5. First(r) = a /\ Past(r) = a + l
    BY <1>1, <1>4 DEF First, Past
  <1> QED BY <1>1, <1>2, <1>5 DEF Visited

\* The page an address is in.
LEMMA InPage ==
    ASSUME NEW j \in Nat, NEW p \in Nat
    PROVE  j \div Page = p <=> p * Page <= j /\ j < p * Page + Page
  <1>1. p * Page \in Nat
    BY PageSize
  <1>2. ASSUME p * Page <= j, j < p * Page + Page PROVE j \div Page = p
    <2>1. PICK s \in 0..(Page - 1) : j = p * Page + s
      <3>1. j - p * Page \in 0..(Page - 1) /\ j = p * Page + (j - p * Page)
        BY <1>1, <1>2, PageSize
      <3> QED BY <3>1
    <2> QED BY <2>1, PageSize, QuotientIs
  <1>3. ASSUME j \div Page = p PROVE p * Page <= j /\ j < p * Page + Page
    BY <1>3, PageSize, Quotient
  <1> QED BY <1>2, <1>3

LEMMA WithinBounds ==
    ASSUME NEW r, Below(r), NEW p \in Nat, Within(p, r)
    PROVE  r.addr <= p * Page /\ p * Page + Page <= r.addr + r.len /\ p * Page \in Nat
  <1>1. p * Page \in Nat /\ (p + 1) * Page = p * Page + Page
    BY PageSize
  <1> QED BY <1>1 DEF Within

\* Every page that lies in a region is visited.
LEMMA PageVisited ==
    ASSUME NEW r, Below(r), NEW p \in Nat, Within(p, r)
    PROVE  \E j \in Visited(r) : j \div Page = p
  <1>1. PICK a, l : a = r.addr /\ l = r.len
    OBVIOUS
  <1>2. a \in Nat /\ l \in Nat
    BY <1>1 DEF Below
  <1>3. a <= p * Page /\ p * Page + Page <= a + l /\ p * Page \in Nat
    BY <1>1, WithinBounds
  <1>4. PICK u, s : u = a \div Page /\ s = a % Page
    OBVIOUS
  <1>5. u \in Nat /\ s \in 0..(Page - 1) /\ a = u * Page + s
    BY <1>2, <1>4, PageSize, Quotient
  <1>6. PICK j : j = p * Page + s
    OBVIOUS
  <1>7. j \in Nat /\ j < p * Page + Page /\ p * Page <= j /\ a <= j /\ j < a + l
    BY <1>2, <1>3, <1>5, <1>6, PageSize
  <1>8. j - a = (p - u) * Page + 0 /\ p - u \in Int
    <2>1. u * Page \in Nat /\ (p - u) * Page = p * Page - u * Page
      BY <1>5, PageSize
    <2> QED BY <1>3, <1>5, <1>6, <2>1
  <1>9. (j - a) % Page = 0
    <2>1. 0 \in 0..(Page - 1)
      BY PageSize
    <2> QED BY <1>8, <2>1, PageSize, QuotientIs
  <1>10. j \in Visited(r)
    BY <1>1, <1>7, <1>9, LowVisited
  <1> QED BY <1>7, <1>10, InPage

\* The address that is visited in such a page is in use as the page is.
LEMMA PageStands ==
    ASSUME NEW r, Below(r), NEW p \in Nat, Within(p, r), Multiple(boot.start),
           NEW j \in Visited(r), j \div Page = p
    PROVE  InUse(j) <=> PageInUse(p)
  <1>1. PICK a, b, q : a = r.addr /\ b = boot.start /\ q = p * Page
    OBVIOUS
  <1>2. /\ j \in Nat /\ a <= j /\ (j - a) % Page = 0 /\ a \in Nat
        /\ a <= q /\ q \in Nat
    BY <1>1, LowVisited, WithinBounds DEF Below
  <1>3. q <= j /\ j < q + Page
    BY <1>1, <1>2, InPage
  <1>4. b \in Nat /\ KernStart \in Nat /\ Page \in Nat \ {0}
    BY <1>1, PageSize, BootAssumption DEF Multiple
  <1>5. Multiple(KernStart)
    <2>1. KernStart \in Nat /\ KernStart % Page = 0
      BY BootAssumption
    <2>2. PICK n : n = KernStart \div Page
      OBVIOUS
    <2>3. n \in Nat /\ KernStart = n * Page + (KernStart % Page)
      BY <2>1, <2>2, PageSize, Quotient
    <2>4. KernStart = n * Page
      BY <2>1, <2>3, PageSize
    <2> QED BY <2>3, <2>4 DEF Multiple
  <1>6. q < KernStart => q + Page <= KernStart
    BY <1>1, <1>4, <1>5, LowerMultiple
  <1>7. q < b => q + Page <= b
    BY <1>1, <1>4, LowerMultiple
  <1>8. j >= KernStart <=> KernStart <= q
    BY <1>2, <1>3, <1>4, <1>6
  <1>9. j < b <=> q < b
    BY <1>2, <1>3, <1>4, <1>7
  <1>10. j = 0 <=> p = 0
    <2>1. ASSUME p = 0 PROVE j = 0
      <3>1. q = 0 /\ a = 0
        BY <1>1, <1>2, <2>1, PageSize
      <3>2. j < Page /\ j % Page = 0
        BY <1>2, <1>3, <1>4, <3>1
      <3> QED BY <1>2, <3>2, PageSize, Remainder
    <2>2. ASSUME j = 0 PROVE p = 0
      <3>1. q = 0
        BY <1>2, <1>3, <2>2
      <3>2. CASE 0 < p
        <4>1. 0 * Page + Page <= p * Page
          BY <3>2, PageSize, Multiples
        <4> QED BY <1>1, <1>4, <3>1, <4>1
      <3> QED BY <3>2
    <2> QED BY <2>1, <2>2
  <1> QED BY <1>1, <1>8, <1>9, <1>10 DEF InUse, PageInUse

\* The loop over another region does not come to a page of this one.
LEMMA OtherVisited ==
    ASSUME NEW r, Below(r), NEW p \in Nat, Within(p, r), NEW o, Below(o),
           r.addr + r.len <= o.addr \/ o.addr + o.len <= r.addr,
           NEW j \in Visited(o)
    PROVE  j \div Page # p
  <1>1. PICK a, l, c, d, q : /\ a = r.addr /\ l = r.len /\ c = o.addr /\ d = o.len
                             /\ q = p * Page
    OBVIOUS
  <1>2. /\ j \in Nat /\ c <= j /\ j < c + d /\ a \in Nat /\ l \in Nat /\ c \in Nat /\ d \in Nat
        /\ a <= q /\ q + Page <= a + l /\ q \in Nat
    BY <1>1, LowVisited, WithinBounds DEF Below
  <1>3. ASSUME j \div Page = p PROVE FALSE
    <2>1. q <= j /\ j < q + Page
      BY <1>1, <1>2, <1>3, InPage
    <2>2. a + l <= c \/ c + d <= a
      BY <1>1
    <2> QED BY <1>2, <2>1, <2>2, PageSize
  <1> QED BY <1>3

\* A page that lies in a region has the state the region gives it.
Settled(p, r) ==
    InBitmap(p) /\ Within(p, r) =>
        (bits[p] = "FREE" <=> r.type = Available /\ ~ PageInUse(p) /\ p \notin taken)

\* A page that was given out is none the map or the kernel rules out.
Owned(p) ==
    /\ p \in DOMAIN bits /\ p # 0 /\ InBitmap(p)
    /\ \A r \in Entries : Within(p, r) => r.type = Available /\ ~ PageInUse(p)

Bits == 0..((Limit \div Page) + ByteBits)

PagesInv ==
    /\ Multiple(limit)
    /\ mem \in Nat /\ mem <= Limit
    /\ stage = "sum" => next \in Nat
    /\ stage \in {"place", "fill", "ready"} =>
          /\ Multiple(boot.start)
          /\ boot.size \in Nat /\ boot.size * ByteBits <= Limit \div Page
    /\ stage \in {"fill", "ready"} => bits \in [Bits -> {"USED", "FREE"}]
    /\ stage # "ready" => taken = {}
    /\ stage = "fill" =>
          /\ next \in Nat
          /\ LowMemory =>
                \A i \in DOMAIN mmap : i < next => \A p \in Bits : Settled(p, mmap[i])
    /\ stage = "ready" /\ LowMemory =>
          /\ \A r \in Entries : \A p \in Bits : Settled(p, r)
          /\ \A p \in taken : Owned(p)

\* What the clean map is made of, when nothing of it reaches 4 GB.
LEMMA LowMap ==
    ASSUME CleanMap, LowMemory
    PROVE  /\ \E n \in Nat : DOMAIN mmap = 0..(n - 1)
           /\ \A i \in DOMAIN mmap : Below(mmap[i]) /\ mmap[i] \in Entries
           /\ phase = "done" =>
                \A h, i \in DOMAIN mmap :
                    h # i => \/ mmap[h].addr + mmap[h].len <= mmap[i].addr
                             \/ mmap[i].addr + mmap[i].len <= mmap[h].addr
  <1>1. PICK n \in Nat : mmap \in [0..(n - 1) -> [addr : Nat, len : Nat, type : Nat]]
    BY DEF CleanMap
  <1>2. \A i \in DOMAIN mmap : mmap[i] \in Entries
    BY DEF Entries
  <1>3. \A i \in DOMAIN mmap : Below(mmap[i])
    BY <1>1, <1>2 DEF Below, LowMemory
  <1>4. ASSUME phase = "done", NEW h \in DOMAIN mmap, NEW i \in DOMAIN mmap, h # i
        PROVE  \/ mmap[h].addr + mmap[h].len <= mmap[i].addr
               \/ mmap[i].addr + mmap[i].len <= mmap[h].addr
    <2>1. h < i \/ i < h
      BY <1>1, <1>4
    <2> QED BY <1>4, <2>1 DEF CleanMap, InOrderDisjoint
  <1> QED BY <1>1, <1>2, <1>3, <1>4

LEMMA FillRegionStep ==
    ASSUME PagesInv, CleanMap, phase = "done", FillRegion
    PROVE  PagesInv'
  <1>1. /\ stage = "fill" /\ stage' = "fill" /\ next \in DOMAIN mmap
        /\ bits' = [p \in DOMAIN bits |-> Entered(mmap[next], p)]
        /\ next' = next + 1
        /\ UNCHANGED <<mmap, limit, mem, boot, taken>>
    BY DEF FillRegion, vars
  <1>2. /\ Multiple(limit) /\ mem \in Nat /\ mem <= Limit
        /\ Multiple(boot.start) /\ boot.size \in Nat /\ boot.size * ByteBits <= Limit \div Page
        /\ bits \in [Bits -> {"USED", "FREE"}] /\ taken = {} /\ next \in Nat
        /\ LowMemory => \A i \in DOMAIN mmap : i < next => \A p \in Bits : Settled(p, mmap[i])
    BY <1>1 DEF PagesInv
  <1>3. /\ bits' \in [Bits -> {"USED", "FREE"}]
        /\ \A p \in Bits : bits'[p] = Entered(mmap[next], p)
    BY <1>1, <1>2 DEF Entered
  <1>4. Bits \in SUBSET Nat
    <2>1. Limit \div Page \in Nat /\ ByteBits \in Nat
      BY E820Assumption, PageSize, Quotient
    <2> QED BY <2>1 DEF Bits
  <1>5. ASSUME LowMemory, NEW i \in DOMAIN mmap, i < next + 1, NEW p \in Bits,
               InBitmap(p), Within(p, mmap[i])
        PROVE  bits'[p] = "FREE" <=> mmap[i].type = Available /\ ~ PageInUse(p)
    <2>1. p \in Nat /\ Below(mmap[i]) /\ Below(mmap[next]) /\ i \in Int
      BY <1>1, <1>4, <1>5, LowMap
    <2>2. CASE i = next
      <3>1. \E j \in Visited(mmap[next]) : j \div Page = p /\ InBitmap(p)
        BY <1>5, <2>1, <2>2, PageVisited
      <3>2. \A j \in Visited(mmap[next]) : j \div Page = p => (InUse(j) <=> PageInUse(p))
        BY <1>2, <1>5, <2>1, <2>2, PageStands
      <3> QED BY <1>3, <2>2, <3>1, <3>2 DEF Entered
    <2>3. CASE i # next
      <3>1. i < next
        BY <1>2, <1>5, <2>1, <2>3
      <3>2. \/ mmap[i].addr + mmap[i].len <= mmap[next].addr
            \/ mmap[next].addr + mmap[next].len <= mmap[i].addr
        BY <1>1, <1>5, <2>3, LowMap
      <3>3. \A j \in Visited(mmap[next]) : j \div Page # p
        BY <1>5, <2>1, <3>2, OtherVisited
      <3>4. bits'[p] = bits[p]
        BY <1>3, <3>3 DEF Entered
      <3> QED BY <1>2, <1>5, <3>1, <3>4 DEF Settled
    <2> QED BY <2>2, <2>3
  <1>6. LowMemory' <=> LowMemory
    BY <1>1 DEF LowMemory, Entries
  <1>7. \A p : /\ InBitmap(p)' <=> InBitmap(p)
               /\ PageInUse(p)' <=> PageInUse(p)
    BY <1>1 DEF InBitmap, PageInUse
  <1>8. ASSUME LowMemory', NEW i \in DOMAIN mmap', i < next', NEW p \in Bits
        PROVE  Settled(p, mmap[i])'
    BY <1>1, <1>2, <1>5, <1>6, <1>7, <1>8 DEF Settled
  <1>9. Multiple(limit') /\ Multiple(boot'.start)
    BY <1>1, <1>2
  <1>10. next' \in Nat
    BY <1>1, <1>2
  <1> QED BY <1>1, <1>2, <1>3, <1>8, <1>9, <1>10 DEF PagesInv, Multiple

LEMMA FillEndsStep ==
    ASSUME PagesInv, CleanMap, FillEnds, ModsInv
    PROVE  PagesInv'
  <1>1. /\ stage = "fill" /\ stage' = "ready" /\ next \notin DOMAIN mmap
        /\ UNCHANGED <<mmap, limit, mem, boot, bits, taken, next>>
    BY DEF FillEnds, vars
  <1>2. /\ Multiple(limit) /\ mem \in Nat /\ mem <= Limit
        /\ Multiple(boot.start) /\ boot.size \in Nat /\ boot.size * ByteBits <= Limit \div Page
        /\ bits \in [Bits -> {"USED", "FREE"}] /\ taken = {} /\ next \in Nat
        /\ LowMemory => \A i \in DOMAIN mmap : i < next => \A p \in Bits : Settled(p, mmap[i])
    BY <1>1 DEF PagesInv
  <1>3. PICK n \in Nat : DOMAIN mmap = 0..(n - 1)
    BY DEF CleanMap
  <1>4. \A i \in DOMAIN mmap : i < next
    BY <1>1, <1>2, <1>3
  <1>5. ASSUME LowMemory, NEW r \in Entries, NEW p \in Bits PROVE Settled(p, r)
    BY <1>2, <1>4, <1>5 DEF Entries
  <1>6. /\ LowMemory' <=> LowMemory
        /\ Entries' = Entries
        /\ \A p, r : Settled(p, r)' <=> Settled(p, r)
    BY <1>1 DEF LowMemory, Entries, Settled, InBitmap, PageInUse
  <1> QED BY <1>1, <1>2, <1>5, <1>6 DEF PagesInv, Multiple

\* Where the search of pager0_alloc finds a page, its state is in the bitmap.
LEMMA FoundPage ==
    ASSUME bits \in [Bits -> {"USED", "FREE"}], boot.size \in Nat,
           boot.size * ByteBits <= Limit \div Page, FreePages # {}
    PROVE  Min(FreePages) \in Bits /\ InBitmap(Min(FreePages)) /\ bits[Min(FreePages)] = "FREE"
  <1>1. PICK z : z = boot.size * ByteBits
    OBVIOUS
  <1>2. z \in Nat /\ Limit \div Page \in Nat /\ ByteBits \in Nat \ {0}
    <2>1. ByteBits \in Nat \ {0} /\ Limit \div Page \in Nat
      BY E820Assumption, PageSize, Quotient
    <2>2. boot.size * ByteBits \in Nat
      BY <2>1
    <2> QED BY <1>1, <2>1, <2>2
  <1>3. FreePages \in SUBSET Nat
    BY <1>1, <1>2 DEF FreePages
  <1>4. PICK p : p = Min(FreePages)
    OBVIOUS
  <1>5. p \in FreePages
    BY <1>3, <1>4, LeastOf
  <1>6. p \in Nat /\ p <= z /\ bits[p] = "FREE"
    BY <1>1, <1>2, <1>5 DEF FreePages
  <1>7. p \in Bits
    BY <1>1, <1>2, <1>6 DEF Bits
  <1>8. InBitmap(p)
    <2>1. PICK q : q = p \div ByteBits
      OBVIOUS
    <2>2. q \in Nat /\ q * ByteBits <= p
      BY <1>2, <1>6, <2>1, Quotient
    <2>3. CASE boot.size < q
      <3>1. boot.size * ByteBits + ByteBits <= q * ByteBits
        BY <1>2, <2>2, <2>3, Multiples
      <3>2. q * ByteBits \in Nat
        BY <1>2, <2>2
      <3> QED BY <1>1, <1>2, <1>6, <2>2, <3>1, <3>2
    <2> QED BY <2>1, <2>2, <2>3 DEF InBitmap
  <1> QED BY <1>4, <1>6, <1>7, <1>8

LEMMA AllocStep ==
    ASSUME PagesInv, Alloc
    PROVE  PagesInv'
  <1>1. PICK p : p = Min(FreePages)
    OBVIOUS
  <1>2. /\ stage = "ready" /\ stage' = "ready" /\ FreePages # {}
        /\ bits' = [bits EXCEPT ![p] = "USED"] /\ taken' = taken \cup ({p} \ {0})
        /\ UNCHANGED <<mmap, limit, mem, boot, next>>
    BY <1>1 DEF Alloc, AfterAlloc, vars
  <1>3. /\ Multiple(limit) /\ mem \in Nat /\ mem <= Limit
        /\ Multiple(boot.start) /\ boot.size \in Nat /\ boot.size * ByteBits <= Limit \div Page
        /\ bits \in [Bits -> {"USED", "FREE"}]
        /\ LowMemory => /\ \A r \in Entries : \A q \in Bits : Settled(q, r)
                        /\ \A q \in taken : Owned(q)
    BY <1>2 DEF PagesInv
  <1>4. p \in Bits /\ InBitmap(p) /\ bits[p] = "FREE"
    BY <1>1, <1>2, <1>3, FoundPage
  <1>5. bits' \in [Bits -> {"USED", "FREE"}] /\ bits'[p] = "USED"
        /\ \A q \in Bits : q # p => bits'[q] = bits[q]
    BY <1>2, <1>3, <1>4
  <1>6. /\ LowMemory' <=> LowMemory
        /\ Entries' = Entries
        /\ \A q : /\ InBitmap(q)' <=> InBitmap(q)
                  /\ PageInUse(q)' <=> PageInUse(q)
    BY <1>2 DEF LowMemory, Entries, InBitmap, PageInUse
  <1>7. ASSUME LowMemory, NEW r \in Entries, NEW q \in Bits PROVE Settled(q, r)'
    <2>1. Settled(q, r)
      BY <1>3, <1>7
    <2>2. CASE q # p
      <3>1. bits'[q] = bits[q] /\ (q \in taken' <=> q \in taken)
        BY <1>2, <1>5, <2>2
      <3> QED BY <1>6, <2>1, <3>1 DEF Settled
    <2>3. CASE q = p
      <3>1. ASSUME Within(p, r) PROVE p \in taken'
        <4>1. ~ PageInUse(p)
          BY <1>4, <2>1, <2>3, <3>1 DEF Settled
        <4>2. p # 0
          BY <4>1 DEF PageInUse
        <4> QED BY <1>2, <4>2
      <3> QED BY <1>5, <2>3, <3>1 DEF Settled
    <2> QED BY <2>2, <2>3
  <1>8. ASSUME LowMemory, NEW q \in taken' PROVE Owned(q)'
    <2>1. CASE q \in taken
      BY <1>3, <1>5, <1>6, <1>8, <2>1 DEF Owned
    <2>2. CASE q = p /\ p # 0
      <3>1. \A r \in Entries : Within(p, r) => r.type = Available /\ ~ PageInUse(p)
        BY <1>3, <1>4, <1>8 DEF Settled
      <3> QED BY <1>4, <1>5, <1>6, <2>2, <3>1 DEF Owned
    <2> QED BY <1>2, <2>1, <2>2
  <1> QED BY <1>2, <1>3, <1>5, <1>6, <1>7, <1>8 DEF PagesInv, Multiple

LEMMA FreeStep ==
    ASSUME PagesInv, NEW p, Free(p)
    PROVE  PagesInv'
  <1>1. /\ stage = "ready" /\ stage' = "ready" /\ p \in taken
        /\ bits' = [bits EXCEPT ![p] = "FREE"] /\ taken' = taken \ {p}
        /\ UNCHANGED <<mmap, limit, mem, boot, next>>
    BY DEF Free, vars
  <1>2. /\ Multiple(limit) /\ mem \in Nat /\ mem <= Limit
        /\ Multiple(boot.start) /\ boot.size \in Nat /\ boot.size * ByteBits <= Limit \div Page
        /\ bits \in [Bits -> {"USED", "FREE"}]
        /\ LowMemory => /\ \A r \in Entries : \A q \in Bits : Settled(q, r)
                        /\ \A q \in taken : Owned(q)
    BY <1>1 DEF PagesInv
  <1>3. /\ bits' \in [Bits -> {"USED", "FREE"}]
        /\ \A q \in Bits : bits'[q] = IF q = p THEN "FREE" ELSE bits[q]
    BY <1>1, <1>2
  <1>4. /\ LowMemory' <=> LowMemory
        /\ Entries' = Entries
        /\ \A q : /\ InBitmap(q)' <=> InBitmap(q)
                  /\ PageInUse(q)' <=> PageInUse(q)
    BY <1>1 DEF LowMemory, Entries, InBitmap, PageInUse
  <1>5. ASSUME LowMemory, NEW r \in Entries, NEW q \in Bits PROVE Settled(q, r)'
    <2>1. Settled(q, r) /\ Owned(p)
      BY <1>1, <1>2, <1>5
    <2>2. CASE q # p
      <3>1. bits'[q] = bits[q] /\ (q \in taken' <=> q \in taken)
        BY <1>1, <1>3, <2>2
      <3> QED BY <1>4, <2>1, <3>1 DEF Settled
    <2>3. CASE q = p
      <3>1. bits'[p] = "FREE" /\ p \notin taken'
        BY <1>1, <1>3, <2>3
      <3>2. Within(p, r) => r.type = Available /\ ~ PageInUse(p)
        BY <1>5, <2>1 DEF Owned
      <3> QED BY <1>4, <2>3, <3>1, <3>2 DEF Settled
    <2> QED BY <2>2, <2>3
  <1>6. ASSUME LowMemory, NEW q \in taken' PROVE Owned(q)'
    <2>1. Owned(q)
      BY <1>1, <1>2, <1>6
    <2> QED BY <1>2, <1>3, <1>4, <2>1 DEF Owned
  <1> QED BY <1>1, <1>2, <1>3, <1>4, <1>5, <1>6 DEF PagesInv, Multiple

LEMMA PagesKept ==
    ASSUME PagesInv, UNCHANGED <<mmap, limit, mem, boot, bits, taken>>
    PROVE  /\ stage \notin {"sum", "place", "fill", "ready"} /\ stage' \notin {"sum", "place", "fill", "ready"}
                => PagesInv'
           /\ stage \in {"modules", "sum"} /\ stage' = "sum" /\ next' \in Nat => PagesInv'
           /\ stage' \in {"failed", "hung"} /\ stage # "ready" => PagesInv'
           /\ UNCHANGED <<stage, next>> => PagesInv'
  <1>1. /\ Multiple(limit)' /\ (mem \in Nat)' /\ (mem <= Limit)'
        /\ stage # "ready" => taken' = {}
    BY DEF PagesInv, Multiple
  <1>2. ASSUME stage # "ready", stage' \notin {"sum", "place", "fill", "ready"} PROVE PagesInv'
    BY <1>1, <1>2 DEF PagesInv
  <1>3. ASSUME stage \in {"modules", "sum"}, stage' = "sum", next' \in Nat PROVE PagesInv'
    BY <1>1, <1>3 DEF PagesInv
  <1>4. ASSUME UNCHANGED <<stage, next>> PROVE PagesInv'
    <2>1. /\ LowMemory' <=> LowMemory
          /\ Entries' = Entries /\ (Multiple(boot.start)' <=> Multiple(boot.start))
          /\ \A p, r : Settled(p, r)' <=> Settled(p, r)
          /\ \A p : Owned(p)' <=> Owned(p)
      BY DEF LowMemory, Entries, Settled, Owned, InBitmap, PageInUse, Multiple
    <2>2. \A i, p : Settled(p, mmap[i])' <=> Settled(p, mmap[i])
      BY <1>4 DEF Settled, InBitmap, PageInUse
    <2> QED BY <1>1, <1>4, <2>1, <2>2 DEF PagesInv
  <1> QED BY <1>2, <1>3, <1>4

LEMMA PagerStartsStep ==
    ASSUME PagesInv, NEW state \in Leftover, PagerStarts(state), CleanMap
    PROVE  PagesInv'
  <1>1. /\ stage = "place" /\ stage' = "fill" /\ next' = 0
        /\ bits' = [p \in Bits |-> state] /\ state \in {"USED", "FREE"}
        /\ UNCHANGED <<mmap, limit, mem, boot, taken>>
    BY BootAssumption DEF PagerStarts, vars, Bits
  <1>2. /\ Multiple(limit') /\ mem' \in Nat /\ mem' <= Limit /\ taken' = {}
        /\ Multiple(boot'.start) /\ boot'.size \in Nat /\ boot'.size * ByteBits <= Limit \div Page
    BY <1>1 DEF PagesInv
  <1>3. bits' \in [Bits -> {"USED", "FREE"}]
    BY <1>1
  <1>4. \A i \in DOMAIN mmap' : ~ i < next'
    <2>1. PICK n \in Nat : DOMAIN mmap = 0..(n - 1)
      BY DEF CleanMap
    <2> QED BY <1>1, <2>1
  <1> QED BY <1>1, <1>2, <1>3, <1>4 DEF PagesInv, Multiple

LEMMA PlaceStep ==
    ASSUME PagesInv, Place
    PROVE  PagesInv' /\ limit' \in Nat
  <1>1. stage = "sum" /\ stage' = "place" /\ UNCHANGED <<mem, taken>>
    BY DEF Place
  <1>2. Multiple(limit) /\ mem \in Nat /\ mem <= Limit /\ taken = {}
    BY <1>1 DEF PagesInv
  <1>3. /\ Multiple(limit') /\ limit' \in Nat /\ boot'.start = limit'
        /\ boot'.size \in Nat /\ boot'.size * ByteBits <= Limit \div Page
    BY <1>2, PlaceAligned
  <1>4. Multiple(limit)' /\ Multiple(boot.start)'
    BY <1>3 DEF Multiple
  <1> QED BY <1>1, <1>2, <1>3, <1>4 DEF PagesInv

-----------------------------------------------------------------------------
(* The invariant of the set-up                                             *)

BootInv == MapInv /\ ModsInv /\ PagesInv

LEMMA BootInvInit ==
    ASSUME BootInit
    PROVE  BootInv
  <1>1. MapInv
    BY MapInvInit DEF BootInit
  <1>2. limit = AlignSup(KernEnd) /\ next = 1 /\ mem = 0 /\ taken = {} /\ stage = "map"
    BY DEF BootInit
  <1>3. Multiple(limit) /\ limit \in Nat
    BY <1>2, Aligned, BootAssumption
  <1>4. ModsInv
    BY <1>2, <1>3 DEF ModsInv, ModulesIntact
  <1>5. PagesInv
    BY <1>2, <1>3, E820Assumption DEF PagesInv
  <1> QED BY <1>1, <1>4, <1>5 DEF BootInv

\* The steps of e820_setup come before everything else.
LEMMA MapSteps ==
    ASSUME BootInv, Next, UNCHANGED bootVars
    PROVE  ModsInv' /\ PagesInv'
  <1>1. UNCHANGED <<stage, mods, memory, limit, next, mem, boot, bits, taken>>
    BY DEF bootVars
  <1>2. stage \notin {"modules", "sum", "place", "fill", "ready"}
    BY DoneStays DEF BootInv, ModsInv
  <1>3. ModsInv'
    BY <1>1, <1>2 DEF BootInv, ModsInv, ModulesIntact
  <1>4. /\ Multiple(limit) /\ mem \in Nat /\ mem <= Limit /\ taken = {}
    BY <1>2 DEF BootInv, PagesInv
  <1>5. Multiple(limit)'
    BY <1>1, <1>4 DEF Multiple
  <1>6. PagesInv'
    BY <1>1, <1>2, <1>4, <1>5 DEF PagesInv
  <1> QED BY <1>3, <1>6

LEMMA AddLengthStep ==
    ASSUME BootInv, AddLength
    PROVE  ModsInv' /\ PagesInv'
  <1>1. /\ stage = "sum" /\ stage' = "sum" /\ next \in DOMAIN mmap
        /\ mem' = (mem + mmap[next].len) % Limit /\ next' = next + 1
        /\ UNCHANGED <<phase, mmap, mods, memory, limit, boot, bits, taken>>
    BY DEF AddLength, vars
  <1>2. ModsInv'
    BY <1>1, ModsKept DEF BootInv
  <1>3. CleanMap /\ Multiple(limit) /\ mem \in Nat /\ next \in Nat /\ taken = {}
    BY <1>1 DEF BootInv, ModsInv, MapInv, PagesInv
  <1>4. mmap[next].len \in Nat
    BY <1>1, <1>3 DEF CleanMap
  <1>5. mem' \in Nat /\ mem' <= Limit
    <2>1. PICK a : a = mem + mmap[next].len
      OBVIOUS
    <2>2. a \in Nat /\ Limit \in Nat \ {0}
      BY <1>3, <1>4, <2>1, E820Assumption
    <2>3. a % Limit \in 0..(Limit - 1)
      BY <2>2, Quotient
    <2> QED BY <1>1, <2>1, <2>2, <2>3
  <1>6. Multiple(limit)'
    BY <1>1, <1>3 DEF Multiple
  <1>7. PagesInv'
    BY <1>1, <1>3, <1>5, <1>6 DEF PagesInv
  <1> QED BY <1>2, <1>7

LEMMA BootInvStep ==
    ASSUME BootInv, [BootNext]_allVars
    PROVE  BootInv'
  <1>1. MapInv'
    <2>1. [Next]_vars
      BY DEF BootNext, allVars, MapFails, ModsReported, MoveModule, ModuleOverlaps, ModulesMoved,
             AddLength, Place, PagerStarts, FillRegion, FillHangs, FillEnds, Alloc, Free
    <2> QED BY <2>1, MapInvStep DEF BootInv
  <1>2. ModsInv /\ PagesInv
    BY DEF BootInv
  <1>3. stage \in {"modules", "sum", "place", "fill", "ready"} => phase = "done" /\ CleanMap
    BY DEF BootInv, ModsInv, MapInv
  <1>4. CASE UNCHANGED allVars
    <2>1. UNCHANGED <<phase, mmap, stage, mods, memory, limit, next, mem, boot, bits, taken>>
      BY <1>4 DEF allVars, vars, bootVars
    <2> QED BY <1>1, <1>2, <2>1, ModsKept, PagesKept DEF BootInv
  <1>5. CASE Next /\ UNCHANGED bootVars
    BY <1>1, <1>5, MapSteps DEF BootInv
  <1>6. CASE MapFails \/ ModuleOverlaps
    <2>1. /\ stage' = "failed" /\ stage \in {"map", "modules"}
          /\ UNCHANGED <<mmap, limit, mem, boot, bits, taken>>
      BY <1>6 DEF MapFails, ModuleOverlaps, vars
    <2> QED BY <1>1, <1>2, <2>1, ModsFailed, PagesKept DEF BootInv
  <1>7. ASSUME NEW list \in ModLists, ModsReported(list) PROVE BootInv'
    <2>1. /\ stage = "map" /\ stage' \in {"modules", "failed"}
          /\ UNCHANGED <<mmap, limit, mem, boot, bits, taken>>
      BY <1>7 DEF ModsReported, vars
    <2> QED BY <1>1, <1>2, <1>7, <2>1, ModsReportedStep, PagesKept DEF BootInv
  <1>8. CASE MoveModule
    <2>1. ModsInv'
      BY <1>2, <1>8, MoveModuleStep
    <2>2. /\ stage = "modules" /\ stage' = "modules" /\ next \in DOMAIN mods
          /\ limit' = Advance(mods[next]) /\ UNCHANGED <<mmap, mem, boot, bits, taken>>
      BY <1>8 DEF MoveModule, vars
    <2>3. Multiple(limit')
      <3>1. next \in 1..(Len(mods) + 1) /\ mods \in Seq(Module) /\ Waiting(next)
        BY <1>2, <2>2 DEF ModsInv
      <3>2. mods[next] \in Module
        BY <2>2, <3>1, LenProperties, ElementOfSeq
      <3>3. mods[next].end - mods[next].start \in Nat
        BY <3>1, <3>2 DEF Waiting, Module
      <3>4. PICK l : l = AlignSup(mods[next].end - mods[next].start)
        OBVIOUS
      <3>5. Multiple(l) /\ Multiple(limit)
        BY <1>2, <3>3, <3>4, Aligned DEF PagesInv
      <3> QED BY <2>2, <3>4, <3>5, MultipleSum DEF Advance
    <2>4. Multiple(limit)'
      BY <2>3 DEF Multiple
    <2>5. PagesInv'
      BY <1>2, <2>2, <2>4 DEF PagesInv
    <2> QED BY <1>1, <2>1, <2>5 DEF BootInv
  <1>9. CASE ModulesMoved
    <2>1. /\ stage = "modules" /\ stage' = "sum" /\ next' \in Nat
          /\ UNCHANGED <<mmap, limit, mem, boot, bits, taken>>
      BY <1>9 DEF ModulesMoved, vars
    <2> QED BY <1>1, <1>2, <1>9, <2>1, ModulesMovedStep, PagesKept DEF BootInv
  <1>10. CASE AddLength
    BY <1>1, <1>10, AddLengthStep DEF BootInv
  <1>11. CASE Place
    BY <1>1, <1>2, <1>11, PlaceStep, PlaceIntact DEF BootInv
  <1>12. ASSUME NEW state \in Leftover, PagerStarts(state) PROVE BootInv'
    <2>1. stage = "place" /\ stage' = "fill" /\ UNCHANGED <<phase, mods, memory, limit>>
      BY <1>12 DEF PagerStarts, vars
    <2> QED BY <1>1, <1>2, <1>3, <1>12, <2>1, ModsKept, PagerStartsStep DEF BootInv
  <1>13. CASE FillRegion
    <2>1. stage = "fill" /\ stage' = "fill" /\ UNCHANGED <<phase, mods, memory, limit>>
      BY <1>13 DEF FillRegion, vars
    <2> QED BY <1>1, <1>2, <1>3, <1>13, <2>1, ModsKept, FillRegionStep DEF BootInv
  <1>14. CASE FillHangs
    <2>1. /\ stage = "fill" /\ stage' = "hung"
          /\ UNCHANGED <<phase, mods, memory, mmap, limit, mem, boot, bits, taken>>
      BY <1>14 DEF FillHangs, vars
    <2> QED BY <1>1, <1>2, <2>1, ModsKept, PagesKept DEF BootInv
  <1>15. CASE FillEnds
    <2>1. stage = "fill" /\ stage' = "ready" /\ UNCHANGED <<phase, mods, memory, limit>>
      BY <1>15 DEF FillEnds, vars
    <2> QED BY <1>1, <1>2, <1>3, <1>15, <2>1, ModsKept, FillEndsStep DEF BootInv
  <1>16. CASE Alloc
    <2>1. stage = "ready" /\ stage' = "ready" /\ UNCHANGED <<phase, mods, memory, limit>>
      BY <1>16 DEF Alloc, vars
    <2> QED BY <1>1, <1>2, <1>16, <2>1, ModsKept, AllocStep DEF BootInv
  <1>17. ASSUME NEW p \in DOMAIN bits, Free(p) PROVE BootInv'
    <2>1. stage = "ready" /\ stage' = "ready" /\ UNCHANGED <<phase, mods, memory, limit>>
      BY <1>17 DEF Free, vars
    <2> QED BY <1>1, <1>2, <1>17, <2>1, ModsKept, FreeStep DEF BootInv
  <1> QED BY <1>4, <1>5, <1>6, <1>7, <1>8, <1>9, <1>10, <1>11, <1>12, <1>13, <1>14, <1>15, <1>16,
             <1>17 DEF BootNext

LEMMA BootInvPages ==
    ASSUME BootInv
    PROVE  PagesAccountedFor
  <1> SUFFICES ASSUME stage = "ready", LowMemory
               PROVE  /\ KernelReported => \A p \in taken : ~ PageInUse(p)
                      /\ \A p \in taken : ~ \E r \in Entries : r.type = Reserved /\ Within(p, r)
                      /\ \A p \in DOMAIN bits : \A r \in Entries :
                            InBitmap(p) /\ Within(p, r) /\ r.type = Available /\ ~ PageInUse(p)
                                => (bits[p] = "FREE" <=> p \notin taken)
    BY DEF PagesAccountedFor
  <1>1. /\ bits \in [Bits -> {"USED", "FREE"}]
        /\ \A r \in Entries : \A p \in Bits : Settled(p, r)
        /\ \A p \in taken : Owned(p)
    BY DEF BootInv, PagesInv
  <1>2. ASSUME KernelReported, NEW p \in taken PROVE ~ PageInUse(p)
    <2>1. Owned(p)
      BY <1>1
    <2>2. ASSUME PageInUse(p) PROVE \E r \in Entries : Within(p, r)
      BY <1>2, <2>1, <2>2 DEF KernelReported, Owned
    <2> QED BY <2>1, <2>2 DEF Owned
  <1>3. ASSUME NEW p \in taken, NEW r \in Entries, r.type = Reserved, Within(p, r) PROVE FALSE
    <2>1. r.type = Available
      BY <1>1, <1>3 DEF Owned
    <2> QED BY <1>3, <2>1 DEF Available, Reserved
  <1>4. ASSUME NEW p \in DOMAIN bits, NEW r \in Entries,
               InBitmap(p), Within(p, r), r.type = Available, ~ PageInUse(p)
        PROVE  bits[p] = "FREE" <=> p \notin taken
    BY <1>1, <1>4 DEF Settled
  <1> QED BY <1>2, <1>3, <1>4

-----------------------------------------------------------------------------
(* The theorems about the set-up                                           *)

\* For every map and module list: MapInv of the memory map, and of the set-up
\* that a module is intact where mods_list says, or has its turn to come, and
\* that a page has the state its region and the kernel call for.
THEOREM BootInvariant == BootSpec => []BootInv
  <1>1. BootInit => BootInv
    BY BootInvInit
  <1>2. BootInv /\ [BootNext]_allVars => BootInv'
    BY BootInvStep
  <1> QED BY <1>1, <1>2, PTL DEF BootSpec

\* Wherever the bootloader put the modules, as long as no two overlap, what is
\* moved and what is placed behind it overwrites no word of any.
THEOREM ModulesKept == BootSpec => []ModulesIntact
  <1>1. BootInv => ModulesIntact
    BY DEF BootInv, ModsInv
  <1> QED BY <1>1, BootInvariant, PTL

\* For every map below 4 GB: no reserved page is given out, nor one that holds
\* the kernel if the map reports it, and every other available page that the
\* bitmap reaches is free just when nobody has it.
THEOREM EveryPageAccounted == BootSpec => []PagesAccountedFor
  BY BootInvariant, BootInvPages, PTL

-----------------------------------------------------------------------------
(* The theorems about the memory map                                       *)

\* Whatever the regions, their number, order and types, e820_qsort loses and
\* duplicates none, and leaves no two that are not neighbours out of order.
THEOREM SortIsPermutation == BootSpec => []SortPermutes
  <1>1. BootInv => SortPermutes
    BY MapInvSort DEF BootInv
  <1> QED BY <1>1, BootInvariant, PTL

\* Whatever the regions, the map read back from the tree is in order and its
\* regions are disjoint.
THEOREM MapInOrder == BootSpec => []InOrderDisjoint
  <1>1. BootInv => InOrderDisjoint
    BY MapInvOrder DEF BootInv
  <1> QED BY <1>1, BootInvariant, PTL

\* Whatever the regions, the tree covers the addresses they cover, and the
\* first of the sorted regions gives an address its type.
THEOREM FirstEntryDecides == BootSpec => []FirstEntryWins
  <1>1. BootInv => FirstEntryWins
    BY MapInvFirst DEF BootInv
  <1> QED BY <1>1, BootInvariant, PTL

\* Whatever the regions, no available one that the pager is handed ends at or
\* above 4 GB.
THEOREM MapBelow4GB == BootSpec => []NoneAbove4GB
  <1>1. BootInv => NoneAbove4GB
    BY MapInvLow DEF BootInv
  <1> QED BY <1>1, BootInvariant, PTL
=============================================================================
