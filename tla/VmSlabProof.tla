---------------------------- MODULE VmSlabProof ----------------------------
(***************************************************************************)
(* The properties of VmSlab, for any number of pages, any room in a page   *)
(* and any sizes of objects.                                               *)
(***************************************************************************)
EXTENDS VmSlab, QueueLemmas

Kind == {"free", "partial", "full"}

Cell == [objects : Nat, bufctls : Seq(Nat), cache : Cache]

TypeOK ==
    /\ free \in Seq(Page)
    /\ slab \in [Page -> Cell]
    /\ lists \in [Cache -> [Kind -> Seq(Page)]]
    /\ size \in [Cache -> Nat]
    /\ cacheList \in Seq(Cache)
    /\ held \in [Cache -> SUBSET Object]
    /\ fault \in Nat

\* What slab s of objects of sz bytes has, those in set G being given out: the
\* counter is ahead of the list of bufctls by what the division counted and
\* the loop did not make.
Sound(s, sz, G) ==
    /\ Made(sz) > 0
    /\ s.bufctls \in Seq(Nat) /\ IsInjective(s.bufctls)
    /\ \A i \in Nat : i \in Range(s.bufctls) <=> i \in 1..Made(sz) /\ i \notin G
    /\ G \subseteq 1..Made(sz)
    /\ s.objects = Len(s.bufctls) + (Capacity(sz) - Made(sz))

GivenFrom(c, p) == {i \in 1..Capacity(1) : <<p, i>> \in held[c]}

Filed(c, p) == \E k \in Kind : p \in Range(lists[c][k])

\* The slabs of a cache: each in one list, the one its counter names.
CacheKept(c) ==
    /\ size[c] > 0
    /\ Apart(lists[c])
    /\ \A p \in Page : Filed(c, p) =>
        /\ slab[p].cache = c
        /\ Sound(slab[p], size[c], GivenFrom(c, p))
        /\ p \in Range(lists[c].full) <=> slab[p].objects = 0
        /\ p \in Range(lists[c].free) <=> slab[p].objects = Capacity(size[c])

\* A cache that is not static is an object of cache_cache, and only caches in
\* use have given objects out, from their slabs.
CachesListed ==
    /\ IsInjective(cacheList)
    /\ CacheCache \in Live
    /\ \A c \in Cache \ {CacheCache} : c \in Live <=> c \in held[CacheCache]
    /\ \A c \in Cache : \A o \in held[c] : c \in Live /\ Filed(c, o[1])

\* A page is in the pool or a slab of one cache.
PagesKept ==
    /\ IsInjective(free)
    /\ \A c, d \in Live : \A p \in Page : Filed(c, p) /\ Filed(d, p) => c = d
    /\ \A c \in Live : \A p \in Range(free) : ~ Filed(c, p)
    /\ \A p \in Page : p \in Reserved <=>
        p \notin Range(free) /\ \A c \in Live : ~ Filed(c, p)

IInv ==
    /\ TypeOK
    /\ CachesListed
    /\ \A c \in Live : CacheKept(c)
    /\ PagesKept
    /\ NullPageKept
    /\ FitNeverFaults

-----------------------------------------------------------------------------
(* Numbers of objects                                                      *)

\* The loop of vm_cache_grow makes no more than the division counts, and no
\* size has more than the objects of one byte.
LEMMA Numbers ==
    ASSUME NEW sz \in Nat \ {0}
    PROVE  /\ Made(sz) \in Nat /\ Capacity(sz) \in Nat
           /\ Made(sz) <= Capacity(sz) /\ Capacity(sz) <= Capacity(1)
  <1> DEFINE d == sz + Bufctl
             K == {k \in 0..Room : (k + 1) * d < Room}
  <1>1. d \in Nat \ {0} /\ Room \in Nat /\ Bufctl \in Nat \ {0}
        /\ d >= 1 + Bufctl /\ 1 + Bufctl \in Nat \ {0}
    BY SlabAssumption
  <1>2. Capacity(sz) = Room \div d /\ Made(sz) = Cardinality(K)
        /\ Capacity(1) = Room \div (1 + Bufctl)
    BY DEF Capacity, Made
  <1> HIDE DEF d
  <1>3. Room \div d \in Nat /\ Room \div d <= Room \div (1 + Bufctl)
        /\ Room \div (1 + Bufctl) \in Nat
    BY <1>1
  <1>4. \A k \in K : k \in 0..((Room \div d) - 1)
    BY <1>1, <1>3
  <1>5. K \in SUBSET (0..((Room \div d) - 1))
    BY <1>4
  <1>6. /\ IsFiniteSet(0..((Room \div d) - 1))
        /\ Cardinality(0..((Room \div d) - 1)) = Room \div d
    <2> DEFINE e == (Room \div d) - 1
    <2>1. e \in Int /\ 0 \in Int /\ (0 > e => Room \div d = 0) /\ e + 1 = Room \div d
          /\ e - 0 + 1 = e + 1
      BY <1>3
    <2> HIDE DEF e
    <2>2. IsFiniteSet(0..e) /\ Cardinality(0..e) = IF 0 > e THEN 0 ELSE e - 0 + 1
      BY <2>1, FS_Interval
    <2>3. IsFiniteSet(0..e) /\ Cardinality(0..e) = Room \div d
      BY <2>1, <2>2
    <2> QED BY <2>3 DEF e
  <1>7. IsFiniteSet(K) /\ Cardinality(K) <= Room \div d
    BY <1>5, <1>6, FS_Subset
  <1>8. Cardinality(K) \in Nat
    BY <1>7, FS_CardinalityType
  <1> QED BY <1>2, <1>3, <1>7, <1>8

\* A sequence without repetitions is as long as its range is large.
LEMMA InjectiveLength ==
    ASSUME NEW S, NEW q \in Seq(S), IsInjective(q)
    PROVE  IsFiniteSet(Range(q)) /\ Cardinality(Range(q)) = Len(q)
  <1>1. Len(q) \in Nat /\ DOMAIN q = 1..Len(q) /\ q \in [1..Len(q) -> Range(q)]
    BY LenProperties DEF Range
  <1>2. q \in Bijection(1..Len(q), Range(q))
    <2>1. \A i, j \in 1..Len(q) : q[i] = q[j] => i = j
      BY <1>1 DEF IsInjective
    <2>2. \A x \in Range(q) : \E i \in 1..Len(q) : q[i] = x
      BY <1>1 DEF Range
    <2> QED BY <1>1, <2>1, <2>2 DEF Bijection, Injection, Surjection
  <1>3. ExistsBijection(1..Len(q), Range(q))
    BY <1>2 DEF ExistsBijection
  <1> QED BY <1>1, <1>3, FS_CountingElements, FS_NatBijection

\* The counter of a slab is within bounds, and at the upper one exactly when
\* nothing was given out.
LEMMA SoundBounds ==
    ASSUME NEW s, NEW sz \in Nat \ {0}, NEW G, Sound(s, sz, G)
    PROVE  /\ s.objects \in Nat /\ s.objects <= Capacity(sz) /\ Capacity(sz) > 0
           /\ s.objects = Capacity(sz) <=> G = {}
           /\ s.bufctls # <<>> => s.objects > 0
  <1> DEFINE q == s.bufctls
             m == Made(sz)
  <1>1. m \in Nat /\ m > 0 /\ Capacity(sz) \in Nat /\ m <= Capacity(sz)
    BY Numbers DEF Sound
  <1>2. /\ q \in Seq(Nat) /\ IsInjective(q)
        /\ \A i \in Nat : i \in Range(q) <=> i \in 1..m /\ i \notin G
        /\ G \subseteq 1..m
        /\ s.objects = Len(q) + (Capacity(sz) - m)
    BY DEF Sound
  <1> HIDE DEF q, m
  <1>3. IsFiniteSet(Range(q)) /\ Cardinality(Range(q)) = Len(q)
    BY <1>2, InjectiveLength
  <1>4. Range(q) \in SUBSET (1..m)
    <2>1. Range(q) \in SUBSET Nat
      BY <1>2, RangeOfSeq
    <2> QED BY <1>2, <2>1
  <1>5. IsFiniteSet(1..m) /\ Cardinality(1..m) = m
    BY <1>1, FS_Interval
  <1>6. Len(q) \in Nat /\ Len(q) <= m /\ (Len(q) = m => Range(q) = 1..m)
    <2>1. Len(q) \in Nat
      BY <1>2, LenProperties
    <2>2. Cardinality(Range(q)) <= Cardinality(1..m)
          /\ (Cardinality(1..m) = Cardinality(Range(q)) => 1..m = Range(q))
      BY <1>4, <1>5, FS_Subset
    <2> QED BY <1>3, <1>5, <2>1, <2>2
  <1>7. Len(q) = m <=> G = {}
    <2>1. ASSUME Len(q) = m PROVE G = {}
      BY <1>1, <1>2, <1>6, <2>1
    <2>2. ASSUME G = {} PROVE Len(q) = m
      <3>1. Range(q) = 1..m
        <4>1. \A i \in 1..m : i \in Nat /\ i \in Range(q)
          BY <1>1, <1>2, <2>2
        <4> QED BY <1>4, <4>1
      <3> QED BY <1>3, <1>5, <3>1
    <2> QED BY <2>1, <2>2
  <1>8. q # <<>> => Len(q) > 0
    BY <1>2, <1>6
  <1>9. /\ s.objects \in Nat /\ s.objects <= Capacity(sz) /\ Capacity(sz) > 0
        /\ s.objects = Capacity(sz) <=> Len(q) = m
        /\ Len(q) > 0 => s.objects > 0
    <2> HIDE DEF Capacity
    <2> QED BY <1>1, <1>2, <1>6
  <1> QED BY <1>7, <1>8, <1>9 DEF q

LEMMA TakenSound ==
    ASSUME NEW s \in Cell,
           NEW sz \in Nat \ {0}, NEW G, Sound(s, sz, G), s.bufctls # <<>>
    PROVE  /\ Head(s.bufctls) \in 1..Made(sz) /\ Head(s.bufctls) \notin G
           /\ Taken(s) \in Cell
           /\ Taken(s).objects = s.objects - 1 /\ Taken(s).cache = s.cache
           /\ Sound(Taken(s), sz, G \cup {Head(s.bufctls)})
  <1> DEFINE q == s.bufctls
             i == Head(q)
             r == Tail(q)
             m == Made(sz)
  <1>1. /\ q \in Seq(Nat) /\ IsInjective(q) /\ q # <<>>
        /\ \A j \in Nat : j \in Range(q) <=> j \in 1..m /\ j \notin G
        /\ G \subseteq 1..m /\ m > 0
        /\ s.objects = Len(q) + (Capacity(sz) - m)
    BY DEF Sound
  <1>2. i \in Range(q) /\ i \in Nat
    BY <1>1, RotateElements
  <1>3. /\ r \in Seq(Nat) /\ Len(r) = Len(q) - 1 /\ Len(q) \in Nat
        /\ Range(r) = Range(q) \ {i} /\ IsInjective(r)
    BY <1>1, TailElements
  <1>4. s.objects - 1 \in Nat
    BY <1>1, SoundBounds DEF Cell
  <1>5. /\ Taken(s).objects = s.objects - 1 /\ Taken(s).cache = s.cache
        /\ Taken(s).bufctls = r
        /\ Taken(s) \in Cell
    BY <1>3, <1>4 DEF Taken, Cell
  <1>6. m \in Nat /\ Capacity(sz) \in Nat
    BY Numbers
  <1> HIDE DEF r, q, i
  <1>7. Sound(Taken(s), sz, G \cup {i})
    <2>1. G \cup {i} \subseteq 1..m
      BY <1>1, <1>2
    <2>2. \A j \in Nat : j \in Range(r) <=> j \in 1..m /\ j \notin G \cup {i}
      BY <1>1, <1>3
    <2>3. s.objects - 1 = Len(r) + (Capacity(sz) - m)
      BY <1>1, <1>3, <1>6
    <2> QED BY <1>1, <1>3, <1>5, <2>1, <2>2, <2>3 DEF Sound
  <1> QED BY <1>1, <1>2, <1>5, <1>7 DEF i, q

LEMMA ReturnedSound ==
    ASSUME NEW s \in Cell,
           NEW sz \in Nat \ {0}, NEW G, Sound(s, sz, G), NEW i \in G
    PROVE  /\ s.objects < Capacity(sz)
           /\ Returned(s, i) \in Cell
           /\ Returned(s, i).objects = s.objects + 1 /\ Returned(s, i).cache = s.cache
           /\ Sound(Returned(s, i), sz, G \ {i})
  <1> DEFINE q == s.bufctls
             r == Append(q, i)
             m == Made(sz)
  <1>1. /\ q \in Seq(Nat) /\ IsInjective(q)
        /\ \A j \in Nat : j \in Range(q) <=> j \in 1..m /\ j \notin G
        /\ G \subseteq 1..m /\ m > 0
        /\ s.objects = Len(q) + (Capacity(sz) - m)
    BY DEF Sound
  <1>2. m \in Nat /\ Capacity(sz) \in Nat /\ i \in 1..m /\ i \in Nat /\ i \notin Range(q)
    BY <1>1, Numbers
  <1>3. /\ r \in Seq(Nat) /\ Range(r) = Range(q) \cup {i} /\ IsInjective(r)
        /\ Len(r) = Len(q) + 1 /\ Len(q) \in Nat
    BY <1>1, <1>2, AppendElements
  <1>4. s.objects < Capacity(sz)
    BY <1>2, SoundBounds
  <1>5. /\ Returned(s, i).objects = s.objects + 1 /\ Returned(s, i).cache = s.cache
        /\ Returned(s, i).bufctls = r
        /\ Returned(s, i) \in Cell
    <2>1. s.objects + 1 \in Nat
      BY DEF Cell
    <2>2. Returned(s, i) = [s EXCEPT !.objects = @ + 1, !.bufctls = r]
      BY DEF Returned
    <2> HIDE DEF r
    <2> QED BY <1>3, <2>1, <2>2 DEF Cell
  <1> HIDE DEF r, q
  <1>6. Sound(Returned(s, i), sz, G \ {i})
    <2>1. \A j \in Nat : j \in Range(r) <=> j \in 1..m /\ j \notin G \ {i}
      BY <1>1, <1>2, <1>3
    <2>2. s.objects + 1 = Len(r) + (Capacity(sz) - m)
      BY <1>1, <1>2, <1>3
    <2> QED BY <1>1, <1>3, <1>5, <2>1, <2>2 DEF Sound
  <1> QED BY <1>4, <1>5, <1>6

\* A slab that was just made, when the loop made any object.
LEMMA GrownSound ==
    ASSUME NEW c \in Cache, size[c] \in Nat \ {0}
    PROVE  /\ Grown(c) \in Cell
           /\ Grown(c).cache = c /\ Grown(c).objects = Capacity(size[c])
           /\ Grown(c).bufctls # <<>> => Sound(Grown(c), size[c], {})
           /\ Grown(c).bufctls = <<>> => ~ Fits(size[c])
  <1> DEFINE m == Made(size[c])
             q == [i \in 1..m |-> i]
  <1>1. m \in Nat /\ Capacity(size[c]) \in Nat
    BY Numbers
  <1>2. q \in Seq(Nat) /\ Len(q) = m /\ DOMAIN q = 1..m /\ \A i \in 1..m : q[i] = i
    BY <1>1
  <1>3. /\ Grown(c).objects = Capacity(size[c]) /\ Grown(c).bufctls = q
        /\ Grown(c).cache = c
        /\ Grown(c) \in Cell
    BY <1>1, <1>2 DEF Grown, Cell
  <1> HIDE DEF q, m
  <1>4. IsInjective(q) /\ Range(q) = 1..m
    BY <1>2 DEF IsInjective, Range
  <1>5. q # <<>> => m > 0
    BY <1>1, <1>2
  <1>6. q = <<>> => ~ m > 0
    BY <1>1, <1>2
  <1>7. q # <<>> => Sound(Grown(c), size[c], {})
    BY <1>1, <1>2, <1>3, <1>4, <1>5 DEF Sound, m
  <1> QED BY <1>3, <1>6, <1>7 DEF Fits, m

-----------------------------------------------------------------------------
(* The pool at the start                                                   *)

\* Filled is what its recursive definition says.
LEMMA FilledSteps ==
    /\ Filled[0] = <<>>
    /\ \A n \in 1..PageCount :
         Filled[n] = IF n - 1 \in Reserved THEN Filled[n - 1] ELSE <<n - 1>> \o Filled[n - 1]
  <1>1. PageCount \in Nat \ {0}
    BY PoolAssumption
  <1> DEFINE G(F) == [n \in 0..PageCount |->
                        IF n = 0 THEN <<>>
                        ELSE IF n - 1 \in Reserved THEN F[n - 1] ELSE <<n - 1>> \o F[n - 1]]
             R == Seq(Nat)
             step == [e \in (1..PageCount) \X R |->
                        IF e[1] - 1 \in Reserved THEN e[2] ELSE <<e[1] - 1>> \o e[2]]
  <1>2. Filled = CHOOSE F : F = G(F)
    BY DEF Filled
  <1>3. step \in Steps(PageCount, R)
    <2>1. ASSUME NEW e \in (1..PageCount) \X R
          PROVE  (IF e[1] - 1 \in Reserved THEN e[2] ELSE <<e[1] - 1>> \o e[2]) \in R
      <3>1. e[1] \in 1..PageCount /\ e[2] \in R /\ <<e[1] - 1>> \in Seq(Nat)
        BY <1>1, <2>1
      <3>2. <<e[1] - 1>> \o e[2] \in Seq(Nat)
        BY <3>1, ConcatProperties
      <3> QED BY <3>1, <3>2
    <2> QED BY <2>1 DEF Steps
  <1>4. <<>> \in R
    BY EmptySeq
  <1>5. PICK F \in [0..PageCount -> R] :
          F[0] = <<>> /\ \A n \in 1..PageCount : F[n] = step[<<n, F[n - 1]>>]
    <2> HIDE DEF R, step
    <2> QED BY <1>1, <1>3, <1>4, Recursion
  <1>6. \A n \in 1..PageCount :
          F[n] = IF n - 1 \in Reserved THEN F[n - 1] ELSE <<n - 1>> \o F[n - 1]
    <2> SUFFICES ASSUME NEW n \in 1..PageCount
                 PROVE  F[n] = IF n - 1 \in Reserved THEN F[n - 1] ELSE <<n - 1>> \o F[n - 1]
      OBVIOUS
    <2>1. n - 1 \in 0..PageCount
      BY <1>1
    <2>2. <<n, F[n - 1]>> \in (1..PageCount) \X R
      BY <2>1
    <2> HIDE DEF R
    <2> QED BY <1>5, <2>2
  <1>7. F = G(F)
    <2>1. \A n \in 0..PageCount : n # 0 => n \in 1..PageCount
      BY <1>1
    <2>2. \A n \in 0..PageCount : F[n] = G(F)[n]
      BY <1>5, <1>6, <2>1
    <2> QED BY <2>2
  <1> DEFINE C == CHOOSE K : K = G(K)
  <1>8. C = G(C)
    BY <1>7
  <1> HIDE DEF C
  <1>9. C[0] = <<>>
    BY <1>1, <1>8
  <1>10. ASSUME NEW n \in 1..PageCount
         PROVE  C[n] = IF n - 1 \in Reserved THEN C[n - 1] ELSE <<n - 1>> \o C[n - 1]
    <2>1. n \in 0..PageCount /\ n # 0
      BY <1>1
    <2> QED BY <1>8, <2>1
  <1>11. Filled = C
    BY <1>2 DEF C
  <1> QED BY <1>9, <1>10, <1>11

\* The pool has every page that is not reserved, once, and page 0 last.
LEMMA PoolAtStart ==
    ASSUME PoolSetup
    PROVE  /\ free \in Seq(Page) /\ IsInjective(free)
           /\ Range(free) = Page \ Reserved
           /\ NullPageKept
  <1>1. PageCount \in Nat \ {0} /\ 0 \notin Reserved
    BY PoolAssumption
  <1> DEFINE Good(n) == /\ Filled[n] \in Seq(Page) /\ IsInjective(Filled[n])
                        /\ \A p \in Page : p \in Range(Filled[n]) <=> p < n /\ p \notin Reserved
                        /\ n > 0 => Filled[n] # <<>> /\ Last(Filled[n]) = 0
             T == {n \in Nat : n <= PageCount => Good(n)}
  <1>2. 0 \in T
    <2>1. <<>> \in Seq(Page) /\ Range(<<>>) = {} /\ IsInjective(<<>>)
      BY EmptySeq DEF Range, IsInjective
    <2>2. \A p \in Page : ~ p < 0
      BY <1>1 DEF Page
    <2>3. Good(0)
      BY <2>1, <2>2, FilledSteps
    <2> HIDE DEF Good
    <2> QED BY <2>3
  <1>3. ASSUME NEW n \in T PROVE n + 1 \in T
    <2>1. ASSUME n + 1 <= PageCount PROVE Good(n + 1)
      <3>1. n \in Nat /\ Good(n) /\ n \in Page /\ n + 1 \in 1..PageCount /\ (n + 1) - 1 = n
        BY <1>1, <2>1 DEF Page
      <3>2. Filled[n + 1] = IF n \in Reserved THEN Filled[n] ELSE <<n>> \o Filled[n]
        BY <3>1, FilledSteps
      <3>3. \A p \in Page : p \in Int /\ (p < n + 1 <=> p < n \/ p = n)
        BY <1>1, <3>1 DEF Page
      <3>4. CASE n \in Reserved
        <4>1. n > 0
          BY <1>1, <3>1, <3>4
        <4>2. n + 1 > 0
          BY <3>1
        <4> QED BY <3>1, <3>2, <3>3, <3>4, <4>1, <4>2
      <3>5. CASE n \notin Reserved
        <4> DEFINE q == Filled[n]
                   r == <<n>> \o q
        <4>1. /\ <<n>> \in Seq(Page) /\ Range(<<n>>) = {n} /\ IsInjective(<<n>>)
              /\ Last(<<n>>) = n
          BY <3>1 DEF Range, IsInjective, Last
        <4>2. /\ q \in Seq(Page) /\ IsInjective(q) /\ n \notin Range(q)
              /\ \A p \in Page : p \in Range(q) <=> p < n /\ p \notin Reserved
              /\ n > 0 => q # <<>> /\ Last(q) = 0
          BY <3>1
        <4> HIDE DEF q
        <4>3. /\ r \in Seq(Page) /\ Range(r) = {n} \cup Range(q) /\ IsInjective(r)
              /\ q # <<>> => r # <<>> /\ Last(r) = Last(q)
          <5> DEFINE a == <<n>>
          <5>1. a \in Seq(Page) /\ Range(a) = {n} /\ IsInjective(a) /\ Range(a) \cap Range(q) = {}
            BY <4>1, <4>2
          <5> HIDE DEF a
          <5>2. /\ a \o q \in Seq(Page) /\ Range(a \o q) = Range(a) \cup Range(q)
                /\ IsInjective(a \o q)
                /\ q # <<>> => a \o q # <<>> /\ Last(a \o q) = Last(q)
            BY <4>2, <5>1, ConcatElements
          <5> QED BY <5>1, <5>2 DEF a
        <4>4. r # <<>> /\ Last(r) = 0
          <5>1. CASE n = 0
            <6>1. Range(q) = {}
              <7>1. Range(q) \in SUBSET Page
                BY <4>2, RangeOfSeq
              <7>2. \A p \in Page : ~ p < 0
                BY <1>1 DEF Page
              <7> QED BY <4>2, <5>1, <7>1, <7>2
            <6>2. q = <<>>
              BY <4>2, <6>1, NoElements
            <6>3. r = <<n>>
              BY <6>2
            <6>4. <<n>> # <<>>
              OBVIOUS
            <6> HIDE DEF r
            <6> QED BY <4>1, <5>1, <6>3, <6>4
          <5>2. CASE n > 0
            BY <4>2, <4>3, <5>2
          <5>3. n = 0 \/ n > 0
            BY <3>1
          <5> HIDE DEF r
          <5> QED BY <5>1, <5>2, <5>3
        <4>5. Filled[n + 1] = r
          BY <3>2, <3>5 DEF q
        <4> HIDE DEF r
        <4>6. \A p \in Page : p \in Range(r) <=> p < n + 1 /\ p \notin Reserved
          BY <3>3, <3>5, <4>2, <4>3
        <4> QED BY <4>3, <4>4, <4>5, <4>6
      <3> QED BY <3>4, <3>5
    <2> HIDE DEF Good
    <2> QED BY <2>1
  <1>4. PageCount \in T
    <2>1. T \in SUBSET Nat
      OBVIOUS
    <2> HIDE DEF T
    <2>2. T = Nat
      BY <1>2, <1>3, <2>1, Induction
    <2> QED BY <1>1, <2>2
  <1>5. Good(PageCount)
    BY <1>1, <1>4
  <1>6. \A p \in Page : p < PageCount
    BY <1>1 DEF Page
  <1>7. Range(free) \in SUBSET Page
    BY <1>5, RangeOfSeq DEF PoolSetup
  <1> QED BY <1>1, <1>5, <1>6, <1>7 DEF PoolSetup, NullPageKept, NullPage

-----------------------------------------------------------------------------
(* Lists of slabs                                                          *)

\* Lists ms are ls but for p, which is in list k.
OnlyIn(ms, ls, p, k) ==
    /\ ms \in Family(Kind, Page) /\ Apart(ms)
    /\ \A l \in Kind : p \in Range(ms[l]) <=> l = k
    /\ \A l \in Kind : \A q : q # p => (q \in Range(ms[l]) <=> q \in Range(ls[l]))

\* A slab that goes from one list of a cache to another.
LEMMA MovedLists ==
    ASSUME NEW ls \in Family(Kind, Page), Apart(ls),
           NEW from \in Kind, NEW to \in Kind, NEW p \in Page, p \in Range(ls[from])
    PROVE  OnlyIn(Moved(ls, p, from, to), ls, p, to)
  <1>1. \A k \in Kind : p \in Range(ls[k]) <=> k = from
    <2>1. DOMAIN ls = Kind
      BY DEF Family
    <2> QED BY <2>1 DEF Apart
  <1>2. CASE from = to
    BY <1>1, <1>2 DEF Moved, OnlyIn
  <1>3. CASE from # to
    <2> DEFINE dd == Dropped(ls, from, p)
               ee == Enqueued(dd, to, p)
    <2>1. /\ dd \in Family(Kind, Page) /\ Apart(dd)
          /\ \A k \in Kind : \A q : q \in Range(dd[k]) <=> q \in Range(ls[k]) /\ ~ (k = from /\ q = p)
      BY ApartRemove
    <2> HIDE DEF dd
    <2>2. Absent(dd, p)
      <3>1. DOMAIN dd = Kind
        BY <2>1 DEF Family
      <3> QED BY <1>1, <2>1, <3>1 DEF Absent
    <2>3. /\ ee \in Family(Kind, Page) /\ Apart(ee)
          /\ \A k \in Kind : \A q : q \in Range(ee[k]) <=> q \in Range(dd[k]) \/ (k = to /\ q = p)
      BY <2>1, <2>2, ApartAdd
    <2>4. Moved(ls, p, from, to) = ee
      BY <1>3 DEF Moved, dd
    <2> HIDE DEF ee
    <2> QED BY <1>1, <2>1, <2>3, <2>4 DEF OnlyIn
  <1> QED BY <1>2, <1>3

\* The lists of cache c once it has grown, if it has to.
WorkLists(c) ==
    [lists[c] EXCEPT !.free = IF MustGrow(c) THEN <<WorkPage(c)>> ELSE @]

LEMMA WorkListsApart ==
    ASSUME NEW c \in Cache, lists[c] \in Family(Kind, Page), Apart(lists[c]),
           MustGrow(c) => WorkPage(c) \in Page /\ ~ Filed(c, WorkPage(c))
    PROVE  /\ WorkLists(c) \in Family(Kind, Page) /\ Apart(WorkLists(c))
           /\ WorkList(c) \in Kind /\ WorkPage(c) \in Page
           /\ WorkPage(c) \in Range(WorkLists(c)[WorkList(c)])
           /\ ~ MustGrow(c) => WorkPage(c) \in Range(lists[c][WorkList(c)])
           /\ \A k \in Kind : \A q : q \in Range(WorkLists(c)[k]) <=>
                q \in Range(lists[c][k]) \/ (MustGrow(c) /\ k = "free" /\ q = WorkPage(c))
  <1> DEFINE ls == lists[c]
             p == WorkPage(c)
             ww == WorkLists(c)
  <1>1. ls \in Family(Kind, Page) /\ Apart(ls) /\ DOMAIN ls = Kind
        /\ \A k \in Kind : ls[k] \in Seq(Page)
    BY DEF Family
  <1>2. WorkList(c) \in Kind
    BY DEF WorkList, Kind
  <1>3. CASE MustGrow(c)
    <2>1. p \in Page /\ Absent(ls, p)
      BY <1>1, <1>3 DEF Filed, Absent
    <2>2. WorkList(c) = "free" /\ "free" \in Kind /\ ls["free"] = <<>>
      BY <1>3 DEF WorkList, Kind, MustGrow
    <2>3. ww = Enqueued(ls, "free", p)
      BY <1>3, <2>2 DEF WorkLists, Enqueued
    <2> HIDE DEF ls, p, ww
    <2>4. /\ ww \in Family(Kind, Page) /\ Apart(ww)
          /\ \A k \in Kind : \A q : q \in Range(ww[k]) <=> q \in Range(ls[k]) \/ (k = "free" /\ q = p)
      BY <1>1, <2>1, <2>2, <2>3, ApartAdd
    <2> QED BY <1>1, <1>2, <1>3, <2>1, <2>2, <2>4 DEF ls, p, ww
  <1>4. CASE ~ MustGrow(c)
    <2>1. ww = ls
      BY <1>1, <1>4 DEF WorkLists, Family, Kind
    <2>2. ls[WorkList(c)] # <<>>
      BY <1>4 DEF WorkList, MustGrow
    <2>3. p = Head(ls[WorkList(c)])
      BY <1>4 DEF WorkPage
    <2> HIDE DEF ls, p, ww
    <2>4. p \in Range(ls[WorkList(c)]) /\ p \in Page
      BY <1>1, <1>2, <2>2, <2>3, RotateElements
    <2> QED BY <1>1, <1>2, <1>4, <2>1, <2>4 DEF ls, p, ww
  <1> QED BY <1>3, <1>4

\* The lists of a cache after an allocation: the slab it came from is in the
\* list its counter names.
LEMMA TakingLists ==
    ASSUME NEW c \in Cache, lists[c] \in Family(Kind, Page), Apart(lists[c]),
           MustGrow(c) => WorkPage(c) \in Page /\ ~ Filed(c, WorkPage(c)),
           NEW to \in Kind, to = IF WorkSlab(c).objects = 1 THEN "full" ELSE "partial"
    PROVE  OnlyIn(ListsAfterTaking(c), lists[c], WorkPage(c), to)
  <1> DEFINE p == WorkPage(c)
             ww == WorkLists(c)
             ls == ListsAfterTaking(c)
  <1>1. /\ ww \in Family(Kind, Page) /\ Apart(ww)
        /\ WorkList(c) \in Kind /\ p \in Page /\ p \in Range(ww[WorkList(c)])
        /\ \A k \in Kind : \A q : q \in Range(ww[k]) <=>
             q \in Range(lists[c][k]) \/ (MustGrow(c) /\ k = "free" /\ q = p)
    BY WorkListsApart
  <1>2. ls = Moved(ww, p, WorkList(c), to)
    BY DEF ListsAfterTaking, WorkLists
  <1> HIDE DEF p, ww, ls
  <1>3. OnlyIn(ls, ww, p, to)
    BY <1>1, <1>2, MovedLists
  <1>4. \A k \in Kind : \A q : q # p => (q \in Range(ww[k]) <=> q \in Range(lists[c][k]))
    BY <1>1
  <1>5. OnlyIn(ls, lists[c], p, to)
    BY <1>3, <1>4 DEF OnlyIn
  <1> QED BY <1>5 DEF p, ls

\* The lists of a cache when an object of slab p has come back.
LEMMA ReturningLists ==
    ASSUME NEW c \in Cache, lists[c] \in Family(Kind, Page), Apart(lists[c]),
           NEW p \in Page, Filed(c, p),
           p \in Range(lists[c]["full"]) <=> slab[p].objects = 0,
           p \notin Range(lists[c]["free"]),
           NEW to \in Kind,
           to = IF slab[p].objects + 1 = Capacity(size[c]) THEN "free" ELSE "partial"
    PROVE  OnlyIn(ListsAfterReturning(c, p), lists[c], p, to)
  <1> DEFINE from == IF slab[p].objects = 0 THEN "full" ELSE "partial"
             ls == ListsAfterReturning(c, p)
  <1>1. ls = Moved(lists[c], p, from, to)
    BY DEF ListsAfterReturning
  <1>2. from \in Kind
    BY DEF Kind
  <1>3. p \in Range(lists[c][from])
    <2>1. PICK k \in Kind : p \in Range(lists[c][k])
      BY DEF Filed
    <2>2. k # "free"
      BY <2>1
    <2>3. CASE slab[p].objects = 0
      BY <2>3
    <2>4. CASE slab[p].objects # 0
      <3>1. k = "partial"
        BY <2>1, <2>2, <2>4 DEF Kind
      <3> QED BY <2>1, <2>4, <3>1
    <2> QED BY <2>3, <2>4
  <1> HIDE DEF from, ls
  <1>4. OnlyIn(ls, lists[c], p, to)
    BY <1>1, <1>2, <1>3, MovedLists
  <1> QED BY <1>4 DEF ls

-----------------------------------------------------------------------------
(* The initial state                                                       *)

LEMMA NoSlabsApart ==
    /\ NoSlabs \in Family(Kind, Page) /\ Apart(NoSlabs)
    /\ \A k \in Kind : Range(NoSlabs[k]) = {}
  <1>1. <<>> \in Seq(Page) /\ Range(<<>>) = {} /\ IsInjective(<<>>)
    BY EmptySeq DEF Range, IsInjective
  <1>2. \A k \in Kind : NoSlabs[k] = <<>>
    BY DEF Kind, NoSlabs
  <1>3. NoSlabs \in [Kind -> Seq(Page)]
    <2>1. NoSlabs = [k \in Kind |-> <<>>]
      BY DEF Kind, NoSlabs
    <2> QED BY <1>1, <2>1
  <1>4. DOMAIN NoSlabs = Kind
    BY <1>3
  <1>5. Apart(NoSlabs)
    BY <1>1, <1>2, <1>4 DEF Apart
  <1> QED BY <1>1, <1>2, <1>3, <1>5 DEF Family

LEMMA InitIInv == Init => IInv
  <1> SUFFICES ASSUME Init PROVE IInv
    OBVIOUS
  <1>1. /\ free \in Seq(Page) /\ IsInjective(free) /\ Range(free) = Page \ Reserved
        /\ NullPageKept
    BY PoolAtStart DEF Init
  <1>2. CacheCache \in Cache /\ CacheSize \in Nat \ {0}
    BY SlabAssumption DEF Cache
  <1>3. /\ \A c \in Cache : lists[c] = NoSlabs /\ held[c] = {}
        /\ \A c \in Cache : size[c] = IF c = CacheCache THEN CacheSize ELSE 0
    BY DEF Init
  <1>4. Live = {CacheCache} /\ IsInjective(cacheList) /\ cacheList \in Seq(Cache)
    BY <1>2 DEF Init, Live, Range, IsInjective
  <1>5. \A c \in Cache : \A p : ~ Filed(c, p)
    BY <1>3, NoSlabsApart DEF Filed
  <1>6. TypeOK
    <2>1. <<>> \in Seq(Nat)
      BY EmptySeq
    <2>2. NoSlab \in Cell
      BY <1>2, <2>1 DEF NoSlab, Cell
    <2>3. slab \in [Page -> Cell]
      BY <2>2 DEF Init
    <2>4. lists \in [Cache -> [Kind -> Seq(Page)]]
      BY NoSlabsApart DEF Init, Family
    <2>5. size \in [Cache -> Nat]
      BY <1>2 DEF Init
    <2>6. held \in [Cache -> SUBSET Object] /\ fault \in Nat
      BY DEF Init
    <2> QED BY <1>1, <1>4, <2>3, <2>4, <2>5, <2>6 DEF TypeOK
  <1>7. CachesListed
    BY <1>2, <1>3, <1>4 DEF CachesListed
  <1>8. \A c \in Live : CacheKept(c)
    <2>1. size[CacheCache] > 0
      BY <1>2, <1>3
    <2> QED BY <1>2, <1>3, <1>4, <1>5, <2>1, NoSlabsApart DEF CacheKept
  <1>9. PagesKept
    <2>1. \A p \in Reserved : p \in Page
      BY PoolAssumption DEF Page
    <2> QED BY <1>1, <1>2, <1>4, <1>5, <2>1 DEF PagesKept
  <1>10. FitNeverFaults
    BY DEF Init, FitNeverFaults
  <1> QED BY <1>1, <1>6, <1>7, <1>8, <1>9, <1>10 DEF IInv

-----------------------------------------------------------------------------
(* One cache in a step                                                     *)

\* A cache that a step leaves alone.
LEMMA SameCache ==
    ASSUME NEW d \in Cache, lists'[d] = lists[d], size'[d] = size[d], held'[d] = held[d],
           \A p \in Page : Filed(d, p) => slab'[p] = slab[p]
    PROVE  /\ \A p : Filed(d, p)' <=> Filed(d, p)
           /\ CacheKept(d) => CacheKept(d)'
  <1>1. \A p : Filed(d, p)' <=> Filed(d, p)
    BY DEF Filed
  <1>2. \A p : GivenFrom(d, p)' = GivenFrom(d, p)
    BY DEF GivenFrom
  <1>3. Apart(lists[d])' <=> Apart(lists[d])
    OBVIOUS
  <1> QED BY <1>1, <1>2, <1>3 DEF CacheKept

\* A cache that a step changes in one slab p.
LEMMA ChangedCache ==
    ASSUME NEW c \in Cache, CacheKept(c), NEW p \in Page, NEW to \in Kind,
           OnlyIn(lists'[c], lists[c], p, to), size'[c] = size[c],
           \A q \in Page : q # p =>
             slab'[q] = slab[q] /\ GivenFrom(c, q)' = GivenFrom(c, q),
           slab'[p].cache = c, Sound(slab'[p], size[c], GivenFrom(c, p)'),
           to = "full" <=> slab'[p].objects = 0,
           to = "free" <=> slab'[p].objects = Capacity(size[c])
    PROVE  /\ lists'[c] \in Family(Kind, Page)
           /\ \A q : Filed(c, q)' <=> Filed(c, q) \/ q = p
           /\ CacheKept(c)'
  <1> DEFINE ls == lists'[c]
  <1>1. /\ ls \in Family(Kind, Page) /\ Apart(ls)
        /\ \A k \in Kind : p \in Range(ls[k]) <=> k = to
        /\ \A k \in Kind : \A q : q # p => (q \in Range(ls[k]) <=> q \in Range(lists[c][k]))
    BY DEF OnlyIn
  <1>2. "free" \in Kind /\ "full" \in Kind
    BY DEF Kind
  <1> HIDE DEF ls
  <1>3. \A q : Filed(c, q)' <=> \E k \in Kind : q \in Range(ls[k])
    BY DEF Filed, ls
  <1>4. Filed(c, p)'
    BY <1>1, <1>3
  <1>5. \A q : q # p => (Filed(c, q)' <=> Filed(c, q))
    BY <1>1, <1>3 DEF Filed
  <1>6. ASSUME NEW q \in Page, Filed(c, q)'
        PROVE  /\ slab'[q].cache = c
               /\ Sound(slab'[q], size[c], GivenFrom(c, q)')
               /\ q \in Range(ls["full"]) <=> slab'[q].objects = 0
               /\ q \in Range(ls["free"]) <=> slab'[q].objects = Capacity(size[c])
    <2>1. CASE q = p
      <3>1. p \in Range(ls["full"]) <=> slab'[p].objects = 0
        BY <1>1, <1>2
      <3>2. p \in Range(ls["free"]) <=> slab'[p].objects = Capacity(size[c])
        BY <1>1, <1>2
      <3> QED BY <2>1, <3>1, <3>2
    <2>2. CASE q # p
      <3>1. Filed(c, q) /\ slab'[q] = slab[q] /\ GivenFrom(c, q)' = GivenFrom(c, q)
        BY <1>5, <1>6, <2>2
      <3>2. /\ slab[q].cache = c
            /\ Sound(slab[q], size[c], GivenFrom(c, q))
            /\ q \in Range(lists[c]["full"]) <=> slab[q].objects = 0
            /\ q \in Range(lists[c]["free"]) <=> slab[q].objects = Capacity(size[c])
        BY <3>1 DEF CacheKept
      <3>3. /\ q \in Range(ls["full"]) <=> q \in Range(lists[c]["full"])
            /\ q \in Range(ls["free"]) <=> q \in Range(lists[c]["free"])
        BY <1>1, <1>2, <2>2
      <3> QED BY <3>1, <3>2, <3>3
    <2> QED BY <2>1, <2>2
  <1>7. size'[c] > 0
    BY DEF CacheKept
  <1>8. CacheKept(c)'
    BY <1>1, <1>6, <1>7 DEF CacheKept, ls
  <1> QED BY <1>1, <1>4, <1>5, <1>8 DEF ls

\* What a cache in use has, and its slabs.
LEMMA CacheTypes ==
    ASSUME IInv, NEW c \in Live
    PROVE  /\ c \in Cache /\ size[c] \in Nat \ {0} /\ CacheKept(c)
           /\ lists[c] \in Family(Kind, Page) /\ Apart(lists[c])
           /\ held[c] \in SUBSET Object
           /\ slab \in [Page -> Cell]
  <1>1. c \in Cache
    BY RangeOfSeq DEF Live, IInv, TypeOK
  <1>2. CacheKept(c)
    BY DEF IInv
  <1> QED BY <1>1, <1>2 DEF IInv, TypeOK, CacheKept, Family

\* The page vm_cache_alloc works on: a slab of the cache which has something to
\* give, or the page on top of the pool.
LEMMA TakesPage ==
    ASSUME IInv, NEW c \in Live, Take(c)
    PROVE  /\ WorkPage(c) \in Page
           /\ WorkSlab(c) \in Cell /\ WorkSlab(c).cache = c
           /\ Sound(WorkSlab(c), size[c], GivenFrom(c, WorkPage(c)))
           /\ IF MustGrow(c) THEN WorkPage(c) \in Range(free)
                             ELSE Filed(c, WorkPage(c))
           /\ \A d \in Live : Filed(d, WorkPage(c)) => d = c /\ ~ MustGrow(c)
  <1> DEFINE p == WorkPage(c)
  <1>1. /\ c \in Cache /\ size[c] \in Nat \ {0} /\ CacheKept(c)
        /\ lists[c] \in Family(Kind, Page) /\ slab \in [Page -> Cell]
    BY CacheTypes
  <1>2. WorkSlab(c).bufctls # <<>>
    BY DEF Take
  <1>3. CASE MustGrow(c)
    <2>1. PoolHasPage /\ free \in Seq(Page)
      BY <1>3 DEF Take, IInv, TypeOK
    <2>2. free # <<>>
      BY <2>1 DEF PoolHasPage
    <2>3. p = Head(free) /\ p \in Range(free) /\ p \in Page
      BY <1>3, <2>1, <2>2, RotateElements DEF WorkPage, PoolTop
    <2>4. WorkSlab(c) = Grown(c)
      BY <1>3 DEF WorkSlab
    <2>5. WorkSlab(c) \in Cell /\ WorkSlab(c).cache = c /\ Sound(WorkSlab(c), size[c], {})
      BY <1>1, <1>2, <2>4, GrownSound
    <2>6. \A d \in Live : ~ Filed(d, p)
      BY <2>3 DEF IInv, PagesKept
    <2>7. GivenFrom(c, p) = {}
      <3>1. \A o \in held[c] : Filed(c, o[1])
        BY <1>1 DEF IInv, CachesListed
      <3>2. \A i : <<p, i>>[1] = p
        OBVIOUS
      <3> HIDE DEF p
      <3> QED BY <2>6, <3>1, <3>2 DEF GivenFrom
    <2> QED BY <1>3, <2>3, <2>5, <2>6, <2>7
  <1>4. CASE ~ MustGrow(c)
    <2> DEFINE k == WorkList(c)
    <2>1. k \in Kind /\ lists[c][k] # <<>> /\ lists[c][k] \in Seq(Page)
      BY <1>1, <1>4 DEF WorkList, MustGrow, Kind, Family
    <2>2. p = Head(lists[c][k]) /\ p \in Range(lists[c][k]) /\ p \in Page
      BY <1>4, <2>1, RotateElements DEF WorkPage
    <2> HIDE DEF p, k
    <2>3. Filed(c, p)
      BY <2>1, <2>2 DEF Filed
    <2>4. WorkSlab(c) = slab[p]
      BY <1>4 DEF WorkSlab, p
    <2>5. slab[p].cache = c /\ Sound(slab[p], size[c], GivenFrom(c, p))
      BY <1>1, <2>2, <2>3 DEF CacheKept
    <2>6. \A d \in Live : Filed(d, p) => d = c
      BY <2>2, <2>3 DEF IInv, PagesKept
    <2> QED BY <1>1, <1>4, <2>2, <2>3, <2>4, <2>5, <2>6 DEF p
  <1> QED BY <1>3, <1>4

\* The pool after an allocation.
LEMMA TakesPool ==
    ASSUME IInv, NEW c \in Live, Take(c)
    PROVE  /\ free' \in Seq(Page) /\ IsInjective(free')
           /\ \A q : q \in Range(free') <=>
                q \in Range(free) /\ ~ (MustGrow(c) /\ q = WorkPage(c))
           /\ NullPageKept'
  <1>1. free \in Seq(Page) /\ IsInjective(free) /\ free # <<>> /\ Last(free) = NullPage
    BY DEF IInv, TypeOK, PagesKept, NullPageKept
  <1>2. CASE MustGrow(c)
    <2>1. free' = Tail(free) /\ Len(free) > 1 /\ WorkPage(c) = Head(free)
      BY <1>2 DEF Take, PoolAlloc, PoolHasPage, WorkPage, PoolTop
    <2>2. /\ Tail(free) \in Seq(Page) /\ Range(Tail(free)) = Range(free) \ {Head(free)}
          /\ IsInjective(Tail(free)) /\ Tail(free) # <<>> /\ Last(Tail(free)) = Last(free)
      BY <1>1, <2>1, TailElements
    <2> QED BY <1>1, <1>2, <2>1, <2>2 DEF NullPageKept
  <1>3. CASE ~ MustGrow(c)
    <2>1. free' = free
      BY <1>3 DEF Take
    <2> QED BY <1>1, <1>3, <2>1 DEF NullPageKept
  <1> QED BY <1>2, <1>3

\* What an allocation gives is not held yet.
LEMMA TakesObject ==
    ASSUME IInv, NEW c \in Live, Take(c)
    PROVE  /\ Given(c) = <<WorkPage(c), Head(WorkSlab(c).bufctls)>>
           /\ Given(c) \in Object /\ Given(c) \notin held[c] /\ Given(c)[1] = WorkPage(c)
           /\ Head(WorkSlab(c).bufctls) \in 1..Capacity(1)
           /\ Taken(WorkSlab(c)) \in Cell
           /\ Taken(WorkSlab(c)).objects = WorkSlab(c).objects - 1
           /\ Taken(WorkSlab(c)).cache = c
           /\ Sound(Taken(WorkSlab(c)), size[c],
                    GivenFrom(c, WorkPage(c)) \cup {Head(WorkSlab(c).bufctls)})
  <1> PICK p : p = WorkPage(c)
    OBVIOUS
  <1> DEFINE s == WorkSlab(c)
             i == Head(s.bufctls)
             G == GivenFrom(c, p)
             sz == size[c]
  <1>1. sz \in Nat \ {0}
    BY CacheTypes
  <1>2. p \in Page /\ s \in Cell /\ s.cache = c /\ Sound(s, sz, G)
    BY TakesPage
  <1>3. s.bufctls # <<>> /\ Given(c) = <<p, i>>
    BY DEF Take, Given
  <1> HIDE DEF s
  <1>4. /\ i \in 1..Made(sz) /\ i \notin G
        /\ Taken(s) \in Cell /\ Taken(s).objects = s.objects - 1 /\ Taken(s).cache = c
        /\ Sound(Taken(s), sz, G \cup {i})
    BY <1>1, <1>2, <1>3, TakenSound
  <1>5. i \in 1..Capacity(1)
    <2>1. /\ Made(sz) \in Nat /\ Capacity(sz) \in Nat
          /\ Made(sz) <= Capacity(sz) /\ Capacity(sz) <= Capacity(1)
      BY <1>1, Numbers
    <2>2. Capacity(1) \in Nat
      BY Numbers
    <2> HIDE DEF i
    <2> QED BY <1>4, <2>1, <2>2
  <1>6. Given(c) \in Object /\ Given(c)[1] = p
    BY <1>2, <1>3, <1>5 DEF Object
  <1>7. Given(c) \notin held[c]
    BY <1>3, <1>4, <1>5 DEF GivenFrom
  <1> QED BY <1>3, <1>4, <1>5, <1>6, <1>7 DEF s

\* The cache after an allocation.
LEMMA TakesCache ==
    ASSUME IInv, NEW c \in Live, Take(c),
           lists'[c] = ListsAfterTaking(c), size'[c] = size[c]
    PROVE  /\ Given(c) \in Object /\ Given(c) \notin held[c] /\ Given(c)[1] = WorkPage(c)
           /\ slab' \in [Page -> Cell]
           /\ held' \in [Cache -> SUBSET Object] /\ held'[c] = held[c] \cup {Given(c)}
           /\ lists'[c] \in Family(Kind, Page)
           /\ \A q \in Page : Filed(c, q)' <=> Filed(c, q) \/ q = WorkPage(c)
           /\ CacheKept(c)'
  <1> PICK p : p = WorkPage(c)
    OBVIOUS
  <1> DEFINE s == WorkSlab(c)
             i == Head(s.bufctls)
             G == GivenFrom(c, p)
             sz == size[c]
             to == IF s.objects = 1 THEN "full" ELSE "partial"
  <1>1. /\ c \in Cache /\ sz \in Nat \ {0} /\ CacheKept(c)
        /\ lists[c] \in Family(Kind, Page) /\ Apart(lists[c])
        /\ slab \in [Page -> Cell]
    BY CacheTypes
  <1>2. p \in Page /\ s \in Cell /\ Sound(s, sz, G) /\ (MustGrow(c) => ~ Filed(c, p))
    BY TakesPage
  <1>3. /\ slab' = [slab EXCEPT ![p] = Taken(s)]
        /\ held' = [held EXCEPT ![c] = @ \cup {Given(c)}] /\ Given(c) = <<p, i>>
    BY DEF Take, Given
  <1>4. i \in 1..Capacity(1) /\ Taken(s) \in Cell
    BY TakesObject
  <1>5. Taken(s).objects = s.objects - 1 /\ Taken(s).cache = c
    BY TakesObject
  <1>6. Sound(Taken(s), sz, G \cup {i})
    BY TakesObject
  <1>7. Given(c) \in Object /\ Given(c) \notin held[c] /\ Given(c)[1] = p
    BY TakesObject
  <1>8. held' \in [Cache -> SUBSET Object] /\ held'[c] = held[c] \cup {Given(c)}
    <2>1. held \in [Cache -> SUBSET Object]
      BY DEF IInv, TypeOK
    <2> QED BY <1>1, <1>3, <1>7, <2>1
  <1>9. to \in Kind
    BY DEF Kind
  <1>10. OnlyIn(lists'[c], lists[c], p, to)
    BY <1>1, <1>2, <1>9, TakingLists
  <1> HIDE DEF s
  <1>11. slab' \in [Page -> Cell] /\ slab'[p] = Taken(s)
         /\ \A q \in Page : q # p => slab'[q] = slab[q]
    BY <1>1, <1>2, <1>3, <1>4
  <1>12. (to = "full" <=> s.objects - 1 = 0) /\ (to = "free" <=> s.objects - 1 = Capacity(sz))
    <2>1. s.objects \in Nat /\ s.objects <= Capacity(sz) /\ Capacity(sz) \in Nat
      BY <1>1, <1>2, SoundBounds, Numbers DEF Cell
    <2> HIDE DEF sz
    <2> QED BY <2>1
  <1> HIDE DEF i, G, to, sz
  <1>13. GivenFrom(c, p)' = G \cup {i}
    <2>1. \A j : <<p, j>> \in held'[c] <=> <<p, j>> \in held[c] \/ j = i
      BY <1>3, <1>8
    <2>2. \A j : j \in GivenFrom(c, p)' <=> j \in 1..Capacity(1) /\ <<p, j>> \in held'[c]
      BY DEF GivenFrom
    <2>3. \A j : j \in G <=> j \in 1..Capacity(1) /\ <<p, j>> \in held[c]
      BY DEF GivenFrom, G
    <2>4. \A j : j \in GivenFrom(c, p)' <=> j \in G \/ j = i
      BY <1>4, <2>1, <2>2, <2>3
    <2> QED BY <2>4
  <1>14. \A q \in Page : q # p => GivenFrom(c, q)' = GivenFrom(c, q)
    <2>1. \A q, j : q # p => (<<q, j>> \in held'[c] <=> <<q, j>> \in held[c])
      BY <1>3, <1>8
    <2> QED BY <2>1 DEF GivenFrom
  <1>15. slab'[p].cache = c /\ slab'[p].objects = s.objects - 1
    BY <1>5, <1>11
  <1>16. Sound(slab'[p], size[c], GivenFrom(c, p)')
    BY <1>6, <1>11, <1>13 DEF sz
  <1>17. /\ lists'[c] \in Family(Kind, Page)
         /\ \A q : Filed(c, q)' <=> Filed(c, q) \/ q = p
         /\ CacheKept(c)'
    <2>1. \A q \in Page : q # p =>
            slab'[q] = slab[q] /\ GivenFrom(c, q)' = GivenFrom(c, q)
      BY <1>11, <1>14
    <2>2. /\ to = "full" <=> slab'[p].objects = 0
          /\ to = "free" <=> slab'[p].objects = Capacity(size[c])
      BY <1>12, <1>15 DEF sz
    <2> QED BY <1>1, <1>2, <1>9, <1>10, <1>15, <1>16, <2>1, <2>2, ChangedCache
  <1> QED BY <1>7, <1>8, <1>11, <1>17

\* The pages after an allocation, and the making of a cache without slabs.
LEMMA TakesPages ==
    ASSUME IInv, NEW c \in Live, Take(c),
           \A q \in Page : Filed(c, q)' <=> Filed(c, q) \/ q = WorkPage(c),
           \A d \in Live \ {c} : \A q \in Page : Filed(d, q)' <=> Filed(d, q),
           Live \subseteq Live',
           \A d \in Live' \ Live : \A q \in Page : ~ Filed(d, q)'
    PROVE  PagesKept'
  <1> PICK p : p = WorkPage(c)
    OBVIOUS
  <1>1. /\ p \in Page
        /\ IF MustGrow(c) THEN p \in Range(free) ELSE Filed(c, p)
        /\ \A d \in Live : Filed(d, p) => d = c /\ ~ MustGrow(c)
    BY TakesPage
  <1>2. /\ IsInjective(free')
        /\ \A q : q \in Range(free') <=> q \in Range(free) /\ ~ (MustGrow(c) /\ q = p)
    BY TakesPool
  <1>3. /\ \A d, e \in Live : \A q \in Page : Filed(d, q) /\ Filed(e, q) => d = e
        /\ \A d \in Live : \A q \in Range(free) : ~ Filed(d, q)
        /\ \A q \in Page : q \in Reserved <=>
             q \notin Range(free) /\ \A d \in Live : ~ Filed(d, q)
        /\ free \in Seq(Page)
    BY DEF IInv, PagesKept, TypeOK
  <1>4. \A d \in Live' : \A q \in Page : Filed(d, q)' <=>
          d \in Live /\ (Filed(d, q) \/ (d = c /\ q = p))
    OBVIOUS
  <1>5. Range(free) \in SUBSET Page
    BY <1>3, RangeOfSeq
  <1>6. \A d, e \in Live' : \A q \in Page : Filed(d, q)' /\ Filed(e, q)' => d = e
    BY <1>1, <1>3, <1>4
  <1>7. \A d \in Live' : \A q \in Range(free') : ~ Filed(d, q)'
    BY <1>1, <1>2, <1>3, <1>4, <1>5
  <1>8. ASSUME NEW q \in Page
        PROVE  q \in Reserved <=> q \notin Range(free') /\ \A d \in Live' : ~ Filed(d, q)'
    <2>1. (\A d \in Live' : ~ Filed(d, q)') <=> (q # p /\ \A d \in Live : ~ Filed(d, q))
      BY <1>4
    <2>2. p \notin Reserved
      BY <1>1, <1>3
    <2>3. q # p => (q \in Range(free') <=> q \in Range(free))
      BY <1>2
    <2> QED BY <1>3, <2>1, <2>2, <2>3
  <1> QED BY <1>2, <1>6, <1>7, <1>8 DEF PagesKept

\* An object that comes back is one its slab had given out.
LEMMA ReturnsObject ==
    ASSUME IInv, NEW c \in Live, NEW p, NEW i, <<p, i>> \in held[c]
    PROVE  /\ p \in Page /\ i \in 1..Capacity(1) /\ Filed(c, p)
           /\ p \in Range(lists[c]["full"]) <=> slab[p].objects = 0
           /\ p \notin Range(lists[c]["free"])
           /\ slab[p].objects \in Nat /\ slab[p].cache = c
           /\ Returned(slab[p], i) \in Cell
           /\ Sound(Returned(slab[p], i), size[c], GivenFrom(c, p) \ {i})
  <1> DEFINE s == slab[p]
             G == GivenFrom(c, p)
             sz == size[c]
  <1>1. /\ c \in Cache /\ sz \in Nat \ {0} /\ CacheKept(c)
        /\ held[c] \in SUBSET Object /\ slab \in [Page -> Cell]
    BY CacheTypes
  <1>2. p \in Page /\ i \in 1..Capacity(1)
    BY <1>1 DEF Object
  <1>3. Filed(c, p)
    BY <1>1 DEF IInv, CachesListed
  <1>4. /\ s \in Cell /\ s.cache = c /\ Sound(s, sz, G)
        /\ p \in Range(lists[c]["full"]) <=> s.objects = 0
        /\ p \in Range(lists[c]["free"]) <=> s.objects = Capacity(sz)
    BY <1>1, <1>2, <1>3 DEF CacheKept
  <1>5. i \in G
    BY <1>2 DEF GivenFrom
  <1> HIDE DEF s, sz, G
  <1>6. /\ s.objects < Capacity(sz)
        /\ Returned(s, i) \in Cell /\ Sound(Returned(s, i), sz, G \ {i})
    BY <1>1, <1>4, <1>5, ReturnedSound
  <1>7. s.objects \in Nat /\ Capacity(sz) \in Nat
    BY <1>1, <1>4, Numbers DEF Cell
  <1>8. s.objects # Capacity(sz)
    BY <1>6, <1>7
  <1> QED BY <1>2, <1>3, <1>4, <1>6, <1>7, <1>8 DEF s, sz, G

\* The cache after an object of it has come back.
LEMMA ReturnsCache ==
    ASSUME IInv, NEW c \in Live, NEW o \in held[c],
           slab' = [slab EXCEPT ![o[1]] = Returned(@, o[2])],
           lists'[c] = ListsAfterReturning(c, o[1]), size'[c] = size[c],
           held'[c] = held[c] \ {o}
    PROVE  /\ o[1] \in Page /\ Filed(c, o[1])
           /\ slab' \in [Page -> Cell] /\ \A q \in Page : q # o[1] => slab'[q] = slab[q]
           /\ lists'[c] \in Family(Kind, Page)
           /\ \A q : Filed(c, q)' <=> Filed(c, q)
           /\ CacheKept(c)'
  <1>1. /\ c \in Cache /\ size[c] \in Nat \ {0} /\ CacheKept(c)
        /\ lists[c] \in Family(Kind, Page) /\ Apart(lists[c])
        /\ held[c] \in SUBSET Object /\ slab \in [Page -> Cell]
    BY CacheTypes
  <1>2. PICK p \in Page, i \in 1..Capacity(1) : o = <<p, i>>
    BY <1>1 DEF Object
  <1> DEFINE s == slab[p]
             G == GivenFrom(c, p)
             sz == size[c]
             to == IF s.objects + 1 = Capacity(sz) THEN "free" ELSE "partial"
  <1>3. /\ Filed(c, p) /\ s.objects \in Nat /\ s.cache = c
        /\ p \in Range(lists[c]["full"]) <=> s.objects = 0
        /\ p \notin Range(lists[c]["free"])
    BY <1>2, ReturnsObject
  <1>4. /\ Returned(s, i) \in Cell
        /\ Returned(s, i).objects = s.objects + 1 /\ Returned(s, i).cache = c
    <2>1. Returned(s, i) \in Cell
      BY <1>2, ReturnsObject
    <2>2. s \in Cell
      BY <1>1
    <2> HIDE DEF s
    <2>3. Returned(s, i).objects = s.objects + 1 /\ Returned(s, i).cache = s.cache
      BY <2>2 DEF Returned, Cell
    <2> QED BY <1>3, <2>1, <2>3
  <1>5. Sound(Returned(s, i), sz, G \ {i})
    BY <1>2, ReturnsObject
  <1>6. slab' = [slab EXCEPT ![p] = Returned(s, i)] /\ o[1] = p
    BY <1>2
  <1>7. to \in Kind
    BY DEF Kind
  <1>8. OnlyIn(lists'[c], lists[c], p, to)
    <2>1. lists'[c] = ListsAfterReturning(c, p)
      BY <1>2
    <2>2. OnlyIn(ListsAfterReturning(c, p), lists[c], p, to)
      BY <1>1, <1>2, <1>3, <1>7, ReturningLists
    <2> QED BY <2>1, <2>2
  <1> HIDE DEF s
  <1>9. slab' \in [Page -> Cell] /\ slab'[p] = Returned(s, i)
        /\ \A q \in Page : q # p => slab'[q] = slab[q]
    BY <1>1, <1>4, <1>6
  <1>10. (to = "full" <=> s.objects + 1 = 0) /\ (to = "free" <=> s.objects + 1 = Capacity(sz))
    <2> HIDE DEF sz
    <2> QED BY <1>3
  <1> HIDE DEF G, to, sz
  <1>11. GivenFrom(c, p)' = G \ {i}
    <2>1. \A j : <<p, j>> \in held'[c] <=> <<p, j>> \in held[c] /\ j # i
      BY <1>2
    <2>2. \A j : j \in GivenFrom(c, p)' <=> j \in 1..Capacity(1) /\ <<p, j>> \in held'[c]
      BY DEF GivenFrom
    <2>3. \A j : j \in G <=> j \in 1..Capacity(1) /\ <<p, j>> \in held[c]
      BY DEF GivenFrom, G
    <2>4. \A j : j \in GivenFrom(c, p)' <=> j \in G /\ j # i
      BY <2>1, <2>2, <2>3
    <2> QED BY <2>4
  <1>12. \A q \in Page : q # p => GivenFrom(c, q)' = GivenFrom(c, q)
    <2>1. \A q, j : q # p => (<<q, j>> \in held'[c] <=> <<q, j>> \in held[c])
      BY <1>2
    <2> QED BY <2>1 DEF GivenFrom
  <1>13. slab'[p].cache = c /\ slab'[p].objects = s.objects + 1
    BY <1>4, <1>9
  <1>14. Sound(slab'[p], size[c], GivenFrom(c, p)')
    BY <1>5, <1>9, <1>11 DEF sz
  <1>15. /\ lists'[c] \in Family(Kind, Page)
         /\ \A q : Filed(c, q)' <=> Filed(c, q) \/ q = p
         /\ CacheKept(c)'
    <2>1. \A q \in Page : q # p =>
            slab'[q] = slab[q] /\ GivenFrom(c, q)' = GivenFrom(c, q)
      BY <1>9, <1>12
    <2>2. /\ to = "full" <=> slab'[p].objects = 0
          /\ to = "free" <=> slab'[p].objects = Capacity(size[c])
      BY <1>10, <1>13 DEF sz
    <2> QED BY <1>1, <1>2, <1>7, <1>8, <1>13, <1>14, <2>1, <2>2, ChangedCache
  <1> QED BY <1>2, <1>3, <1>6, <1>9, <1>15

-----------------------------------------------------------------------------
(* The steps                                                               *)

LEMMA AllocStep ==
    ASSUME IInv, NEW c \in Live, Alloc(c)
    PROVE  IInv'
  <1>1. /\ c # CacheCache /\ Take(c) /\ lists' = [lists EXCEPT ![c] = ListsAfterTaking(c)]
        /\ size' = size /\ cacheList' = cacheList /\ fault' = fault
    BY DEF Alloc, Take
  <1>2. TypeOK /\ CachesListed /\ FitNeverFaults
    BY DEF IInv
  <1>3. c \in Cache /\ Live \subseteq Cache
    BY <1>2, RangeOfSeq DEF Live, TypeOK
  <1>4. lists'[c] = ListsAfterTaking(c)
    BY <1>1, <1>2, <1>3 DEF TypeOK
  <1>5. /\ Given(c) \in Object /\ Given(c)[1] = WorkPage(c)
        /\ slab' \in [Page -> Cell]
        /\ held' \in [Cache -> SUBSET Object] /\ held'[c] = held[c] \cup {Given(c)}
        /\ lists'[c] \in Family(Kind, Page)
        /\ \A q \in Page : Filed(c, q)' <=> Filed(c, q) \/ q = WorkPage(c)
        /\ CacheKept(c)'
    BY <1>1, <1>4, TakesCache
  <1>6. free' \in Seq(Page) /\ NullPageKept'
    BY <1>1, TakesPool
  <1>7. WorkPage(c) \in Page /\ \A d \in Live : Filed(d, WorkPage(c)) => d = c
    BY <1>1, TakesPage
  <1>8. \A d \in Cache \ {c} : lists'[d] = lists[d] /\ size'[d] = size[d] /\ held'[d] = held[d]
    BY <1>1, <1>2 DEF Take, TypeOK
  <1>9. \A d \in Cache \ {c} : \A q : Filed(d, q)' <=> Filed(d, q)
    BY <1>8 DEF Filed
  <1>10. ASSUME NEW d \in Live \ {c} PROVE CacheKept(d)'
    <2>1. \A p \in Page : p # WorkPage(c) => slab'[p] = slab[p]
      BY <1>1, <1>2 DEF Take, TypeOK
    <2>2. \A p \in Page : Filed(d, p) => slab'[p] = slab[p]
      BY <1>7, <1>10, <2>1
    <2>3. CacheKept(d)
      BY DEF IInv
    <2> QED BY <1>3, <1>8, <1>10, <2>2, <2>3, SameCache
  <1>11. Live' = Live
    BY <1>1 DEF Live
  <1>12. TypeOK'
    <2>1. lists' \in [Cache -> [Kind -> Seq(Page)]]
      BY <1>1, <1>2, <1>3, <1>4, <1>5 DEF TypeOK, Family
    <2> QED BY <1>1, <1>2, <1>5, <1>6, <2>1 DEF TypeOK
  <1>13. CachesListed'
    <2>1. IsInjective(cacheList)' /\ CacheCache \in Live'
      BY <1>1, <1>2, <1>11 DEF CachesListed
    <2>2. held'[CacheCache] = held[CacheCache]
      BY <1>1, <1>2, <1>3, <1>8 DEF CachesListed
    <2>3. \A d \in Cache \ {CacheCache} : d \in Live' <=> d \in held'[CacheCache]
      BY <1>2, <1>11, <2>2 DEF CachesListed
    <2>4. ASSUME NEW d \in Cache, NEW o \in held'[d]
          PROVE  d \in Live' /\ Filed(d, o[1])'
      <3>1. CASE o \in held[d]
        <4>1. d \in Live /\ Filed(d, o[1])
          BY <1>2, <3>1 DEF CachesListed
        <4>2. CASE d = c
          <5>1. o[1] \in Page
            BY <1>2, <3>1 DEF TypeOK, Object
          <5> QED BY <1>5, <1>11, <4>1, <4>2, <5>1
        <4>3. CASE d # c
          BY <1>9, <1>11, <4>1, <4>3
        <4> QED BY <4>2, <4>3
      <3>2. CASE o \notin held[d]
        <4>1. d = c /\ o = Given(c)
          BY <1>5, <1>8, <2>4, <3>2
        <4> QED BY <1>5, <1>7, <1>11, <4>1
      <3> QED BY <3>1, <3>2
    <2> QED BY <2>1, <2>3, <2>4 DEF CachesListed
  <1>14. PagesKept'
    BY <1>1, <1>3, <1>5, <1>9, <1>11, TakesPages
  <1>15. FitNeverFaults'
    BY <1>1, <1>2 DEF FitNeverFaults, Fits, Made, Capacity
  <1>16. \A d \in Live' : CacheKept(d)'
    BY <1>5, <1>10, <1>11
  <1> QED BY <1>6, <1>12, <1>13, <1>14, <1>15, <1>16 DEF IInv

\* An allocation faults only in a cache whose size does not fit a page.
LEMMA AllocFaultsStep ==
    ASSUME IInv, NEW c \in Live, AllocFaults(c)
    PROVE  IInv'
  <1>1. /\ MustGrow(c) => PoolHasPage
        /\ WorkSlab(c).bufctls = <<>> /\ fault' = size[c]
        /\ free' = free /\ slab' = slab /\ lists' = lists /\ size' = size
        /\ cacheList' = cacheList /\ held' = held
    BY DEF AllocFaults, slabVars
  <1>2. /\ c \in Cache /\ size[c] \in Nat \ {0} /\ CacheKept(c)
        /\ lists[c] \in Family(Kind, Page) /\ Apart(lists[c])
    BY CacheTypes
  <1>3. ~ Fits(size[c])
    <2>1. CASE MustGrow(c)
      <3>1. Grown(c).bufctls = <<>>
        BY <1>1, <2>1 DEF WorkSlab
      <3> QED BY <1>2, <3>1, GrownSound
    <2>2. CASE ~ MustGrow(c)
      <3> DEFINE k == WorkList(c)
                 q == lists[c][k]
                 p == WorkPage(c)
                 s == slab[p]
      <3>1. k \in Kind /\ q # <<>> /\ q \in Seq(Page) /\ k # "full"
        BY <1>2, <2>2 DEF WorkList, MustGrow, Kind, Family
      <3>2. p = Head(q)
        BY <2>2 DEF WorkPage
      <3> HIDE DEF q
      <3>3. p \in Range(q) /\ p \in Page
        BY <3>1, <3>2, RotateElements
      <3> HIDE DEF p, k
      <3>4. Filed(c, p) /\ p \notin Range(lists[c]["full"])
        <4>1. DOMAIN lists[c] = Kind /\ "full" \in Kind
          BY <1>2 DEF Family, Kind
        <4> QED BY <1>2, <3>1, <3>3, <4>1 DEF Filed, Apart, q
      <3>5. Sound(s, size[c], GivenFrom(c, p)) /\ s.objects # 0
        BY <1>2, <3>3, <3>4 DEF CacheKept
      <3>6. s.bufctls = <<>>
        BY <1>1, <2>2 DEF WorkSlab, p
      <3> HIDE DEF s
      <3>7. s.objects = 0 + (Capacity(size[c]) - Made(size[c]))
        BY <3>5, <3>6 DEF Sound
      <3>8. Capacity(size[c]) \in Nat /\ Made(size[c]) \in Nat
        BY <1>2, Numbers
      <3> QED BY <3>5, <3>7, <3>8 DEF Fits
    <2> QED BY <2>1, <2>2
  <1>4. FitNeverFaults'
    BY <1>1, <1>3 DEF FitNeverFaults, Fits, Made, Capacity
  <1>5. TypeOK'
    BY <1>1, <1>2 DEF IInv, TypeOK
  <1>6. Live' = Live
    BY <1>1 DEF Live
  <1>7. \A d, p : (Filed(d, p)' <=> Filed(d, p)) /\ GivenFrom(d, p)' = GivenFrom(d, p)
    BY <1>1 DEF Filed, GivenFrom
  <1>8. CachesListed'
    BY <1>1, <1>6, <1>7 DEF IInv, CachesListed
  <1>9. \A d \in Live' : CacheKept(d)'
    BY <1>1, <1>6, <1>7 DEF IInv, CacheKept
  <1>10. PagesKept' /\ NullPageKept'
    BY <1>1, <1>6, <1>7 DEF IInv, PagesKept, NullPageKept
  <1> QED BY <1>4, <1>5, <1>8, <1>9, <1>10 DEF IInv

LEMMA FreeStep ==
    ASSUME IInv, NEW c \in Live, NEW o \in UNION {held[d] : d \in Live}, Free(c, o)
    PROVE  IInv'
  <1>1. /\ c # CacheCache /\ slab[o[1]].cache = c
        /\ slab' = [slab EXCEPT ![o[1]] = Returned(@, o[2])]
        /\ lists' = [lists EXCEPT ![c] = ListsAfterReturning(c, o[1])]
        /\ held' = [held EXCEPT ![c] = @ \ {o}]
        /\ free' = free /\ size' = size /\ cacheList' = cacheList /\ fault' = fault
    BY DEF Free
  <1>2. TypeOK /\ CachesListed /\ FitNeverFaults /\ PagesKept /\ NullPageKept
    BY DEF IInv
  <1>3. c \in Cache /\ Live \subseteq Cache
    BY <1>2, RangeOfSeq DEF Live, TypeOK
  <1>4. o \in held[c]
    <2>1. PICK d \in Live : o \in held[d]
      OBVIOUS
    <2>2. d \in Cache /\ o[1] \in Page
      BY <1>2, <1>3, <2>1 DEF TypeOK, Object
    <2>3. Filed(d, o[1])
      BY <1>2, <2>1, <2>2 DEF CachesListed
    <2>4. slab[o[1]].cache = d
      BY <2>2, <2>3 DEF IInv, CacheKept
    <2> QED BY <1>1, <2>1, <2>4
  <1>5. /\ lists'[c] = ListsAfterReturning(c, o[1]) /\ size'[c] = size[c]
        /\ held'[c] = held[c] \ {o}
    BY <1>1, <1>2, <1>3 DEF TypeOK
  <1>6. /\ o[1] \in Page /\ Filed(c, o[1])
        /\ slab' \in [Page -> Cell] /\ \A q \in Page : q # o[1] => slab'[q] = slab[q]
        /\ lists'[c] \in Family(Kind, Page)
        /\ \A q : Filed(c, q)' <=> Filed(c, q)
        /\ CacheKept(c)'
    BY <1>1, <1>4, <1>5, ReturnsCache
  <1>7. \A d \in Cache \ {c} : lists'[d] = lists[d] /\ size'[d] = size[d] /\ held'[d] = held[d]
    BY <1>1, <1>2 DEF TypeOK
  <1>8. \A d \in Cache : \A q : Filed(d, q)' <=> Filed(d, q)
    BY <1>6, <1>7 DEF Filed
  <1>9. ASSUME NEW d \in Live \ {c} PROVE CacheKept(d)'
    <2>1. ~ Filed(d, o[1])
      BY <1>2, <1>6, <1>9 DEF PagesKept
    <2>2. \A p \in Page : Filed(d, p) => slab'[p] = slab[p]
      BY <1>6, <2>1
    <2>3. CacheKept(d)
      BY DEF IInv
    <2> QED BY <1>3, <1>7, <1>9, <2>2, <2>3, SameCache
  <1>10. Live' = Live
    BY <1>1 DEF Live
  <1>11. TypeOK'
    <2>1. lists' \in [Cache -> [Kind -> Seq(Page)]]
      BY <1>1, <1>2, <1>3, <1>5, <1>6 DEF TypeOK, Family
    <2>2. held' \in [Cache -> SUBSET Object]
      BY <1>1, <1>2, <1>3 DEF TypeOK
    <2> QED BY <1>1, <1>2, <1>6, <2>1, <2>2 DEF TypeOK
  <1>12. CachesListed'
    <2>1. held'[CacheCache] = held[CacheCache]
      BY <1>1, <1>2, <1>3, <1>7 DEF CachesListed
    <2>2. \A d \in Cache : held'[d] \subseteq held[d]
      BY <1>5, <1>7
    <2> QED BY <1>1, <1>2, <1>8, <1>10, <2>1, <2>2 DEF CachesListed
  <1>13. PagesKept'
    BY <1>1, <1>2, <1>3, <1>8, <1>10 DEF PagesKept
  <1>14. FitNeverFaults' /\ NullPageKept'
    BY <1>1, <1>2 DEF FitNeverFaults, Fits, Made, Capacity, NullPageKept
  <1>15. \A d \in Live' : CacheKept(d)'
    BY <1>6, <1>9, <1>10
  <1> QED BY <1>11, <1>12, <1>13, <1>14, <1>15 DEF IInv

LEMMA CreateStep ==
    ASSUME IInv, NEW s \in Sizes, Create(s)
    PROVE  IInv'
  <1> DEFINE cc == CacheCache
  <1> PICK n : n = Given(cc)
    OBVIOUS
  <1>1. /\ Take(cc)
        /\ lists' = [lists EXCEPT ![cc] = ListsAfterTaking(cc), ![n] = NoSlabs]
        /\ size' = [size EXCEPT ![n] = s]
        /\ cacheList' = Append(cacheList, n) /\ fault' = fault
        /\ slab' = [slab EXCEPT ![WorkPage(cc)] = Taken(WorkSlab(cc))]
        /\ held' = [held EXCEPT ![cc] = @ \cup {n}]
    BY DEF Create, Take
  <1> HIDE DEF cc
  <1>2. TypeOK /\ CachesListed /\ FitNeverFaults /\ PagesKept
    BY DEF IInv
  <1>3. /\ cc \in Live /\ cc \in Cache /\ Live \subseteq Cache /\ s \in Nat \ {0}
        /\ \A d \in Cache \ {cc} : d \in Live <=> d \in held[cc]
    BY <1>2, SlabAssumption, RangeOfSeq DEF Live, TypeOK, CachesListed, cc
  <1>4. n \in Object /\ n \notin held[cc] /\ n[1] = WorkPage(cc)
    BY <1>1, <1>3, TakesObject
  <1>5. n \in Cache /\ n # cc
    <2>1. cc \notin Page \X Nat
      BY SlabAssumption DEF cc
    <2>2. cc \notin Page \X (1..Capacity(1))
      BY <2>1
    <2> QED BY <1>4, <2>2 DEF Object, Cache
  <1>6. n \notin Live
    BY <1>3, <1>4, <1>5
  <1>7. lists'[cc] = ListsAfterTaking(cc) /\ size'[cc] = size[cc] /\ lists'[n] = NoSlabs
        /\ size'[n] = s /\ held'[n] = held[n]
    BY <1>1, <1>2, <1>3, <1>5 DEF TypeOK
  <1>8. /\ slab' \in [Page -> Cell]
        /\ held' \in [Cache -> SUBSET Object] /\ held'[cc] = held[cc] \cup {n}
        /\ lists'[cc] \in Family(Kind, Page)
        /\ \A q \in Page : Filed(cc, q)' <=> Filed(cc, q) \/ q = WorkPage(cc)
        /\ CacheKept(cc)'
    <2> PICK c \in Live : c = cc
      BY <1>3
    <2>1. Take(c) /\ lists'[c] = ListsAfterTaking(c) /\ size'[c] = size[c] /\ n = Given(c)
      BY <1>1, <1>7 DEF cc
    <2>2. /\ slab' \in [Page -> Cell]
          /\ held' \in [Cache -> SUBSET Object] /\ held'[c] = held[c] \cup {Given(c)}
          /\ lists'[c] \in Family(Kind, Page)
          /\ \A q \in Page : Filed(c, q)' <=> Filed(c, q) \/ q = WorkPage(c)
          /\ CacheKept(c)'
      BY <2>1, TakesCache
    <2> QED BY <2>1, <2>2 DEF cc
  <1>9. free' \in Seq(Page) /\ NullPageKept'
    BY <1>1, <1>3, TakesPool
  <1>10. WorkPage(cc) \in Page /\ \A d \in Live : Filed(d, WorkPage(cc)) => d = cc
    BY <1>1, <1>3, TakesPage
  <1>11. \A d \in Cache \ {cc, n} :
           lists'[d] = lists[d] /\ size'[d] = size[d] /\ held'[d] = held[d]
    BY <1>1, <1>2 DEF TypeOK
  <1>12. \A d \in Cache \ {cc, n} : \A q : Filed(d, q)' <=> Filed(d, q)
    BY <1>11 DEF Filed
  <1>13. /\ cacheList' \in Seq(Cache) /\ IsInjective(cacheList')
         /\ Live' = Live \cup {n}
    <2>1. n \notin Range(cacheList) /\ cacheList \in Seq(Cache) /\ IsInjective(cacheList)
      BY <1>2, <1>6 DEF Live, TypeOK, CachesListed
    <2>2. /\ cacheList' \in Seq(Cache) /\ Range(cacheList') = Range(cacheList) \cup {n}
          /\ IsInjective(cacheList')
      BY <1>1, <1>5, <2>1, AppendElements
    <2> QED BY <2>2 DEF Live
  <1>14. ASSUME NEW d \in Live \ {cc} PROVE CacheKept(d)'
    <2>1. \A p \in Page : p # WorkPage(cc) => slab'[p] = slab[p]
      BY <1>1, <1>2 DEF TypeOK
    <2>2. \A p \in Page : Filed(d, p) => slab'[p] = slab[p]
      BY <1>10, <1>14, <2>1
    <2>3. CacheKept(d) /\ d \in Cache \ {cc, n}
      BY <1>3, <1>6 DEF IInv
    <2> QED BY <1>11, <2>2, <2>3, SameCache
  <1>15. \A q : ~ Filed(n, q)'
    BY <1>7, NoSlabsApart DEF Filed
  <1>16. CacheKept(n)'
    <2>1. Apart(lists'[n]) /\ size'[n] > 0
      BY <1>3, <1>7, NoSlabsApart
    <2> QED BY <1>15, <2>1 DEF CacheKept
  <1>17. TypeOK'
    <2>1. lists' \in [Cache -> [Kind -> Seq(Page)]]
      <3>1. ListsAfterTaking(cc) \in [Kind -> Seq(Page)] /\ NoSlabs \in [Kind -> Seq(Page)]
        BY <1>7, <1>8, NoSlabsApart DEF Family
      <3> QED BY <1>1, <1>2, <3>1 DEF TypeOK
    <2>2. size' \in [Cache -> Nat]
      BY <1>1, <1>2, <1>3 DEF TypeOK
    <2> QED BY <1>1, <1>2, <1>8, <1>9, <1>13, <2>1, <2>2 DEF TypeOK
  <1>18. CachesListed'
    <2>1. IsInjective(cacheList)' /\ CacheCache \in Live'
      BY <1>3, <1>13 DEF cc
    <2>2. \A d \in Cache \ {CacheCache} : d \in Live' <=> d \in held'[CacheCache]
      BY <1>3, <1>8, <1>13 DEF cc
    <2>3. ASSUME NEW d \in Cache, NEW o \in held'[d]
          PROVE  d \in Live' /\ Filed(d, o[1])'
      <3>1. CASE o \in held[d]
        <4>1. d \in Live /\ Filed(d, o[1])
          BY <1>2, <3>1 DEF CachesListed
        <4>2. CASE d = cc
          <5>1. o[1] \in Page
            BY <1>2, <3>1 DEF TypeOK, Object
          <5> QED BY <1>8, <1>13, <4>1, <4>2, <5>1
        <4>3. CASE d # cc
          BY <1>6, <1>12, <1>13, <4>1, <4>3
        <4> QED BY <4>2, <4>3
      <3>2. CASE o \notin held[d]
        <4>1. d = cc /\ o = n
          BY <1>7, <1>8, <1>11, <2>3, <3>2
        <4> QED BY <1>3, <1>4, <1>8, <1>10, <1>13, <4>1
      <3> QED BY <3>1, <3>2
    <2> QED BY <2>1, <2>2, <2>3 DEF CachesListed
  <1>19. PagesKept'
    <2>1. \A d \in Live \ {cc} : \A q \in Page : Filed(d, q)' <=> Filed(d, q)
      BY <1>3, <1>6, <1>12
    <2> QED BY <1>1, <1>3, <1>8, <1>13, <1>15, <2>1, TakesPages
  <1>20. FitNeverFaults'
    BY <1>1, <1>2 DEF FitNeverFaults, Fits, Made, Capacity
  <1>21. \A d \in Live' : CacheKept(d)'
    BY <1>8, <1>13, <1>14, <1>16
  <1> QED BY <1>9, <1>17, <1>18, <1>19, <1>20, <1>21 DEF IInv

\* A cache whose slabs are all in its list of free ones has given nothing out.
LEMMA NothingGiven ==
    ASSUME IInv, NEW c \in Live, lists[c].partial = <<>>, lists[c].full = <<>>
    PROVE  /\ held[c] = {}
           /\ \A q : Filed(c, q) <=> q \in Range(lists[c].free)
  <1>1. /\ c \in Cache /\ size[c] \in Nat \ {0} /\ CacheKept(c)
        /\ lists[c] \in Family(Kind, Page) /\ held[c] \in SUBSET Object
    BY CacheTypes
  <1>2. Range(<<>>) = {}
    BY DEF Range
  <1>3. \A q : Filed(c, q) <=> q \in Range(lists[c]["free"])
    BY <1>2 DEF Filed, Kind
  <1>4. ASSUME NEW o \in held[c] PROVE FALSE
    <2>1. PICK p \in Page, i \in 1..Capacity(1) : o = <<p, i>>
      BY <1>1 DEF Object
    <2>2. Filed(c, p)
      BY <1>1, <1>4, <2>1 DEF IInv, CachesListed
    <2>3. slab[p].objects = Capacity(size[c]) /\ Sound(slab[p], size[c], GivenFrom(c, p))
      BY <1>1, <1>3, <2>2 DEF CacheKept
    <2>4. GivenFrom(c, p) = {}
      BY <1>1, <2>3, SoundBounds
    <2> QED BY <2>1, <2>4 DEF GivenFrom
  <1> QED BY <1>3, <1>4

LEMMA DestroyStep ==
    ASSUME IInv, NEW c \in Live, Destroy(c)
    PROVE  IInv'
  <1> DEFINE cc == CacheCache
             fs == lists[c].free
  <1>1. /\ c # cc /\ lists[c].partial = <<>> /\ lists[c].full = <<>>
        /\ free' = Reverse(fs) \o free
        /\ slab' = [slab EXCEPT ![c[1]] = Returned(@, c[2])]
        /\ lists' = [lists EXCEPT ![c] = NoSlabs, ![cc] = ListsAfterReturning(cc, c[1])]
        /\ size' = [size EXCEPT ![c] = 0]
        /\ cacheList' = Without(cacheList, c)
        /\ held' = [held EXCEPT ![cc] = @ \ {c}]
        /\ fault' = fault
    BY DEF Destroy, PoolFree, Empty
  <1>2. TypeOK /\ CachesListed /\ FitNeverFaults /\ PagesKept /\ NullPageKept
    BY DEF IInv
  <1>3. c \in Cache /\ lists[c] \in Family(Kind, Page) /\ Apart(lists[c])
    BY CacheTypes
  <1>4. held[c] = {} /\ \A q : Filed(c, q) <=> q \in Range(fs)
    BY <1>1, NothingGiven
  <1> HIDE DEF cc
  <1>5. /\ cc \in Live /\ cc \in Cache /\ Live \subseteq Cache
        /\ \A d \in Cache \ {cc} : d \in Live <=> d \in held[cc]
    BY <1>2, RangeOfSeq DEF Live, TypeOK, CachesListed, cc
  <1>6. c \in held[cc]
    BY <1>1, <1>3, <1>5
  <1>7. /\ lists'[cc] = ListsAfterReturning(cc, c[1]) /\ size'[cc] = size[cc]
        /\ held'[cc] = held[cc] \ {c} /\ held'[c] = held[c] /\ lists'[c] = NoSlabs
    BY <1>1, <1>2, <1>3, <1>5 DEF TypeOK
  <1>8. /\ c[1] \in Page /\ Filed(cc, c[1])
        /\ slab' \in [Page -> Cell] /\ \A q \in Page : q # c[1] => slab'[q] = slab[q]
        /\ lists'[cc] \in Family(Kind, Page)
        /\ \A q : Filed(cc, q)' <=> Filed(cc, q)
        /\ CacheKept(cc)'
    <2> PICK d \in Live : d = cc
      BY <1>5
    <2> PICK o \in held[d] : o = c
      BY <1>6
    <2>1. /\ slab' = [slab EXCEPT ![o[1]] = Returned(@, o[2])]
          /\ lists'[d] = ListsAfterReturning(d, o[1]) /\ size'[d] = size[d]
          /\ held'[d] = held[d] \ {o}
      BY <1>1, <1>7
    <2>2. /\ o[1] \in Page /\ Filed(d, o[1])
          /\ slab' \in [Page -> Cell] /\ \A q \in Page : q # o[1] => slab'[q] = slab[q]
          /\ lists'[d] \in Family(Kind, Page)
          /\ \A q : Filed(d, q)' <=> Filed(d, q)
          /\ CacheKept(d)'
      BY <2>1, ReturnsCache
    <2> QED BY <2>2 DEF cc
  <1>9. \A d \in Cache \ {cc, c} :
          lists'[d] = lists[d] /\ size'[d] = size[d] /\ held'[d] = held[d]
    BY <1>1, <1>2 DEF TypeOK
  <1>10. \A d \in Cache \ {c} : \A q : Filed(d, q)' <=> Filed(d, q)
    BY <1>8, <1>9 DEF Filed
  <1>11. \A q : ~ Filed(c, q)'
    BY <1>7, NoSlabsApart DEF Filed
  <1>12. /\ cacheList' \in Seq(Cache) /\ IsInjective(cacheList')
         /\ Live' = Live \ {c}
    BY <1>1, <1>2, WithoutElements DEF Live, TypeOK, CachesListed
  <1>13. fs \in Seq(Page) /\ IsInjective(fs)
    <2>1. DOMAIN lists[c] = Kind /\ "free" \in Kind /\ lists[c]["free"] \in Seq(Page)
      BY <1>3 DEF Family, Kind
    <2> QED BY <1>3, <2>1 DEF Apart
  <1> HIDE DEF fs
  <1>14. /\ free' \in Seq(Page) /\ IsInjective(free')
         /\ \A q : q \in Range(free') <=> q \in Range(fs) \/ q \in Range(free)
         /\ NullPageKept'
    <2>1. free \in Seq(Page) /\ IsInjective(free) /\ free # <<>> /\ Last(free) = NullPage
          /\ Range(free) \in SUBSET Page
      BY <1>2, RangeOfSeq DEF TypeOK, PagesKept, NullPageKept
    <2>2. Range(fs) \cap Range(free) = {}
      BY <1>2, <1>4 DEF PagesKept
    <2> DEFINE rs == Reverse(fs)
               qs == rs \o free
    <2>3. rs \in Seq(Page) /\ Range(rs) = Range(fs) /\ IsInjective(rs)
      BY <1>13, ReverseElements
    <2>4. free' = qs
      BY <1>1
    <2> HIDE DEF rs
    <2>5. /\ qs \in Seq(Page) /\ Range(qs) = Range(rs) \cup Range(free)
          /\ IsInjective(qs) /\ qs # <<>> /\ Last(qs) = Last(free)
      BY <2>1, <2>2, <2>3, ConcatElements
    <2> HIDE DEF qs
    <2> QED BY <2>1, <2>3, <2>4, <2>5 DEF NullPageKept
  <1>15. ASSUME NEW d \in Live \ {cc, c} PROVE CacheKept(d)'
    <2>1. ~ Filed(d, c[1])
      BY <1>2, <1>5, <1>8, <1>15 DEF PagesKept
    <2>2. \A p \in Page : Filed(d, p) => slab'[p] = slab[p]
      BY <1>8, <2>1
    <2>3. CacheKept(d) /\ d \in Cache \ {cc, c}
      BY <1>5 DEF IInv
    <2> QED BY <1>9, <2>2, <2>3, SameCache
  <1>16. TypeOK'
    <2>1. lists' \in [Cache -> [Kind -> Seq(Page)]]
      <3>1. ListsAfterReturning(cc, c[1]) \in [Kind -> Seq(Page)]
            /\ NoSlabs \in [Kind -> Seq(Page)]
        BY <1>7, <1>8, NoSlabsApart DEF Family
      <3> QED BY <1>1, <1>2, <3>1 DEF TypeOK
    <2>2. size' \in [Cache -> Nat] /\ held' \in [Cache -> SUBSET Object]
      BY <1>1, <1>2, <1>5 DEF TypeOK
    <2> QED BY <1>1, <1>2, <1>8, <1>12, <1>14, <2>1, <2>2 DEF TypeOK
  <1>17. CachesListed'
    <2>1. IsInjective(cacheList)' /\ CacheCache \in Live'
      BY <1>1, <1>5, <1>12 DEF cc
    <2>2. \A d \in Cache \ {CacheCache} : d \in Live' <=> d \in held'[CacheCache]
      BY <1>5, <1>7, <1>12 DEF cc
    <2>3. ASSUME NEW d \in Cache, NEW o \in held'[d]
          PROVE  d \in Live' /\ Filed(d, o[1])'
      <3>1. o \in held[d] /\ d # c
        BY <1>4, <1>7, <1>9, <2>3
      <3>2. d \in Live /\ Filed(d, o[1])
        BY <1>2, <3>1 DEF CachesListed
      <3> QED BY <1>10, <1>12, <3>1, <3>2
    <2> QED BY <2>1, <2>2, <2>3 DEF CachesListed
  <1>18. PagesKept'
    <2>1. \A d \in Live' : d \in Live /\ d # c /\ \A q : Filed(d, q)' <=> Filed(d, q)
      BY <1>5, <1>10, <1>12
    <2>2. \A d, e \in Live : \A q \in Page : Filed(d, q) /\ Filed(e, q) => d = e
      BY <1>2 DEF PagesKept
    <2>3. \A d, e \in Live' : \A q \in Page : Filed(d, q)' /\ Filed(e, q)' => d = e
      BY <2>1, <2>2
    <2>4. ASSUME NEW d \in Live', NEW q \in Range(free') PROVE ~ Filed(d, q)'
      <3>1. q \in Page
        BY <1>14, RangeOfSeq
      <3>2. CASE q \in Range(fs)
        BY <1>4, <2>1, <2>2, <3>1, <3>2
      <3>3. CASE q \in Range(free)
        BY <1>2, <2>1, <3>3 DEF PagesKept
      <3> QED BY <1>14, <3>2, <3>3
    <2>5. ASSUME NEW q \in Page
          PROVE  q \in Reserved <=> q \notin Range(free') /\ \A d \in Live' : ~ Filed(d, q)'
      <3>1. q \in Reserved <=> q \notin Range(free) /\ \A d \in Live : ~ Filed(d, q)
        BY <1>2 DEF PagesKept
      <3>2. (\A d \in Live : ~ Filed(d, q)) <=>
            q \notin Range(fs) /\ \A d \in Live' : ~ Filed(d, q)'
        BY <1>4, <1>12, <2>1
      <3> QED BY <1>14, <3>1, <3>2
    <2> QED BY <1>14, <2>3, <2>4, <2>5 DEF PagesKept
  <1>19. FitNeverFaults'
    BY <1>1, <1>2 DEF FitNeverFaults, Fits, Made, Capacity
  <1>20. \A d \in Live' : CacheKept(d)'
    BY <1>8, <1>12, <1>15
  <1> QED BY <1>14, <1>16, <1>17, <1>18, <1>19, <1>20 DEF IInv

LEMMA StepIInv == IInv /\ [Next]_vars => IInv'
  <1> SUFFICES ASSUME IInv, [Next]_vars PROVE IInv'
    OBVIOUS
  <1>1. ASSUME NEW s \in Sizes, Create(s) PROVE IInv'
    BY <1>1, CreateStep
  <1>2. ASSUME UNCHANGED vars PROVE IInv'
    <2>1. /\ free' = free /\ slab' = slab /\ lists' = lists /\ size' = size
          /\ cacheList' = cacheList /\ held' = held /\ fault' = fault
      BY <1>2 DEF vars
    <2>2. Live' = Live
      BY <2>1 DEF Live
    <2>3. \A d, p : (Filed(d, p)' <=> Filed(d, p)) /\ GivenFrom(d, p)' = GivenFrom(d, p)
      BY <2>1 DEF Filed, GivenFrom
    <2>4. TypeOK' /\ CachesListed'
      BY <2>1, <2>2, <2>3 DEF IInv, TypeOK, CachesListed
    <2>5. \A d \in Live' : CacheKept(d)'
      BY <2>1, <2>2, <2>3 DEF IInv, CacheKept
    <2>6. PagesKept' /\ NullPageKept' /\ FitNeverFaults'
      BY <2>1, <2>2, <2>3 DEF IInv, PagesKept, NullPageKept, FitNeverFaults, Fits, Made, Capacity
    <2> QED BY <2>4, <2>5, <2>6 DEF IInv
  <1>3. ASSUME NEW c \in Live, Alloc(c) PROVE IInv'
    BY <1>3, AllocStep
  <1>4. ASSUME NEW c \in Live, AllocFails(c) PROVE IInv'
    BY <1>2, <1>4 DEF AllocFails
  <1>5. ASSUME NEW c \in Live, AllocFaults(c) PROVE IInv'
    BY <1>5, AllocFaultsStep
  <1>6. ASSUME NEW c \in Live, NEW o \in UNION {held[d] : d \in Live}, Free(c, o)
        PROVE  IInv'
    BY <1>6, FreeStep
  <1>7. ASSUME NEW c \in Live, NEW o, FreeRefused(c, o) PROVE IInv'
    BY <1>2, <1>7 DEF FreeRefused
  <1>8. ASSUME NEW c \in Live, Destroy(c) PROVE IInv'
    BY <1>8, DestroyStep
  <1>9. ASSUME NEW c \in Live, DestroyRefused(c) PROVE IInv'
    BY <1>2, <1>9 DEF DestroyRefused
  <1> QED BY <1>1, <1>2, <1>3, <1>4, <1>5, <1>6, <1>7, <1>8, <1>9 DEF Next

-----------------------------------------------------------------------------
(* The properties                                                          *)

LEMMA SlabsOfFiled ==
    ASSUME IInv, NEW c \in Live
    PROVE  /\ \A p : p \in SlabsOf(c) <=> Filed(c, p)
           /\ \A p : Filed(c, p) => p \in Page
           /\ IsInjective(lists[c].free \o lists[c].partial \o lists[c].full)
  <1> DEFINE a == lists[c].free
             b == lists[c].partial
             d == lists[c].full
  <1>1. lists[c] \in Family(Kind, Page) /\ Apart(lists[c])
    BY CacheTypes
  <1>2. /\ DOMAIN lists[c] = Kind /\ "free" \in Kind /\ "partial" \in Kind /\ "full" \in Kind
        /\ \A k \in Kind : lists[c][k] \in Seq(Page)
    BY <1>1 DEF Family, Kind
  <1>3. /\ a \in Seq(Page) /\ b \in Seq(Page) /\ d \in Seq(Page)
        /\ IsInjective(a) /\ IsInjective(b) /\ IsInjective(d)
        /\ Range(a) \cap Range(b) = {} /\ Range(a) \cap Range(d) = {}
        /\ Range(b) \cap Range(d) = {}
    BY <1>1, <1>2 DEF Apart
  <1>4. \A p : Filed(c, p) <=> p \in Range(a) \/ p \in Range(b) \/ p \in Range(d)
    BY DEF Filed, Kind
  <1>5. SlabsOf(c) = Range(a \o b \o d)
    BY DEF SlabsOf
  <1> HIDE DEF a, b, d
  <1>6. /\ a \o b \in Seq(Page) /\ Range(a \o b) = Range(a) \cup Range(b)
        /\ IsInjective(a \o b)
    BY <1>3, ConcatElements
  <1> DEFINE e == a \o b
  <1>7. e \in Seq(Page) /\ IsInjective(e) /\ Range(e) \cap Range(d) = {}
        /\ Range(e) = Range(a) \cup Range(b)
    BY <1>3, <1>6
  <1> HIDE DEF e
  <1>8. Range(e \o d) = Range(e) \cup Range(d) /\ IsInjective(e \o d)
    BY <1>3, <1>7, ConcatElements
  <1>9. Range(a) \in SUBSET Page /\ Range(b) \in SUBSET Page /\ Range(d) \in SUBSET Page
    BY <1>3, RangeOfSeq
  <1> QED BY <1>4, <1>5, <1>7, <1>8, <1>9 DEF e, a, b, d

LEMMA Filing == IInv => SlabsFiled
  <1> SUFFICES ASSUME IInv, NEW c \in Live
               PROVE  /\ IsInjective(lists[c].free \o lists[c].partial \o lists[c].full)
                      /\ \A p \in SlabsOf(c) :
                          /\ slab[p].cache = c
                          /\ p \in Range(lists[c].full) <=> slab[p].objects = 0
                          /\ p \in Range(lists[c].free) <=> slab[p].objects = Capacity(size[c])
    BY DEF SlabsFiled
  <1>1. CacheKept(c)
    BY CacheTypes
  <1> QED BY <1>1, SlabsOfFiled DEF CacheKept

LEMMA Accounting == IInv => ObjectsAccounted
  <1> SUFFICES ASSUME IInv PROVE ObjectsAccounted
    OBVIOUS
  <1>1. ASSUME NEW c \in Cache, NEW o \in held[c] PROVE c \in Live /\ o[1] \in SlabsOf(c)
    <2>1. c \in Live /\ Filed(c, o[1])
      BY <1>1 DEF IInv, CachesListed
    <2> QED BY <2>1, SlabsOfFiled
  <1>2. ASSUME NEW c \in Live, NEW p \in SlabsOf(c)
        PROVE  LET given == {o[2] : o \in {h \in held[c] : h[1] = p}} IN
               /\ IsInjective(slab[p].bufctls)
               /\ given \cap Range(slab[p].bufctls) = {}
               /\ given \cup Range(slab[p].bufctls) = 1..Made(size[c])
    <2> DEFINE given == {o[2] : o \in {h \in held[c] : h[1] = p}}
               q == slab[p].bufctls
               G == GivenFrom(c, p)
               m == Made(size[c])
    <2>1. /\ size[c] \in Nat \ {0} /\ CacheKept(c) /\ held[c] \in SUBSET Object
      BY CacheTypes
    <2>2. Filed(c, p) /\ p \in Page
      BY <1>2, SlabsOfFiled
    <2>3. Sound(slab[p], size[c], G)
      BY <2>1, <2>2 DEF CacheKept
    <2>4. /\ q \in Seq(Nat) /\ IsInjective(q) /\ G \subseteq 1..m
          /\ \A i \in Nat : i \in Range(q) <=> i \in 1..m /\ i \notin G
      BY <2>3 DEF Sound
    <2>5. given = G
      <3>1. \A o \in held[c] : o = <<o[1], o[2]>> /\ o[2] \in 1..Capacity(1)
        BY <2>1 DEF Object
      <3>2. \A i \in given : i \in G
        BY <3>1 DEF GivenFrom
      <3>3. ASSUME NEW i \in G PROVE i \in given
        <4>1. <<p, i>> \in held[c] /\ <<p, i>>[1] = p /\ <<p, i>>[2] = i
          BY <3>3 DEF GivenFrom
        <4> QED BY <4>1
      <3> QED BY <3>2, <3>3
    <2>6. m \in Nat
      BY <2>1, Numbers
    <2>7. Range(q) \in SUBSET Nat
      BY <2>4, RangeOfSeq
    <2> HIDE DEF given, q, G, m
    <2>8. IsInjective(q) /\ G \cap Range(q) = {} /\ G \cup Range(q) = 1..m
      <3>1. \A i \in 1..m : i \in Nat
        BY <2>6
      <3>2. \A i : i \in G \cup Range(q) <=> i \in 1..m
        BY <2>4, <2>7, <3>1
      <3>3. \A i \in Range(q) : i \notin G
        BY <2>4, <2>7
      <3> QED BY <2>4, <3>2, <3>3
    <2> QED BY <2>5, <2>8 DEF given, q, m
  <1> QED BY <1>1, <1>2 DEF ObjectsAccounted

LEMMA PageAccounting == IInv => PagesAccounted
  <1> SUFFICES ASSUME IInv PROVE PagesAccounted
    OBVIOUS
  <1>1. PagesKept /\ free \in Seq(Page)
    BY DEF IInv, TypeOK
  <1>2. \A c \in Live : \A p : p \in SlabsOf(c) <=> p \in Page /\ Filed(c, p)
    BY SlabsOfFiled
  <1>3. Range(free) \in SUBSET Page
    BY <1>1, RangeOfSeq
  <1>4. \A c, d \in Live : c # d => SlabsOf(c) \cap SlabsOf(d) = {}
    BY <1>1, <1>2 DEF PagesKept
  <1>5. \A c \in Live : SlabsOf(c) \cap Range(free) = {}
    BY <1>1, <1>2 DEF PagesKept
  <1>6. \A p : p \in Range(free) \cup UNION {SlabsOf(c) : c \in Live} <=> p \in Page \ Reserved
    <2>1. \A p : p \in UNION {SlabsOf(c) : c \in Live} <=> \E c \in Live : p \in SlabsOf(c)
      OBVIOUS
    <2> QED BY <1>1, <1>2, <1>3, <2>1 DEF PagesKept
  <1> QED BY <1>1, <1>4, <1>5, <1>6 DEF PagesKept, PagesAccounted

\* The slabs of each cache are filed by what they have left, each object is
\* given out or in one list of bufctls, and each page is in the pool or a slab
\* of one cache, whatever is created, allocated, freed and destroyed.
THEOREM SlabInvariant == Spec => []IInv
  <1>1. Init => IInv
    BY InitIInv
  <1>2. IInv /\ [Next]_vars => IInv'
    BY StepIInv
  <1> QED BY <1>1, <1>2, PTL DEF Spec

\* A slab is in one list of its own cache, the one its counter names: what
\* vm_cache_alloc, vm_cache_free and vm_cache_destroy move by the counter.
THEOREM SlabsFiledAlways == Spec => []SlabsFiled
  <1>1. IInv => SlabsFiled
    BY Filing
  <1> QED BY <1>1, SlabInvariant, PTL

\* Each object of a slab is held by one caller or free, never both or lost:
\* vm_cache_alloc gives nothing out twice.
THEOREM ObjectsKept == Spec => []ObjectsAccounted
  <1>1. IInv => ObjectsAccounted
    BY Accounting
  <1> QED BY <1>1, SlabInvariant, PTL

\* Each page that vm_pool_setup pushed is in the pool or a slab of one cache.
THEOREM PagesReturn == Spec => []PagesAccounted
  <1>1. IInv => PagesAccounted
    BY PageAccounting
  <1> QED BY <1>1, SlabInvariant, PTL

\* The pool never gives page 0 out, so that no object has the address NULL.
THEOREM NullStays == Spec => []NullPageKept
  <1>1. IInv => NullPageKept
    BY DEF IInv
  <1> QED BY <1>1, SlabInvariant, PTL

\* vm_cache_alloc finds a bufctl in every slab it takes one from, when the
\* loop of vm_cache_grow makes as many as the division counted.
THEOREM FaultsOnlyUnfit == Spec => []FitNeverFaults
  <1>1. IInv => FitNeverFaults
    BY DEF IInv
  <1> QED BY <1>1, SlabInvariant, PTL

-----------------------------------------------------------------------------
(* The promise of Allocator                                                *)

LEMMA LiveHeld == IInv => Promise!Live = Live
  <1> SUFFICES ASSUME IInv PROVE \A c : c \in Promise!Live <=> c \in Live
    OBVIOUS
  <1>1. CachesListed /\ Live \subseteq Cache
    BY RangeOfSeq DEF IInv, TypeOK, Live
  <1>2. held[CacheCache] \subseteq Cache
    BY DEF IInv, TypeOK, Cache
  <1> QED BY <1>1, <1>2 DEF CachesListed, Promise!Live

\* The static cache is not cut from a page.
LEMMA ObjectsNotStatic == CacheCache \notin Object
  <1>1. Capacity(1) \in Nat
    BY Numbers
  <1>2. 1..Capacity(1) \subseteq Nat
    BY <1>1
  <1> QED BY <1>2, SlabAssumption DEF Object

LEMMA LastElement ==
    ASSUME NEW S, NEW q \in Seq(S), q # <<>>
    PROVE  Last(q) \in Range(q)
  <1>1. Len(q) \in Nat \ {0} /\ DOMAIN q = 1..Len(q)
    BY EmptySeq, LenProperties
  <1> QED BY <1>1 DEF Last, Range

\* The pool keeps page 0 while a slab is taken from its top.
LEMMA GivenNotNull ==
    ASSUME IInv, NEW c \in Live, Take(c)
    PROVE  WorkPage(c) # NullPage
  <1>1. free \in Seq(Page) /\ free # <<>> /\ Last(free) = NullPage
    BY DEF IInv, TypeOK, NullPageKept
  <1>2. NullPage \in Range(free)
    BY <1>1, LastElement
  <1>3. CASE MustGrow(c)
    <2>1. free' \in Seq(Page) /\ free' # <<>> /\ Last(free') = NullPage
      BY TakesPool DEF NullPageKept
    <2>2. NullPage \in Range(free')
      BY <2>1, LastElement
    <2> QED BY <1>3, <2>2, TakesPool
  <1>4. CASE ~ MustGrow(c)
    <2>1. Filed(c, WorkPage(c))
      BY <1>4, TakesPage
    <2> QED BY <1>2, <2>1 DEF IInv, PagesKept
  <1> QED BY <1>3, <1>4

\* The page of an object that is held is a slab of the one cache it was given
\* from, and what a slab has to give is not held.
LEMMA GivenFresh ==
    ASSUME IInv, NEW c \in Live, Take(c)
    PROVE  Given(c) \in Object /\ Promise!Fresh(c, Given(c))
  <1>1. /\ Given(c) \in Object /\ Given(c) \notin held[c] /\ Given(c)[1] = WorkPage(c)
        /\ WorkPage(c) # NullPage
    BY TakesObject, GivenNotNull
  <1>2. ASSUME NEW d \in Live, NEW h \in held[d]
        PROVE  h # Given(c) /\ (d # c => h[1] # WorkPage(c))
    <2>1. d \in Cache
      BY CacheTypes
    <2>2. Filed(d, h[1])
      BY <1>2, <2>1 DEF IInv, CachesListed
    <2>3. d # c => h[1] # WorkPage(c)
      BY <2>2, TakesPage
    <2> QED BY <1>1, <1>2, <2>3
  <1> QED BY <1>1, <1>2, LiveHeld DEF Promise!Fresh

LEMMA StepAllocates == IInv /\ [Next]_vars => [Promise!Next]_held
  <1> SUFFICES ASSUME IInv, Next, held' # held PROVE Promise!Next
    BY DEF vars
  <1>1. /\ Promise!Live = Live /\ CacheCache \in Live /\ CachesListed
        /\ held \in [Cache -> SUBSET Object] /\ Live \subseteq Cache
    BY LiveHeld, RangeOfSeq DEF IInv, TypeOK, CachesListed, Live
  <1>2. ASSUME NEW s \in Sizes, Create(s) PROVE Promise!Next
    <2>1. PICK o : o = Given(CacheCache)
      OBVIOUS
    <2>2. Take(CacheCache)
      BY <1>2 DEF Create
    <2>3. o \in Object /\ Promise!Fresh(CacheCache, o) /\ o \notin held[CacheCache]
      BY <1>1, <2>1, <2>2, GivenFresh, TakesObject
    <2>4. o \in Cache /\ o # CacheCache
      BY <2>3, ObjectsNotStatic DEF Cache
    <2>5. held[o] = {}
      BY <1>1, <2>3, <2>4 DEF CachesListed
    <2>6. held' = [held EXCEPT ![CacheCache] = @ \cup {o}]
      BY <2>1, <2>2 DEF Take
    <2>7. Promise!Give(CacheCache, o)
      BY <2>3, <2>4, <2>5, <2>6 DEF Promise!Give, Promise!Unused
    <2> QED BY <1>1, <2>3, <2>7 DEF Promise!Next
  <1>3. ASSUME NEW c \in Live, Alloc(c) PROVE Promise!Next
    <2>1. Take(c) /\ c # CacheCache
      BY <1>3 DEF Alloc
    <2>2. Given(c) \in Object /\ Promise!Fresh(c, Given(c))
      BY <2>1, GivenFresh
    <2>3. held' = [held EXCEPT ![c] = @ \cup {Given(c)}]
      BY <2>1 DEF Take
    <2>4. Promise!Give(c, Given(c))
      BY <2>1, <2>2, <2>3 DEF Promise!Give
    <2> QED BY <1>1, <2>2, <2>4 DEF Promise!Next
  <1>4. ASSUME NEW c \in Live, NEW o \in UNION {held[d] : d \in Live}, Free(c, o)
        PROVE  Promise!Next
    <2>1. PICK d \in Live : o \in held[d]
      OBVIOUS
    <2>2. PICK p, i : o = <<p, i>>
      BY <1>1, <2>1 DEF Object
    <2>3. slab[o[1]].cache = d
      BY <2>1, <2>2, ReturnsObject
    <2>4. c = d /\ c # CacheCache /\ held' = [held EXCEPT ![c] = @ \ {o}]
      BY <1>4, <2>3 DEF Free
    <2>5. Promise!TakeBack(c, o)
      BY <2>4 DEF Promise!TakeBack
    <2> QED BY <1>1, <2>1, <2>4, <2>5 DEF Promise!Next
  <1>5. ASSUME NEW c \in Live, Destroy(c) PROVE Promise!Next
    <2>1. /\ c # CacheCache /\ lists[c].partial = <<>> /\ lists[c].full = <<>>
          /\ held' = [held EXCEPT ![CacheCache] = @ \ {c}]
      BY <1>5 DEF Destroy, Empty
    <2>2. held[c] = {} /\ c \in held[CacheCache]
      BY <1>1, <2>1, NothingGiven DEF CachesListed
    <2>3. Promise!TakeBack(CacheCache, c)
      BY <2>1, <2>2 DEF Promise!TakeBack, Promise!Unused
    <2> QED BY <1>1, <2>2, <2>3 DEF Promise!Next
  <1>6. ASSUME NEW c \in Live, NEW o,
               \/ AllocFails(c) \/ AllocFaults(c) \/ FreeRefused(c, o) \/ DestroyRefused(c)
        PROVE  held' = held
    BY <1>6 DEF AllocFails, AllocFaults, FreeRefused, DestroyRefused, vars
  <1> QED BY <1>2, <1>3, <1>4, <1>5, <1>6 DEF Next

\* What callers see of the slab allocator is Allocator, whatever its lists and
\* counters do: nothing is given out twice or in two pieces of one page that
\* belong to different caches, and no cache goes while an object of it is out.
THEOREM AllocatorKept == Spec => AllocatesApart
  <1>1. Init => Promise!Init
    BY DEF Init, Promise!Init, Cache, Promise!Cache
  <1> QED BY <1>1, SlabInvariant, StepAllocates, PTL
          DEF Spec, AllocatesApart, Promise!Spec
=============================================================================
