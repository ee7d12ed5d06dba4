---------------------------- MODULE QueueLemmas ----------------------------
(***************************************************************************)
(* What the operations on a queue do to its elements.                      *)
(***************************************************************************)
EXTENDS Queues, SequenceTheorems, FiniteSetTheorems, TLAPS

\* LLIST_REMOVE at a position: the elements after it move up by one.
LEMMA RemoveAtElements ==
    ASSUME NEW S, NEW q \in Seq(S), NEW i \in 1..Len(q)
    PROVE  /\ RemoveAt(q, i) \in Seq(S)
           /\ Len(RemoveAt(q, i)) = Len(q) - 1
           /\ \A j \in 1..(Len(q) - 1) :
                RemoveAt(q, i)[j] = IF j < i THEN q[j] ELSE q[j + 1]
  <1> DEFINE a == SubSeq(q, 1, i - 1)
             b == SubSeq(q, i + 1, Len(q))
  <1>1. a \in Seq(S) /\ Len(a) = i - 1 /\ \A j \in 1..(i - 1) : a[j] = q[j]
    OBVIOUS
  <1>2. b \in Seq(S) /\ Len(b) = Len(q) - i
        /\ \A j \in 1..(Len(q) - i) : b[j] = q[j + i]
    OBVIOUS
  <1>3. RemoveAt(q, i) = a \o b
    BY DEF RemoveAt
  <1> HIDE DEF a, b
  <1>4. a \o b \in Seq(S) /\ Len(a \o b) = Len(q) - 1
    <2>1. a \o b \in Seq(S) /\ Len(a \o b) = Len(a) + Len(b)
      BY <1>1, <1>2, ConcatProperties
    <2>2. Len(q) \in Nat /\ i \in Int
      BY LenProperties
    <2> QED BY <1>1, <1>2, <2>1, <2>2
  <1>5. ASSUME NEW j \in 1..(Len(q) - 1)
        PROVE  (a \o b)[j] = IF j < i THEN q[j] ELSE q[j + 1]
    BY <1>1, <1>2, ConcatProperties
  <1> QED BY <1>3, <1>4, <1>5

LEMMA WithoutElements ==
    ASSUME NEW S, NEW q \in Seq(S), NEW t
    PROVE  /\ Without(q, t) \in Seq(S)
           /\ \A u \in Range(q) : u # t => u \in Range(Without(q, t))
           /\ IsInjective(q) => /\ Range(Without(q, t)) = Range(q) \ {t}
                                /\ IsInjective(Without(q, t))
  <1>1. CASE t \notin Range(q)
    BY <1>1 DEF Without
  <1>2. CASE t \in Range(q)
    <2> DEFINE i == CHOOSE n \in DOMAIN q : q[n] = t
               r == RemoveAt(q, i)
    <2>1. i \in 1..Len(q) /\ q[i] = t
      BY <1>2 DEF Range
    <2>2. Without(q, t) = r
      BY <1>2 DEF Without
    <2> HIDE DEF i
    <2>3. /\ r \in Seq(S) /\ Len(r) = Len(q) - 1
          /\ \A j \in 1..(Len(q) - 1) : r[j] = IF j < i THEN q[j] ELSE q[j + 1]
      BY <2>1, RemoveAtElements
    <2> HIDE DEF r
    <2>4. ASSUME NEW k \in 1..Len(q), k # i
          PROVE  q[k] \in Range(r)
      <3>1. CASE k < i
        BY <2>1, <2>3, <3>1 DEF Range
      <3>2. CASE k > i
        <4>1. k - 1 \in 1..(Len(q) - 1) /\ r[k - 1] = q[k]
          BY <2>1, <2>3, <3>2
        <4> QED BY <2>3, <4>1 DEF Range
      <3> QED BY <2>1, <2>4, <3>1, <3>2
    <2>5. ASSUME NEW j \in 1..(Len(q) - 1)
          PROVE  \E k \in 1..Len(q) : k # i /\ r[j] = q[k]
      BY <2>1, <2>3
    <2>6. ASSUME IsInjective(q)
          PROVE  IsInjective(r)
      <3> SUFFICES ASSUME NEW j \in 1..(Len(q) - 1), NEW k \in 1..(Len(q) - 1),
                          r[j] = r[k]
                   PROVE  j = k
        BY <2>3 DEF IsInjective
      <3> DEFINE Up(n) == IF n < i THEN n ELSE n + 1
      <3>1. /\ Up(j) \in DOMAIN q /\ Up(k) \in DOMAIN q
            /\ r[j] = q[Up(j)] /\ r[k] = q[Up(k)]
        BY <2>1, <2>3, LenProperties
      <3>2. Up(j) = Up(k)
        BY <2>6, <3>1 DEF IsInjective
      <3> QED BY <2>1, <3>2
    <2>7. \A u \in Range(q) : u # t => u \in Range(r)
      BY <2>1, <2>4 DEF Range
    <2>8. ASSUME IsInjective(q)
          PROVE  Range(r) = Range(q) \ {t}
      <3>1. Range(r) \subseteq Range(q) \ {t}
        <4>1. DOMAIN r = 1..(Len(q) - 1) /\ DOMAIN q = 1..Len(q)
          BY <2>3, LenProperties
        <4>2. ASSUME NEW k \in 1..Len(q), k # i
              PROVE  q[k] # t
          BY <2>1, <2>8, <4>1, <4>2 DEF IsInjective
        <4> QED BY <2>5, <4>1, <4>2 DEF Range
      <3> QED BY <2>7, <3>1
    <2> QED BY <2>2, <2>3, <2>6, <2>7, <2>8
  <1> QED BY <1>1, <1>2

\* LLIST_ADD: the new element is last.
LEMMA AppendElements ==
    ASSUME NEW S, NEW q \in Seq(S), NEW t \in S
    PROVE  /\ Append(q, t) \in Seq(S)
           /\ Range(Append(q, t)) = Range(q) \cup {t}
           /\ IsInjective(q) /\ t \notin Range(q) => IsInjective(Append(q, t))
  <1> DEFINE r == Append(q, t)
  <1>1. /\ r \in Seq(S) /\ Len(r) = Len(q) + 1 /\ r[Len(q) + 1] = t
        /\ \A i \in 1..Len(q) : r[i] = q[i]
    OBVIOUS
  <1> HIDE DEF r
  <1>2. Range(r) = Range(q) \cup {t}
    BY <1>1 DEF Range
  <1>3. ASSUME IsInjective(q), t \notin Range(q)
        PROVE  IsInjective(r)
    BY <1>1, <1>3 DEF IsInjective, Range
  <1> QED BY <1>1, <1>2, <1>3 DEF r

\* One queue after another.
LEMMA ConcatElements ==
    ASSUME NEW S, NEW q \in Seq(S), NEW r \in Seq(S)
    PROVE  /\ q \o r \in Seq(S)
           /\ Range(q \o r) = Range(q) \cup Range(r)
           /\ IsInjective(q) /\ IsInjective(r) /\ Range(q) \cap Range(r) = {}
                => IsInjective(q \o r)
           /\ r # <<>> => q \o r # <<>> /\ Last(q \o r) = Last(r)
  <1> DEFINE c == q \o r
  <1>1. /\ c \in Seq(S) /\ Len(c) = Len(q) + Len(r)
        /\ Len(q) \in Nat /\ Len(r) \in Nat
        /\ \A i \in 1..Len(c) : c[i] = IF i <= Len(q) THEN q[i] ELSE r[i - Len(q)]
    BY ConcatProperties, LenProperties
  <1>2. DOMAIN c = 1..Len(c) /\ DOMAIN q = 1..Len(q) /\ DOMAIN r = 1..Len(r)
    BY <1>1, LenProperties
  <1> HIDE DEF c
  <1>3. /\ \A i \in 1..Len(q) : i \in 1..Len(c) /\ c[i] = q[i]
        /\ \A i \in 1..Len(r) : i + Len(q) \in 1..Len(c) /\ c[i + Len(q)] = r[i]
    <2>1. \A i \in 1..Len(q) : i \in 1..Len(c) /\ i <= Len(q)
      BY <1>1
    <2>2. \A i \in 1..Len(r) :
            i + Len(q) \in 1..Len(c) /\ ~ i + Len(q) <= Len(q) /\ (i + Len(q)) - Len(q) = i
      BY <1>1
    <2> QED BY <1>1, <2>1, <2>2
  <1>4. \A i \in 1..Len(c) :
          (i \in 1..Len(q) /\ c[i] = q[i]) \/ (i - Len(q) \in 1..Len(r) /\ c[i] = r[i - Len(q)])
    BY <1>1
  <1>5. Range(c) \subseteq Range(q) \cup Range(r)
    BY <1>2, <1>4 DEF Range
  <1>6. Range(q) \subseteq Range(c) /\ Range(r) \subseteq Range(c)
    BY <1>2, <1>3 DEF Range
  <1>7. ASSUME IsInjective(q), IsInjective(r), Range(q) \cap Range(r) = {}
        PROVE  IsInjective(c)
    <2> SUFFICES ASSUME NEW i \in 1..Len(c), NEW j \in 1..Len(c), c[i] = c[j]
                 PROVE  i = j
      BY <1>2 DEF IsInjective
    <2>1. \A n \in 1..Len(q), m \in 1..Len(r) : q[n] # r[m]
      BY <1>2, <1>7 DEF Range
    <2>2. /\ \A n, m \in 1..Len(q) : q[n] = q[m] => n = m
          /\ \A n, m \in 1..Len(r) : r[n] = r[m] => n = m
      BY <1>2, <1>7 DEF IsInjective
    <2>3. CASE i \in 1..Len(q) /\ j \in 1..Len(q)
      BY <1>3, <2>2, <2>3
    <2>4. CASE i - Len(q) \in 1..Len(r) /\ j - Len(q) \in 1..Len(r)
      <3>1. c[i] = r[i - Len(q)] /\ c[j] = r[j - Len(q)]
        BY <1>1, <2>4
      <3>2. i - Len(q) = j - Len(q)
        BY <2>2, <2>4, <3>1
      <3> QED BY <1>1, <3>2
    <2> QED BY <1>1, <1>4, <2>1, <2>3, <2>4
  <1>8. ASSUME r # <<>> PROVE c # <<>> /\ Last(c) = Last(r)
    <2>1. Len(r) > 0
      BY <1>1, <1>8
    <2>2. Len(c) > 0 /\ c[Len(c)] = r[Len(r)]
      BY <1>1, <2>1
    <2> QED BY <2>2 DEF Last
  <1> QED BY <1>1, <1>5, <1>6, <1>7, <1>8 DEF c

\* ... and a queue in reverse.
LEMMA ReverseElements ==
    ASSUME NEW S, NEW q \in Seq(S)
    PROVE  /\ Reverse(q) \in Seq(S)
           /\ Range(Reverse(q)) = Range(q)
           /\ IsInjective(q) => IsInjective(Reverse(q))
  <1> DEFINE r == Reverse(q)
  <1>1. /\ Len(q) \in Nat /\ DOMAIN q = 1..Len(q) /\ \A i \in 1..Len(q) : q[i] \in S
    BY LenProperties, ElementOfSeq
  <1>2. r = [i \in 1..Len(q) |-> q[(Len(q) - i) + 1]]
    BY DEF Reverse
  <1> HIDE DEF r
  <1>3. r \in Seq(S) /\ DOMAIN r = 1..Len(q)
        /\ \A i \in 1..Len(q) : (Len(q) - i) + 1 \in 1..Len(q) /\ r[i] = q[(Len(q) - i) + 1]
    BY <1>1, <1>2
  <1>4. \A i \in 1..Len(q) : q[i] = r[(Len(q) - i) + 1]
    BY <1>1, <1>3
  <1>5. Range(r) = Range(q)
    <2>1. Range(r) \subseteq Range(q)
      BY <1>1, <1>3 DEF Range
    <2>2. Range(q) \subseteq Range(r)
      BY <1>1, <1>3, <1>4 DEF Range
    <2> QED BY <2>1, <2>2
  <1>6. ASSUME IsInjective(q) PROVE IsInjective(r)
    <2> SUFFICES ASSUME NEW i \in 1..Len(q), NEW j \in 1..Len(q), r[i] = r[j]
                 PROVE  i = j
      BY <1>3 DEF IsInjective
    <2>1. (Len(q) - i) + 1 = (Len(q) - j) + 1
      BY <1>1, <1>3, <1>6 DEF IsInjective
    <2> QED BY <1>1, <2>1
  <1> QED BY <1>3, <1>5, <1>6 DEF r

\* A queue without its head.
LEMMA TailElements ==
    ASSUME NEW S, NEW q \in Seq(S), q # <<>>
    PROVE  /\ Tail(q) \in Seq(S) /\ Len(Tail(q)) = Len(q) - 1
           /\ IsInjective(q) => /\ Range(Tail(q)) = Range(q) \ {Head(q)}
                                /\ IsInjective(Tail(q))
           /\ Len(q) > 1 => Tail(q) # <<>> /\ Last(Tail(q)) = Last(q)
  <1> DEFINE r == Tail(q)
  <1>1. /\ r \in Seq(S) /\ Len(r) = Len(q) - 1 /\ Len(q) \in Nat /\ Len(q) > 0
        /\ q[1] = Head(q) /\ \A j \in 1..Len(r) : r[j] = q[j + 1]
    OBVIOUS
  <1> HIDE DEF r
  <1>2. DOMAIN r = 1..Len(r) /\ DOMAIN q = 1..Len(q)
    BY <1>1, LenProperties
  <1>3. \A n \in 1..Len(r) : n + 1 \in 1..Len(q) /\ n + 1 # 1 /\ r[n] = q[n + 1]
    BY <1>1
  <1>4. \A n \in 1..Len(q) : n = 1 \/ (n - 1 \in 1..Len(r) /\ r[n - 1] = q[n])
    BY <1>1
  <1>5. ASSUME IsInjective(q) PROVE Range(r) = Range(q) \ {Head(q)}
    <2>1. \A n \in 1..Len(q) : q[n] = Head(q) => n = 1
      BY <1>1, <1>2, <1>5 DEF IsInjective
    <2>2. Range(r) \subseteq Range(q) \ {Head(q)}
      BY <1>2, <1>3, <2>1 DEF Range
    <2>3. ASSUME NEW j \in Range(q), j # Head(q) PROVE j \in Range(r)
      <3>1. PICK n \in 1..Len(q) : q[n] = j
        BY <1>2 DEF Range
      <3>2. n - 1 \in 1..Len(r) /\ r[n - 1] = j
        BY <1>1, <1>4, <2>3, <3>1
      <3> QED BY <1>2, <3>2 DEF Range
    <2> QED BY <2>2, <2>3
  <1>6. ASSUME IsInjective(q) PROVE IsInjective(r)
    BY <1>1, <1>2, <1>6 DEF IsInjective
  <1>7. ASSUME Len(q) > 1 PROVE r # <<>> /\ Last(r) = Last(q)
    BY <1>1, <1>7 DEF Last
  <1> QED BY <1>1, <1>5, <1>6, <1>7 DEF r

\* sched_elect: the head of the ready queue becomes its tail.
LEMMA RotateElements ==
    ASSUME NEW S, NEW q \in Seq(S), q # <<>>
    PROVE  /\ Head(q) \in Range(q) /\ Head(q) \in S
           /\ Append(Tail(q), Head(q)) \in Seq(S)
           /\ Range(Append(Tail(q), Head(q))) = Range(q)
           /\ IsInjective(q) => IsInjective(Append(Tail(q), Head(q)))
  <1> DEFINE r == Append(Tail(q), Head(q))
             n == Len(q)
  <1>1. n \in Nat \ {0} /\ DOMAIN q = 1..n /\ Head(q) = q[1]
    OBVIOUS
  <1>2. /\ r \in Seq(S) /\ Len(r) = n /\ r[n] = q[1]
        /\ \A i \in 1..(n - 1) : r[i] = q[i + 1]
    OBVIOUS
  <1> HIDE DEF r, n
  <1> DEFINE From(i) == IF i = n THEN 1 ELSE i + 1
  <1>3. /\ DOMAIN r = 1..n
        /\ \A i \in 1..n : From(i) \in 1..n /\ r[i] = q[From(i)]
    BY <1>1, <1>2
  <1>4. ASSUME NEW i \in 1..n
        PROVE  q[i] \in Range(r)
    <2>1. CASE i = 1
      BY <1>1, <1>2, <2>1 DEF Range
    <2>2. CASE i # 1
      <3>1. i - 1 \in 1..(n - 1) /\ r[i - 1] = q[i]
        BY <1>1, <1>2, <2>2
      <3> QED BY <1>1, <1>2, <3>1 DEF Range
    <2> QED BY <2>1, <2>2
  <1>5. Range(r) = Range(q)
    BY <1>1, <1>3, <1>4 DEF Range
  <1>7. Head(q) \in S /\ Head(q) \in Range(q)
    BY <1>1 DEF Range
  <1>6. ASSUME IsInjective(q)
        PROVE  IsInjective(r)
    <2> SUFFICES ASSUME NEW j \in 1..n, NEW k \in 1..n, r[j] = r[k]
                 PROVE  j = k
      BY <1>3 DEF IsInjective
    <2>1. From(j) = From(k)
      BY <1>1, <1>3, <1>6 DEF IsInjective
    <2> QED BY <1>1, <2>1
  <1> QED BY <1>2, <1>5, <1>6, <1>7 DEF r
\* Induction, in the form that needs no operator: a set of numbers with 0 in
\* it, and with every number the next one, has them all.
LEMMA Induction ==
    ASSUME NEW T \in SUBSET Nat, 0 \in T, \A n \in T : n + 1 \in T
    PROVE  T = Nat
  <1> SUFFICES ASSUME Nat \ T # {} PROVE FALSE
    OBVIOUS
  <1> DEFINE R == {ss \in Nat \X Nat : ss[1] < ss[2]}
  <1>1. IsWellFoundedOn(R, Nat)
    <2>1. OpToRel(<, Nat) = R
      BY DEF OpToRel
    <2> QED BY NatLessThanWellFounded, <2>1
  <1>2. PICK n \in Nat \ T : \A m \in Nat \ T : <<m, n>> \notin R
    <2>1. Nat \ T \subseteq Nat
      OBVIOUS
    <2> HIDE DEF R
    <2> QED BY <1>1, <2>1, WFMin
  <1>3. n - 1 \in Nat
    BY <1>2
  <1>4. CASE n - 1 \notin T
    <2>1. <<n - 1, n>> \in R
      BY <1>3
    <2> QED BY <1>2, <1>3, <1>4, <2>1
  <1>5. CASE n - 1 \in T
    BY <1>2, <1>5
  <1> QED BY <1>4, <1>5

Steps(n, R) == [(1..n) \X R -> R]

\* A function of the numbers up to n, defined from one number to the next.
LEMMA Recursion ==
    ASSUME NEW R, NEW a \in R, NEW n \in Nat, NEW step \in Steps(n, R)
    PROVE  \E F \in [0..n -> R] : F[0] = a /\ \A i \in 1..n : F[i] = step[<<i, F[i - 1]>>]
  <1> USE DEF Steps
  <1> DEFINE Upto(F, m) == F[0] = a /\ \A i \in 1..m : F[i] = step[<<i, F[i - 1]>>]
             T == {m \in Nat : m <= n => \E F \in [0..m -> R] : Upto(F, m)}
  <1>1. 0 \in T
    <2>1. [i \in 0..0 |-> a] \in [0..0 -> R] /\ Upto([i \in 0..0 |-> a], 0)
      OBVIOUS
    <2> QED BY <2>1
  <1>2. ASSUME NEW m \in T PROVE m + 1 \in T
    <2>1. ASSUME m + 1 <= n PROVE \E F \in [0..(m + 1) -> R] : Upto(F, m + 1)
      <3>1. m \in Nat /\ m <= n
        BY <2>1
      <3>2. PICK F \in [0..m -> R] : Upto(F, m)
        BY <3>1
      <3>3. step[<<m + 1, F[m]>>] \in R
        BY <2>1, <3>1
      <3> DEFINE H == [i \in 0..(m + 1) |-> IF i = m + 1 THEN step[<<m + 1, F[m]>>] ELSE F[i]]
      <3>4. H \in [0..(m + 1) -> R]
        BY <3>1, <3>3
      <3>5. H[0] = a
        BY <3>1, <3>2
      <3>6. ASSUME NEW i \in 1..(m + 1) PROVE H[i] = step[<<i, H[i - 1]>>]
        <4>1. i - 1 \in 0..m /\ i - 1 # m + 1 /\ i - 1 \in 0..(m + 1)
          BY <3>1
        <4>2. H[i - 1] = F[i - 1]
          BY <4>1
        <4>3. CASE i = m + 1
          <5>1. H[i] = step[<<m + 1, F[m]>>] /\ i - 1 = m
            BY <3>1, <4>3
          <5> HIDE DEF H
          <5> QED BY <4>2, <4>3, <5>1
        <4>4. CASE i \in 1..m
          <5>1. H[i] = F[i]
            BY <3>1, <4>4
          <5> HIDE DEF H
          <5> QED BY <3>2, <4>2, <4>4, <5>1
        <4> QED BY <3>1, <4>3, <4>4
      <3> HIDE DEF H
      <3> QED BY <3>4, <3>5, <3>6
    <2> HIDE DEF Upto
    <2> QED BY <2>1
  <1>3. T = Nat
    <2>1. T \in SUBSET Nat
      OBVIOUS
    <2> HIDE DEF T
    <2> QED BY <1>1, <1>2, <2>1, Induction
  <1>4. n \in T
    <2> HIDE DEF T
    <2> QED BY <1>3
  <1>5. \E F \in [0..n -> R] : Upto(F, n)
    <2> HIDE DEF Upto
    <2> QED BY <1>4
  <1> QED BY <1>5

\* Keeping is what its recursive function says.
LEMMA KeepingSteps ==
    ASSUME NEW S, NEW q \in Seq(S), NEW X
    PROVE  \E F : /\ F[0] = <<>>
                  /\ \A i \in 1..Len(q) :
                       F[i] = IF q[i] \in X THEN Append(F[i - 1], q[i]) ELSE F[i - 1]
                  /\ Keeping(q, X) = F[Len(q)]
  <1> DEFINE Step(i, r) == IF q[i] \in X THEN Append(r, q[i]) ELSE r
             G(F) == [i \in 0..Len(q) |->
                        IF i = 0 THEN <<>>
                        ELSE IF q[i] \in X THEN Append(F[i - 1], q[i]) ELSE F[i - 1]]
             Upto(F, n) == F[0] = <<>> /\ \A i \in 1..n : F[i] = Step(i, F[i - 1])
             T == {n \in Nat : \E F : Upto(F, n)}
  <1>1. Keeping(q, X) = (CHOOSE F : F = G(F))[Len(q)]
    BY DEF Keeping
  <1>2. Len(q) \in Nat
    BY LenProperties
  <1>3. T = Nat
    <2> HIDE DEF Step
    <2>1. 0 \in T
      <3>1. Upto([i \in 0..0 |-> <<>>], 0)
        OBVIOUS
      <3> QED BY <3>1
    <2>2. ASSUME NEW n \in T PROVE n + 1 \in T
      <3>1. PICK F : Upto(F, n)
        BY <2>2
      <3> DEFINE H == [i \in 0..(n + 1) |-> IF i = n + 1 THEN Step(n + 1, F[n]) ELSE F[i]]
      <3>2. n \in Nat
        OBVIOUS
      <3>3. Upto(H, n + 1)
        <4>1. H[0] = <<>>
          BY <3>1, <3>2
        <4>2. ASSUME NEW i \in 1..(n + 1) PROVE H[i] = Step(i, H[i - 1])
          <5>1. i - 1 \in 0..n /\ H[i - 1] = F[i - 1]
            BY <3>2
          <5>2. CASE i = n + 1
            <6>1. H[i] = Step(n + 1, F[n])
              BY <3>2, <5>2
            <6> QED BY <3>2, <5>1, <5>2, <6>1
          <5>3. CASE i \in 1..n
            <6>1. H[i] = F[i]
              BY <3>2, <5>3
            <6> QED BY <3>1, <5>1, <5>3, <6>1
          <5> QED BY <3>2, <5>2, <5>3
        <4> HIDE DEF H
        <4> QED BY <4>1, <4>2
      <3> HIDE DEF H, Upto
      <3> QED BY <3>2, <3>3
    <2> HIDE DEF T
    <2>3. T \in SUBSET Nat
      BY DEF T
    <2> QED BY <2>1, <2>2, <2>3, Induction
  <1>4. PICK F : Upto(F, Len(q))
    BY <1>2, <1>3
  <1> DEFINE H == [i \in 0..Len(q) |-> F[i]]
  <1>5. H = G(H)
    <2>1. \A i \in 0..Len(q) : i # 0 => i \in 1..Len(q) /\ i - 1 \in 0..Len(q)
      BY <1>2
    <2>2. \A i \in 0..Len(q) : H[i] = G(H)[i]
      BY <1>4, <2>1
    <2> QED BY <2>2
  <1> DEFINE C == CHOOSE K : K = G(K)
  <1>6. C = G(C)
    BY <1>5
  <1> HIDE DEF C
  <1>7. C[0] = <<>>
    BY <1>2, <1>6
  <1>8. ASSUME NEW i \in 1..Len(q)
        PROVE  C[i] = IF q[i] \in X THEN Append(C[i - 1], q[i]) ELSE C[i - 1]
    <2>1. i \in 0..Len(q) /\ i # 0
      BY <1>2
    <2> QED BY <1>6, <2>1
  <1> QED BY <1>1, <1>7, <1>8 DEF C

\* ... the elements that are in X, each as often as before.
LEMMA KeepingElements ==
    ASSUME NEW S, NEW q \in Seq(S), NEW X
    PROVE  /\ Keeping(q, X) \in Seq(S)
           /\ Range(Keeping(q, X)) = Range(q) \cap X
           /\ IsInjective(q) => IsInjective(Keeping(q, X))
  <1>1. PICK F : /\ F[0] = <<>>
                 /\ \A i \in 1..Len(q) :
                      F[i] = IF q[i] \in X THEN Append(F[i - 1], q[i]) ELSE F[i - 1]
                 /\ Keeping(q, X) = F[Len(q)]
    BY KeepingSteps
  <1>2. Len(q) \in Nat /\ DOMAIN q = 1..Len(q) /\ \A i \in 1..Len(q) : q[i] \in S
    BY LenProperties, ElementOfSeq
  <1> DEFINE Good(n) == /\ F[n] \in Seq(S)
                        /\ Range(F[n]) = {q[i] : i \in 1..n} \cap X
                        /\ IsInjective(q) => IsInjective(F[n])
             T == {n \in Nat : n <= Len(q) => Good(n)}
  <1>3. 0 \in T
    <2>1. <<>> \in Seq(S) /\ Range(<<>>) = {} /\ IsInjective(<<>>)
      BY EmptySeq DEF Range, IsInjective
    <2>2. {q[i] : i \in 1..0} = {}
      OBVIOUS
    <2>3. Good(0)
      BY <1>1, <2>1, <2>2
    <2> HIDE DEF Good
    <2> QED BY <2>3
  <1>4. ASSUME NEW n \in T, n + 1 <= Len(q) PROVE Good(n + 1)
    <2> DEFINE x == q[n + 1]
    <2>1. n \in Nat /\ Good(n) /\ n + 1 \in 1..Len(q) /\ x \in S
      BY <1>2, <1>4
    <2>2. F[n + 1] = IF x \in X THEN Append(F[n], x) ELSE F[n]
      BY <1>1, <2>1
    <2>3. {q[i] : i \in 1..(n + 1)} = {q[i] : i \in 1..n} \cup {x}
      <3>1. \A i \in 1..(n + 1) : i \in 1..n \/ i = n + 1
        BY <2>1
      <3>2. n + 1 \in 1..(n + 1) /\ \A i \in 1..n : i \in 1..(n + 1)
        BY <2>1
      <3> QED BY <3>1, <3>2
    <2>4. CASE x \notin X
      BY <2>1, <2>2, <2>3, <2>4
    <2>5. CASE x \in X
      <3> HIDE DEF x
      <3>1. /\ F[n + 1] \in Seq(S) /\ Range(F[n + 1]) = Range(F[n]) \cup {x}
            /\ IsInjective(F[n]) /\ x \notin Range(F[n]) => IsInjective(F[n + 1])
        BY <2>1, <2>2, <2>5, AppendElements
      <3>2. IsInjective(q) => x \notin Range(F[n])
        <4> SUFFICES ASSUME IsInjective(q), NEW i \in 1..n, q[i] = x PROVE FALSE
          BY <2>1
        <4>1. i \in DOMAIN q /\ n + 1 \in DOMAIN q /\ i # n + 1
          BY <1>2, <2>1
        <4> QED BY <4>1 DEF x, IsInjective
      <3> QED BY <2>1, <2>3, <2>5, <3>1, <3>2
    <2> QED BY <2>4, <2>5
  <1>5. \A n \in T : n + 1 \in T
    BY <1>4
  <1>6. Len(q) \in T
    <2> HIDE DEF T
    <2>1. T \in SUBSET Nat
      BY DEF T
    <2> QED BY <1>2, <1>3, <1>5, <2>1, Induction
  <1>7. Good(Len(q))
    BY <1>2, <1>6
  <1>8. {q[i] : i \in 1..Len(q)} = Range(q)
    BY <1>2 DEF Range
  <1> QED BY <1>1, <1>7, <1>8
\* ... and the first stays first.
LEMMA KeepingHead ==
    ASSUME NEW S, NEW q \in Seq(S), NEW X, q # <<>>, Head(q) \in X
    PROVE  Keeping(q, X) # <<>> /\ Head(Keeping(q, X)) = Head(q)
  <1>1. PICK F : /\ F[0] = <<>>
                 /\ \A i \in 1..Len(q) :
                      F[i] = IF q[i] \in X THEN Append(F[i - 1], q[i]) ELSE F[i - 1]
                 /\ Keeping(q, X) = F[Len(q)]
    BY KeepingSteps
  <1>2. /\ Len(q) \in Nat \ {0} /\ Head(q) = q[1]
        /\ \A i \in 1..Len(q) : q[i] \in S
    BY LenProperties, ElementOfSeq
  <1> DEFINE Good(n) == F[n] \in Seq(S) /\ Len(F[n]) > 0 /\ F[n][1] = q[1]
             T == {n \in Nat : n + 1 <= Len(q) => Good(n + 1)}
  <1>3. 0 \in T
    <2>1. F[1] = Append(<<>>, q[1])
      <3>1. 1 \in 1..Len(q) /\ 1 - 1 = 0 /\ q[1] \in X
        BY <1>2
      <3> QED BY <1>1, <3>1
    <2>2. Good(1)
      BY <1>2, <2>1
    <2> HIDE DEF Good
    <2> QED BY <2>2
  <1>4. ASSUME NEW n \in T PROVE n + 1 \in T
    <2>1. ASSUME n + 2 <= Len(q) PROVE Good(n + 2)
      <3>1. /\ n \in Nat /\ Good(n + 1) /\ n + 2 \in 1..Len(q) /\ q[n + 2] \in S
            /\ (n + 2) - 1 = n + 1
        BY <1>2, <2>1
      <3>2. F[n + 2] = IF q[n + 2] \in X THEN Append(F[n + 1], q[n + 2]) ELSE F[n + 1]
        BY <1>1, <3>1
      <3>3. \A r \in Seq(S), x \in S : Len(r) > 0 =>
              /\ Append(r, x) \in Seq(S) /\ Len(Append(r, x)) > 0
              /\ Append(r, x)[1] = r[1]
        OBVIOUS
      <3> QED BY <3>1, <3>2, <3>3
    <2>2. n \in Nat /\ (n + 1) + 1 = n + 2
      OBVIOUS
    <2> HIDE DEF Good
    <2> QED BY <2>1, <2>2
  <1>5. Len(q) - 1 \in T
    <2>1. T \in SUBSET Nat
      OBVIOUS
    <2> HIDE DEF T
    <2>2. T = Nat
      BY <1>3, <1>4, <2>1, Induction
    <2> QED BY <1>2, <2>2
  <1>6. Good(Len(q))
    BY <1>2, <1>5
  <1> QED BY <1>1, <1>2, <1>6

\* A queue without elements is empty.
LEMMA NoElements ==
    ASSUME NEW S, NEW q \in Seq(S)
    PROVE  Range(q) = {} <=> q = <<>>
  <1>1. Range(<<>>) = {}
    BY DEF Range
  <1>2. ASSUME q # <<>> PROVE q[1] \in Range(q)
    BY <1>2 DEF Range
  <1> QED BY <1>1, <1>2

-----------------------------------------------------------------------------
(* Several queues, with each element in one place                          *)

\* The sequences of a function have each element in one place.
Apart(ss) ==
    /\ \A k \in DOMAIN ss : IsInjective(ss[k])
    /\ \A k, l \in DOMAIN ss : Range(ss[k]) \cap Range(ss[l]) # {} => k = l

Family(D, S) == [D -> Seq(S)]

Absent(ss, x) == \A k \in DOMAIN ss : x \notin Range(ss[k])

Emptied(ss, k)    == [ss EXCEPT ![k] = <<>>]

\* One more element at the end of one of them.
LEMMA ApartAdd ==
    ASSUME NEW D, NEW S, NEW ss \in Family(D, S), NEW k \in D, NEW x \in S,
           Apart(ss), Absent(ss, x)
    PROVE  /\ Enqueued(ss, k, x) \in Family(D, S)
           /\ \A l \in D : \A y : y \in Range(Enqueued(ss, k, x)[l]) <=>
                y \in Range(ss[l]) \/ (l = k /\ y = x)
           /\ Apart(Enqueued(ss, k, x))
  <1> USE DEF Family, Absent
  <1> DEFINE tt == Enqueued(ss, k, x)
  <1>1. /\ Append(ss[k], x) \in Seq(S)
        /\ Range(Append(ss[k], x)) = Range(ss[k]) \cup {x}
        /\ IsInjective(ss[k]) /\ x \notin Range(ss[k]) => IsInjective(Append(ss[k], x))
    BY AppendElements
  <1>2. \A l \in D : tt[l] = IF l = k THEN Append(ss[k], x) ELSE ss[l]
    BY DEF Enqueued
  <1>3. tt \in Family(D, S)
    BY <1>1 DEF Enqueued
  <1> HIDE DEF tt
  <1>4. \A l \in D : \A y : y \in Range(tt[l]) <=> y \in Range(ss[l]) \/ (l = k /\ y = x)
    BY <1>1, <1>2
  <1>5. Apart(tt)
    <2>1. DOMAIN tt = D /\ DOMAIN ss = D
      BY <1>3
    <2>2. \A l \in D : IsInjective(tt[l])
      BY <1>1, <1>2, <2>1 DEF Apart
    <2>3. \A l, m \in D : Range(tt[l]) \cap Range(tt[m]) # {} => l = m
      BY <1>4, <2>1 DEF Apart
    <2> QED BY <2>1, <2>2, <2>3 DEF Apart
  <1> QED BY <1>3, <1>4, <1>5 DEF tt

\* One element less in one of them.
LEMMA ApartRemove ==
    ASSUME NEW D, NEW S, NEW ss \in Family(D, S), NEW k \in D, NEW x, Apart(ss)
    PROVE  /\ Dropped(ss, k, x) \in Family(D, S)
           /\ \A l \in D : \A y : y \in Range(Dropped(ss, k, x)[l]) <=>
                y \in Range(ss[l]) /\ ~ (l = k /\ y = x)
           /\ Apart(Dropped(ss, k, x))
  <1> USE DEF Family
  <1> DEFINE tt == Dropped(ss, k, x)
  <1>1. IsInjective(ss[k])
    BY DEF Apart
  <1>2. /\ Without(ss[k], x) \in Seq(S)
        /\ Range(Without(ss[k], x)) = Range(ss[k]) \ {x}
        /\ IsInjective(Without(ss[k], x))
    BY <1>1, WithoutElements
  <1>3. \A l \in D : tt[l] = IF l = k THEN Without(ss[k], x) ELSE ss[l]
    BY DEF Dropped
  <1>4. tt \in Family(D, S)
    BY <1>2 DEF Dropped
  <1> HIDE DEF tt
  <1>5. \A l \in D : \A y : y \in Range(tt[l]) <=> y \in Range(ss[l]) /\ ~ (l = k /\ y = x)
    BY <1>2, <1>3
  <1>6. DOMAIN tt = D /\ DOMAIN ss = D
    BY <1>4
  <1>7. \A l \in D : IsInjective(tt[l])
    BY <1>2, <1>3, <1>6 DEF Apart
  <1>8. \A l, m \in D : Range(tt[l]) \cap Range(tt[m]) # {} => l = m
    BY <1>5, <1>6 DEF Apart
  <1>9. Apart(tt)
    BY <1>6, <1>7, <1>8 DEF Apart
  <1> QED BY <1>4, <1>5, <1>9 DEF tt

\* One of them emptied.
LEMMA ApartEmpty ==
    ASSUME NEW D, NEW S, NEW ss \in Family(D, S), NEW k \in D, Apart(ss)
    PROVE  /\ Emptied(ss, k) \in Family(D, S)
           /\ \A l \in D : \A y : y \in Range(Emptied(ss, k)[l]) <=> y \in Range(ss[l]) /\ l # k
           /\ Apart(Emptied(ss, k))
  <1> USE DEF Family
  <1> DEFINE tt == Emptied(ss, k)
  <1>1. <<>> \in Seq(S) /\ IsInjective(<<>>) /\ Range(<<>>) = {}
    BY EmptySeq DEF Range, IsInjective
  <1>2. \A l \in D : tt[l] = IF l = k THEN <<>> ELSE ss[l]
    BY DEF Emptied
  <1>3. tt \in Family(D, S)
    BY <1>1 DEF Emptied
  <1> HIDE DEF tt
  <1>4. \A l \in D : \A y : y \in Range(tt[l]) <=> y \in Range(ss[l]) /\ l # k
    BY <1>1, <1>2
  <1>5. DOMAIN tt = D /\ DOMAIN ss = D
    BY <1>3
  <1>6. \A l \in D : IsInjective(tt[l])
    BY <1>1, <1>2, <1>5 DEF Apart
  <1>7. \A l, m \in D : Range(tt[l]) \cap Range(tt[m]) # {} => l = m
    BY <1>4, <1>5 DEF Apart
  <1>8. Apart(tt)
    BY <1>5, <1>6, <1>7 DEF Apart
  <1> QED BY <1>3, <1>4, <1>8 DEF tt
=============================================================================
