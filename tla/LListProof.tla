----------------------------- MODULE LListProof -----------------------------
(***************************************************************************)
(* The lists of include/llist.h stay rings, for any number of items and    *)
(* lists.                                                                  *)
(***************************************************************************)
EXTENDS LList, QueueLemmas

\* The inductive invariant: rings that share items would not survive a
\* removal from one of them.
LInv == TypeOK /\ Disjoint /\ Rings

\* What a position of a list has beside it.
After(s, i)  == IF i = Len(s) THEN 1 ELSE i + 1
Before(s, i) == IF i = 1 THEN Len(s) ELSE i - 1

LEMMA Neighbours ==
    ASSUME LInv, NEW l \in List, NEW i \in DOMAIN order[l]
    PROVE  /\ After(order[l], i) \in DOMAIN order[l]
           /\ Before(order[l], i) \in DOMAIN order[l]
           /\ order[l][i] \in Item
           /\ next[order[l][i]] = order[l][After(order[l], i)]
           /\ prev[order[l][i]] = order[l][Before(order[l], i)]
  <1>1. order[l] \in Seq(Item) /\ DOMAIN order[l] = 1..Len(order[l])
        /\ Len(order[l]) \in Nat
    BY LenProperties DEF LInv, TypeOK
  <1>2. order[l][i] \in Item
    BY <1>1, ElementOfSeq
  <1>3. /\ next[order[l][i]] = IF i = Len(order[l]) THEN order[l][1] ELSE order[l][i + 1]
        /\ prev[order[l][i]] = IF i = 1 THEN order[l][Len(order[l])] ELSE order[l][i - 1]
    BY DEF LInv, Rings, Ring
  <1> QED BY <1>1, <1>2, <1>3 DEF After, Before

\* LLIST_REMOVE touches no item of another list.
LEMMA UnlinkElsewhere ==
    ASSUME LInv, NEW l \in List, NEW i \in DOMAIN order[l], Unlink(order[l][i]),
           NEW m \in List \ {l}, NEW j \in DOMAIN order[m]
    PROVE  /\ next'[order[m][j]] = next[order[m][j]]
           /\ prev'[order[m][j]] = prev[order[m][j]]
  <1>1. /\ next[order[l][i]] \in Item /\ prev[order[l][i]] \in Item
        /\ order[m][j] # next[order[l][i]]
        /\ order[m][j] # prev[order[l][i]]
    <2>1. /\ next[order[l][i]] = order[l][After(order[l], i)]
          /\ prev[order[l][i]] = order[l][Before(order[l], i)]
          /\ After(order[l], i) \in DOMAIN order[l] /\ Before(order[l], i) \in DOMAIN order[l]
      BY Neighbours
    <2>2. \A k \in DOMAIN order[l] : order[l][k] \in Item /\ order[m][j] # order[l][k]
      BY Neighbours DEF LInv, Disjoint
    <2> QED BY <2>1, <2>2
  <1>2. order[m][j] \in Item
    BY Neighbours
  <1> QED BY <1>1, <1>2 DEF Unlink, LInv, TypeOK

\* ... and closes the ring it takes an item from, if that has others.
LEMMA UnlinkCloses ==
    ASSUME LInv, NEW l \in List, NEW i \in DOMAIN order[l], Unlink(order[l][i]),
           Len(order[l]) # 1
    PROVE  LET s == order[l]
               t == RemoveAt(s, i)
           IN  /\ \A j \in DOMAIN t :
                    /\ next'[t[j]] = IF j = Len(t) THEN t[1] ELSE t[j + 1]
                    /\ prev'[t[j]] = IF j = 1 THEN t[Len(t)] ELSE t[j - 1]
               /\ next'[s[i]] = s[After(s, i)] /\ s[After(s, i)] # s[i]
               /\ t # <<>> /\ t[1] = IF i = 1 THEN s[2] ELSE s[1]
  <1> DEFINE s == order[l]
             t == RemoveAt(s, i)
             n == Len(s)
             From(j) == IF j < i THEN j ELSE j + 1
  <1>1. s \in Seq(Item) /\ n \in Nat /\ i \in 1..n /\ DOMAIN s = 1..n /\ n > 1
    <2>1. s \in Seq(Item)
      BY DEF LInv, TypeOK
    <2>2. n \in Nat /\ DOMAIN s = 1..n
      BY <2>1, LenProperties
    <2>3. i \in 1..n /\ n # 1
      BY <2>2
    <2> HIDE DEF s, n
    <2> QED BY <2>1, <2>2, <2>3
  <1>2. /\ t \in Seq(Item) /\ Len(t) = n - 1 /\ DOMAIN t = 1..(n - 1)
        /\ \A j \in 1..(n - 1) : t[j] = s[From(j)] /\ From(j) \in 1..n /\ From(j) # i
    BY <1>1, RemoveAtElements, LenProperties
  <1>3. \A j, k \in 1..n : s[j] = s[k] => j = k
    BY <1>1 DEF LInv, Disjoint
  <1>4. /\ After(s, i) \in 1..n /\ Before(s, i) \in 1..n
        /\ next[s[i]] = s[After(s, i)] /\ prev[s[i]] = s[Before(s, i)]
    BY <1>1, Neighbours
  <1>5. \A k \in 1..n :
          /\ next'[s[k]] = IF k = Before(s, i) THEN s[After(s, i)] ELSE s[After(s, k)]
          /\ prev'[s[k]] = IF k = After(s, i) THEN s[Before(s, i)] ELSE s[Before(s, k)]
    <2> SUFFICES ASSUME NEW k \in 1..n
                 PROVE  /\ next'[s[k]] = IF k = Before(s, i) THEN s[After(s, i)]
                                         ELSE s[After(s, k)]
                        /\ prev'[s[k]] = IF k = After(s, i) THEN s[Before(s, i)]
                                         ELSE s[Before(s, k)]
      OBVIOUS
    <2>1. /\ next[s[k]] = s[After(s, k)] /\ prev[s[k]] = s[Before(s, k)]
          /\ s[k] \in Item
      BY <1>1, Neighbours
    <2>2. /\ next' = [next EXCEPT ![s[Before(s, i)]] = s[After(s, i)]]
          /\ prev' = [prev EXCEPT ![s[After(s, i)]] = s[Before(s, i)]]
      BY <1>4 DEF Unlink
    <2>3. next \in [Item -> Item \cup {Null}] /\ prev \in [Item -> Item \cup {Null}]
      BY DEF LInv, TypeOK
    <2> HIDE DEF s, n
    <2> QED BY <1>3, <1>4, <2>1, <2>2, <2>3
  <1>6. After(s, i) # i /\ Before(s, i) # i
    BY <1>1 DEF After, Before
  <1> HIDE DEF s, t, n
  <1>7. ASSUME NEW j \in 1..(n - 1)
        PROVE  /\ next'[t[j]] = IF j = n - 1 THEN t[1] ELSE t[j + 1]
               /\ prev'[t[j]] = IF j = 1 THEN t[n - 1] ELSE t[j - 1]
    <2>1. /\ IF From(j) = Before(s, i) THEN After(s, i) = From(IF j = n - 1 THEN 1 ELSE j + 1)
             ELSE After(s, From(j)) = From(IF j = n - 1 THEN 1 ELSE j + 1)
          /\ IF From(j) = After(s, i) THEN Before(s, i) = From(IF j = 1 THEN n - 1 ELSE j - 1)
             ELSE Before(s, From(j)) = From(IF j = 1 THEN n - 1 ELSE j - 1)
      <3>1. Len(s) = n
        BY DEF n
      <3>2. CASE j < i
        BY <1>1, <3>1, <3>2 DEF After, Before
      <3>3. CASE ~ j < i
        BY <1>1, <3>1, <3>3 DEF After, Before
      <3> QED BY <3>2, <3>3
    <2>2. /\ next'[t[j]] = s[From(IF j = n - 1 THEN 1 ELSE j + 1)]
          /\ prev'[t[j]] = s[From(IF j = 1 THEN n - 1 ELSE j - 1)]
      BY <1>2, <1>5, <2>1
    <2>3. (IF j = n - 1 THEN 1 ELSE j + 1) \in 1..(n - 1)
          /\ (IF j = 1 THEN n - 1 ELSE j - 1) \in 1..(n - 1)
      BY <1>1
    <2> QED BY <1>2, <2>2, <2>3
  <1>8. next'[s[i]] = s[After(s, i)] /\ s[After(s, i)] # s[i]
    BY <1>1, <1>3, <1>4, <1>5, <1>6
  <1>9. t # <<>> /\ t[1] = IF i = 1 THEN s[2] ELSE s[1]
    BY <1>1, <1>2
  <1> QED BY <1>2, <1>7, <1>8, <1>9 DEF s, t, n

-----------------------------------------------------------------------------
(* The steps                                                               *)

\* A list that loses an item keeps the others apart.
LEMMA RemovedTypes ==
    ASSUME LInv, NEW l \in List, NEW i \in DOMAIN order[l],
           order' = [order EXCEPT ![l] = RemoveAt(@, i)]
    PROVE  order' \in [List -> Seq(Item)] /\ Disjoint'
  <1>1. order[l] \in Seq(Item) /\ i \in 1..Len(order[l]) /\ Len(order[l]) \in Nat
    BY LenProperties DEF LInv, TypeOK
  <1>2. /\ RemoveAt(order[l], i) \in Seq(Item)
        /\ Len(RemoveAt(order[l], i)) = Len(order[l]) - 1
        /\ \A k \in 1..(Len(order[l]) - 1) :
             RemoveAt(order[l], i)[k] = IF k < i THEN order[l][k] ELSE order[l][k + 1]
    BY <1>1, RemoveAtElements
  <1>3. order' \in [List -> Seq(Item)]
    BY <1>2 DEF LInv, TypeOK
  <1> DEFINE From(m, j) == IF m # l \/ j < i THEN j ELSE j + 1
  <1>4. \A m \in List : \A j \in DOMAIN order'[m] :
          From(m, j) \in DOMAIN order[m] /\ order'[m][j] = order[m][From(m, j)]
    <2> SUFFICES ASSUME NEW m \in List, NEW j \in DOMAIN order'[m]
                 PROVE  From(m, j) \in DOMAIN order[m]
                        /\ order'[m][j] = order[m][From(m, j)]
      OBVIOUS
    <2>1. CASE m # l
      BY <2>1 DEF LInv, TypeOK
    <2>2. CASE m = l
      <3>1. order'[m] = RemoveAt(order[l], i)
        BY <2>2 DEF LInv, TypeOK
      <3>2. /\ DOMAIN order'[m] = 1..(Len(order[l]) - 1)
            /\ \A k \in 1..(Len(order[l]) - 1) :
                 order'[m][k] = IF k < i THEN order[l][k] ELSE order[l][k + 1]
        <4>1. DOMAIN RemoveAt(order[l], i) = 1..Len(RemoveAt(order[l], i))
          BY <1>2, LenProperties
        <4> HIDE DEF From
        <4> QED BY <1>2, <3>1, <4>1
      <3>3. DOMAIN order[m] = 1..Len(order[l])
        BY <1>1, <2>2, LenProperties
      <3> QED BY <1>1, <2>2, <3>2, <3>3
    <2> QED BY <2>1, <2>2
  <1>5. \A m, k \in List : \A j \in DOMAIN order'[m], h \in DOMAIN order'[k] :
          order'[m][j] = order'[k][h] => m = k /\ From(m, j) = From(k, h)
    <2> SUFFICES ASSUME NEW m \in List, NEW k \in List,
                        NEW j \in DOMAIN order'[m], NEW h \in DOMAIN order'[k],
                        order'[m][j] = order'[k][h]
                 PROVE  m = k /\ From(m, j) = From(k, h)
      OBVIOUS
    <2>1. /\ From(m, j) \in DOMAIN order[m] /\ From(k, h) \in DOMAIN order[k]
          /\ order[m][From(m, j)] = order[k][From(k, h)]
      BY <1>4
    <2> HIDE DEF From
    <2> QED BY <2>1 DEF LInv, Disjoint
  <1>6. \A m \in List : \A j \in DOMAIN order'[m] : j \in Int
    BY <1>3, LenProperties
  <1>7. \A m \in List : \A j, h \in DOMAIN order'[m] : From(m, j) = From(m, h) => j = h
    BY <1>1, <1>6
  <1>8. Disjoint'
    BY <1>5, <1>7 DEF Disjoint
  <1> QED BY <1>3, <1>8

\* LLIST_REMOVE through the list's own head, or through the head k of
\* another one when the item is not its first.
LEMMA RemoveStep ==
    ASSUME LInv, NEW k \in List, NEW l \in List, NEW i \in DOMAIN order[l],
           Unlink(order[l][i]), Advance(k, order[l][i]), k = l \/ i # 1,
           order' = [order EXCEPT ![l] = RemoveAt(@, i)]
    PROVE  LInv'
  <1> DEFINE s == order[l]
             e == order[l][i]
  <1>1. s \in Seq(Item) /\ Len(s) \in Nat /\ DOMAIN s = 1..Len(s) /\ i \in 1..Len(s)
    BY LenProperties DEF LInv, TypeOK
  <1>2. e \in Item /\ next[e] \in Item /\ prev[e] \in Item
    BY Neighbours
  <1>3. /\ next' \in [Item -> Item \cup {Null}]
        /\ prev' \in [Item -> Item \cup {Null}]
    BY <1>2 DEF Unlink, LInv, TypeOK
  <1>4. order' \in [List -> Seq(Item)] /\ Disjoint'
    BY RemovedTypes
  <1>5. head' \in [List -> Item \cup {Null}]
    BY <1>2, <1>3 DEF Advance, LInv, TypeOK
  <1>6. \A m \in List \ {l} : head[m] # e
    <2> SUFFICES ASSUME NEW m \in List, m # l, head[m] = e PROVE FALSE
      OBVIOUS
    <2>1. order[m] \in Seq(Item) /\ head[m] = IF order[m] = <<>> THEN Null ELSE order[m][1]
      BY DEF LInv, TypeOK, Rings, Ring
    <2>2. order[m] # <<>> /\ order[m][1] = e
      BY <1>2, <2>1, NullAssumption
    <2>3. 1 \in DOMAIN order[m]
      BY <2>1, <2>2, EmptySeq, LenProperties
    <2> QED BY <2>2, <2>3 DEF LInv, Disjoint
  <1>7. \A m \in List \ {l} : head'[m] = head[m]
    BY <1>6 DEF Advance, LInv, TypeOK
  <1>8. ASSUME NEW m \in List \ {l} PROVE Ring(order[m], head[m])'
    <2>1. order'[m] = order[m]
      BY DEF LInv, TypeOK
    <2>2. \A j \in DOMAIN order[m] : /\ next'[order[m][j]] = next[order[m][j]]
                                     /\ prev'[order[m][j]] = prev[order[m][j]]
      BY UnlinkElsewhere
    <2>3. Ring(order[m], head[m])
      BY DEF LInv, Rings
    <2> QED BY <1>7, <2>1, <2>2, <2>3 DEF Ring
  <1>9. Ring(order[l], head[l])'
    <2> DEFINE t == RemoveAt(s, i)
    <2>1. order'[l] = t
      BY DEF LInv, TypeOK
    <2>2. head[l] = s[1]
      BY <1>1, EmptySeq DEF LInv, Rings, Ring
    <2>3. CASE Len(s) = 1
      <3>1. i = 1 /\ k = l /\ After(s, i) = 1 /\ Before(s, i) = 1
        BY <1>1, <2>3 DEF After, Before
      <3>2. next[e] = e /\ prev[e] = e
        BY <3>1, Neighbours
      <3>3. next'[e] = e /\ prev'[e] = e
        BY <1>2, <3>2 DEF Unlink, LInv, TypeOK
      <3>4. head'[l] = Null
        BY <2>2, <3>1, <3>3 DEF Advance, Single, LInv, TypeOK
      <3>5. t = <<>>
        BY <1>1, <2>3, RemoveAtElements, EmptySeq
      <3> QED BY <2>1, <3>4, <3>5 DEF Ring
    <2>4. CASE Len(s) # 1
      <3>1. /\ \A j \in DOMAIN t :
                 /\ next'[t[j]] = IF j = Len(t) THEN t[1] ELSE t[j + 1]
                 /\ prev'[t[j]] = IF j = 1 THEN t[Len(t)] ELSE t[j - 1]
            /\ next'[e] = s[After(s, i)] /\ s[After(s, i)] # e
            /\ t # <<>> /\ t[1] = IF i = 1 THEN s[2] ELSE s[1]
        BY <2>4, UnlinkCloses
      <3>2. head'[l] = t[1]
        <4>1. CASE i = 1
          <5>1. k = l /\ After(s, i) = 2
            BY <1>1, <2>4, <4>1 DEF After
          <5> QED BY <2>2, <3>1, <4>1, <5>1 DEF Advance, Single, LInv, TypeOK
        <4>2. CASE i # 1
          <5>1. head[l] # e
            BY <1>1, <2>2, <4>2 DEF LInv, Disjoint
          <5>2. head' = head
            BY <1>6, <5>1 DEF Advance
          <5> QED BY <2>2, <3>1, <4>2, <5>2
        <4> QED BY <4>1, <4>2
      <3> QED BY <2>1, <3>1, <3>2 DEF Ring
    <2> QED BY <2>3, <2>4
  <1>10. Rings'
    BY <1>8, <1>9 DEF Rings
  <1> QED BY <1>3, <1>4, <1>5, <1>10 DEF LInv, TypeOK

\* An item that is in no list goes to the tail of l.
LEMMA AddStep ==
    ASSUME LInv, NEW l \in List, NEW e \in Item, AddFirst(l, e) \/ AddLast(l, e)
    PROVE  LInv'
  <1> DEFINE s == order[l]
             n == Len(order[l])
  <1>1. s \in Seq(Item) /\ n \in Nat /\ DOMAIN s = 1..n
    <2>1. s \in Seq(Item)
      BY DEF LInv, TypeOK
    <2> QED BY <2>1, LenProperties
  <1>2. \A m \in List : \A j \in DOMAIN order[m] : order[m][j] # e
    BY DEF AddFirst, AddLast, Listed, Range
  <1>3. order' = [order EXCEPT ![l] = Append(s, e)]
    BY DEF AddFirst, AddLast, LInv, TypeOK
  <1>4. /\ Append(s, e) \in Seq(Item)
        /\ DOMAIN Append(s, e) = 1..(n + 1) /\ Len(Append(s, e)) = n + 1
        /\ \A j \in 1..n : Append(s, e)[j] = s[j]
        /\ Append(s, e)[n + 1] = e
    BY <1>1, AppendProperties
  <1>5. order' \in [List -> Seq(Item)]
    BY <1>3, <1>4 DEF LInv, TypeOK
  <1>6. order'[l] = Append(s, e) /\ \A m \in List \ {l} : order'[m] = order[m]
    BY <1>3 DEF LInv, TypeOK
  <1>7. Disjoint'
    <2> SUFFICES ASSUME NEW m \in List, NEW k \in List,
                        NEW i \in DOMAIN order'[m], NEW j \in DOMAIN order'[k],
                        order'[m][i] = order'[k][j]
                 PROVE  m = k /\ i = j
      BY DEF Disjoint
    <2>1. ASSUME NEW a \in List, NEW h \in DOMAIN order'[a]
          PROVE  \/ h \in DOMAIN order[a] /\ order'[a][h] = order[a][h]
                 \/ a = l /\ h = n + 1 /\ order'[a][h] = e
      <3>1. CASE a # l
        BY <1>6, <3>1
      <3>2. CASE a = l
        <4>1. h \in 1..(n + 1)
          BY <1>4, <1>6, <3>2
        <4>2. h \in 1..n \/ h = n + 1
          BY <1>1, <4>1
        <4> QED BY <1>1, <1>4, <1>6, <3>2, <4>2
      <3> QED BY <3>1, <3>2
    <2> QED BY <1>2, <2>1 DEF LInv, Disjoint
  <1>8. \A m \in List \ {l} : head'[m] = head[m]
    BY DEF AddFirst, AddLast, LInv, TypeOK
  <1>9. head[l] = IF s = <<>> THEN Null ELSE s[1]
    BY DEF LInv, Rings, Ring
  <1>10. CASE AddFirst(l, e)
    <2>1. s = <<>> /\ n = 0
      <3>1. s = <<>>
        <4>1. ASSUME s # <<>> PROVE s[1] \in Item
          BY <1>1, <4>1, EmptySeq, ElementOfSeq
        <4> QED BY <1>9, <1>10, <4>1, NullAssumption DEF AddFirst
      <3> QED BY <3>1, EmptySeq
    <2>2. /\ head' = [head EXCEPT ![l] = e]
          /\ next' = [next EXCEPT ![e] = e] /\ prev' = [prev EXCEPT ![e] = e]
      BY <1>10 DEF AddFirst
    <2>3. Ring(order[l], head[l])'
      <3>1. order'[l] # <<>>
        BY <1>4, <1>6, <2>1, EmptySeq
      <3> QED BY <1>4, <1>6, <2>1, <2>2, <3>1 DEF Ring, LInv, TypeOK
    <2>4. ASSUME NEW m \in List \ {l} PROVE Ring(order[m], head[m])'
      <3>1. \A j \in DOMAIN order[m] : /\ next'[order[m][j]] = next[order[m][j]]
                                       /\ prev'[order[m][j]] = prev[order[m][j]]
        BY <1>2, <2>2, Neighbours DEF LInv, TypeOK
      <3> QED BY <1>6, <1>8, <3>1 DEF Ring, LInv, Rings
    <2>5. TypeOK'
      BY <1>5, <2>2 DEF LInv, TypeOK
    <2> QED BY <1>7, <2>3, <2>4, <2>5 DEF LInv, Rings
  <1>11. CASE AddLast(l, e)
    <2>1. n \in Nat /\ n >= 1 /\ s # <<>> /\ head[l] = s[1]
      BY <1>1, <1>9, <1>11, EmptySeq DEF AddLast
    <2>2. prev[s[1]] = s[n] /\ next[s[n]] = s[1] /\ s[1] \in Item /\ s[n] \in Item
      <3>1. 1 \in DOMAIN s /\ n \in DOMAIN s
        BY <1>1, <2>1
      <3>2. /\ prev[s[1]] = s[Before(s, 1)] /\ s[1] \in Item
            /\ next[s[n]] = s[After(s, n)] /\ s[n] \in Item
        BY <3>1, Neighbours
      <3> QED BY <3>2 DEF Before, After
    <2>3. /\ head' = head
          /\ next' = [next EXCEPT ![e] = s[1], ![s[n]] = e]
          /\ prev' = [prev EXCEPT ![e] = s[n], ![s[1]] = e]
      BY <1>11, <2>1, <2>2 DEF AddLast
    <2>4. \A x \in Item : /\ next'[x] = IF x = s[n] THEN e ELSE IF x = e THEN s[1] ELSE next[x]
                          /\ prev'[x] = IF x = s[1] THEN e ELSE IF x = e THEN s[n] ELSE prev[x]
      BY <2>2, <2>3 DEF LInv, TypeOK
    <2>5. Ring(order[l], head[l])'
      <3>1. order'[l] # <<>> /\ order'[l][1] = s[1]
        BY <1>1, <1>4, <1>6, <2>1, EmptySeq
      <3>2. ASSUME NEW j \in 1..n
            PROVE  /\ next'[s[j]] = IF j = n THEN e ELSE s[j + 1]
                   /\ prev'[s[j]] = IF j = 1 THEN e ELSE s[j - 1]
        <4>1. /\ s[j] \in Item /\ s[j] # e
              /\ next[s[j]] = s[After(s, j)] /\ prev[s[j]] = s[Before(s, j)]
          BY <1>1, <1>2, Neighbours
        <4>2. (s[j] = s[n] <=> j = n) /\ (s[j] = s[1] <=> j = 1)
          BY <1>1, <2>1 DEF LInv, Disjoint
        <4> QED BY <2>4, <4>1, <4>2 DEF After, Before
      <3>3. next'[e] = s[1] /\ prev'[e] = s[n]
        BY <1>1, <1>2, <2>1, <2>4
      <3>4. \A j \in 1..(n + 1) :
              /\ next'[order'[l][j]] = IF j = n + 1 THEN order'[l][1] ELSE order'[l][j + 1]
              /\ prev'[order'[l][j]] = IF j = 1 THEN order'[l][n + 1] ELSE order'[l][j - 1]
        <4> SUFFICES ASSUME NEW j \in 1..(n + 1)
                     PROVE  /\ next'[order'[l][j]] = IF j = n + 1 THEN order'[l][1]
                                                     ELSE order'[l][j + 1]
                            /\ prev'[order'[l][j]] = IF j = 1 THEN order'[l][n + 1]
                                                     ELSE order'[l][j - 1]
          OBVIOUS
        <4>1. CASE j = n + 1
          BY <1>4, <1>6, <2>1, <3>1, <3>3, <4>1
        <4>2. CASE j \in 1..n
          <5>1. order'[l][j] = s[j] /\ order'[l][n + 1] = e
            BY <1>4, <1>6, <4>2
          <5>2. j # n => order'[l][j + 1] = s[j + 1]
            BY <1>4, <1>6, <2>1, <4>2
          <5>3. j # 1 => order'[l][j - 1] = s[j - 1]
            BY <1>4, <1>6, <2>1, <4>2
          <5> QED BY <2>1, <3>2, <4>2, <5>1, <5>2, <5>3
        <4> QED BY <2>1, <4>1, <4>2
      <3>5. head'[l] = order'[l][1]
        BY <2>1, <2>3, <3>1
      <3>6. DOMAIN order'[l] = 1..(n + 1) /\ Len(order'[l]) = n + 1
        BY <1>4, <1>6
      <3> HIDE DEF s, n
      <3> QED BY <3>1, <3>4, <3>5, <3>6 DEF Ring
    <2>6. ASSUME NEW m \in List \ {l} PROVE Ring(order[m], head[m])'
      <3>1. \A j \in DOMAIN order[m] : /\ next'[order[m][j]] = next[order[m][j]]
                                       /\ prev'[order[m][j]] = prev[order[m][j]]
        <4> SUFFICES ASSUME NEW j \in DOMAIN order[m]
                     PROVE  /\ next'[order[m][j]] = next[order[m][j]]
                            /\ prev'[order[m][j]] = prev[order[m][j]]
          OBVIOUS
        <4>1. order[m][j] \in Item /\ order[m][j] # e
          BY <1>2, Neighbours
        <4>2. order[m][j] # s[1] /\ order[m][j] # s[n]
          BY <1>1, <2>1 DEF LInv, Disjoint
        <4> QED BY <2>4, <4>1, <4>2
      <3> QED BY <1>6, <1>8, <3>1 DEF Ring, LInv, Rings
    <2>7. TypeOK'
      BY <1>5, <2>2, <2>3 DEF LInv, TypeOK
    <2> QED BY <1>7, <2>5, <2>6, <2>7 DEF LInv, Rings
  <1> QED BY <1>10, <1>11

LEMMA StepLInv == LInv /\ [Next]_vars => LInv'
  <1> SUFFICES ASSUME LInv, [Next]_vars PROVE LInv'
    OBVIOUS
  <1>1. ASSUME NEW l \in List, NEW e \in Item, AddFirst(l, e) \/ AddLast(l, e)
        PROVE  LInv'
    BY <1>1, AddStep
  <1>2. ASSUME NEW l \in List, NEW e \in Item, RemoveFrom(l, e) PROVE LInv'
    <2>1. PICK i \in DOMAIN order[l] :
            /\ order[l][i] = e /\ Unlink(e) /\ Advance(l, e)
            /\ order' = [order EXCEPT ![l] = RemoveAt(@, i)]
      BY <1>2 DEF RemoveFrom
    <2> QED BY <2>1, RemoveStep
  <1>3. ASSUME NEW l \in List, NEW e \in Item, NEW k \in List, RemoveThrough(k, l, e)
        PROVE  LInv'
    <2>1. PICK i \in DOMAIN order[l] :
            /\ order[l][i] = e /\ i > 1 /\ Unlink(e) /\ Advance(k, e)
            /\ order' = [order EXCEPT ![l] = RemoveAt(@, i)]
      BY <1>3 DEF RemoveThrough
    <2>2. order[l] \in Seq(Item)
      BY DEF LInv, TypeOK
    <2>3. i \in 1..Len(order[l]) /\ i # 1
      BY <2>1, <2>2, LenProperties
    <2> QED BY <2>1, <2>3, RemoveStep
  <1>4. CASE UNCHANGED vars
    BY <1>4 DEF vars, LInv, TypeOK, Disjoint, Rings, Ring
  <1> QED BY <1>1, <1>2, <1>3, <1>4 DEF Next

\* Whatever is added and removed in whatever order, each list is the ring of
\* what it ought to hold.
THEOREM RingsCorrect == Spec => []Rings
  <1>1. Init => LInv
    BY EmptySeq DEF Init, LInv, TypeOK, Disjoint, Rings, Ring
  <1>2. LInv => Rings
    BY DEF LInv
  <1> QED BY <1>1, <1>2, StepLInv, PTL DEF Spec
=============================================================================
