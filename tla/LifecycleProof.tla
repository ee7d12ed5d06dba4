--------------------------- MODULE LifecycleProof ---------------------------
(***************************************************************************)
(* The properties of Lifecycle, for any numbers of structures and pages.   *)
(***************************************************************************)
EXTENDS Lifecycle, QueueLemmas

Lists == {"ready", "blocked"} \cup Proc

\* The values of the variables; a thread_list and the lists hold structures.
TypeOK ==
    /\ spare \in [proc : SUBSET Proc, thread : SUBSET Thread, wrapper : SUBSET Wrapper]
    /\ pool \subseteq Page
    /\ addrspace \in [Proc -> Page \cup {PoolError, None}]
    /\ pid \in [Proc -> Nat]
    /\ thread_list \in [Proc -> Seq(Wrapper)]
    /\ thread \in [Wrapper -> Thread \cup {None}]
    /\ proc \in [Thread -> Proc \cup {None}]
    /\ state \in [Thread -> {"none", "ready", "blocked"}]
    /\ lists \in [Lists -> Seq(Thread \cup {Ksetup})]
    /\ proc_table \in [Hash -> Seq(Proc)]
    /\ pid_seed \in Nat \ {0}

\* A thread's state says which kind of list it is in, and a structure that is
\* free is in none. The thread that runs is ready.
ThreadsListed ==
    /\ Apart(lists)
    /\ \A t \in Thread :
        /\ t \in Range(lists["ready"]) <=> t \notin spare.thread /\ state[t] = "ready"
        /\ (\E l \in Lists \ {"ready"} : t \in Range(lists[l]))
             <=> t \notin spare.thread /\ state[t] # "ready"
    /\ \A l \in Lists : Ksetup \in Range(lists[l]) <=> l = "ready"
    /\ cur_th \in Range(lists["ready"])
    /\ \A q \in spare.proc : lists[q] = <<>>

\* A wrapper in use is in the list of one process, and leads to a thread that
\* points back at it.
WrappersListed ==
    /\ Apart(thread_list)
    /\ \A w \in Wrapper :
        w \notin spare.wrapper <=> \E q \in Proc : w \in Range(thread_list[q])
    /\ \A q \in spare.proc : thread_list[q] = <<>>
    /\ \A q \in Proc : \A w \in Range(thread_list[q]) :
        thread[w] \in Thread \ spare.thread /\ proc[thread[w]] = q
    /\ \A t \in Thread \ spare.thread : proc[t] \in Live \cup {None}

\* A process is where its number says, and numbers are not used twice.
ProcsListed ==
    /\ Apart(proc_table)
    /\ \A h \in Hash, q \in Proc :
        q \in Range(proc_table[h]) <=> q \in Live /\ h = HashId(pid[q])
    /\ \A q \in Live : pid[q] \in 1..(pid_seed - 1)
    /\ \A q, r \in Live : pid[q] = pid[r] => q = r

\* A page is free or the space of one process.
SpacesApart ==
    /\ \A q \in Live : addrspace[q] \in Page \cup {PoolError}
    /\ \A a \in Page : a \in pool <=> \A q \in Live : addrspace[q] # a
    /\ \A q, r \in Live : addrspace[q] = addrspace[r] /\ addrspace[q] \in Page => q = r

IInv ==
    /\ TypeOK
    /\ ThreadsListed
    /\ WrappersListed
    /\ ProcsListed
    /\ SpacesApart

\* An element of a family of such sequences has one place in it, another has none.
LEMMA OnePlace ==
    ASSUME NEW D, NEW S, NEW ss \in Family(D, S), NEW x, Apart(ss)
    PROVE  Cardinality(Places(ss, x)) = IF \E k \in D : x \in Range(ss[k]) THEN 1 ELSE 0
  <1> USE DEF Family
  <1>1. DOMAIN ss = D /\ \A k \in D : DOMAIN ss[k] = 1..Len(ss[k])
    BY LenProperties
  <1>2. CASE \A k \in D : x \notin Range(ss[k])
    <2>1. \A k \in D : {i \in DOMAIN ss[k] : ss[k][i] = x} = {}
      BY <1>2 DEF Range
    <2>2. Places(ss, x) = {}
      BY <1>1, <2>1 DEF Places
    <2> QED BY <1>2, <2>2, FS_EmptySet
  <1>3. ASSUME NEW k \in D, x \in Range(ss[k])
        PROVE  Cardinality(Places(ss, x)) = 1
    <2>1. PICK i \in DOMAIN ss[k] : ss[k][i] = x
      BY <1>3 DEF Range
    <2>2. ASSUME NEW l \in D, NEW j \in DOMAIN ss[l], ss[l][j] = x
          PROVE  l = k /\ j = i
      <3>1. x \in Range(ss[l])
        BY <2>2 DEF Range
      <3>2. l = k
        BY <1>1, <1>3, <3>1 DEF Apart
      <3> QED BY <1>1, <2>1, <2>2, <3>2 DEF Apart, IsInjective
    <2>3. Places(ss, x) = {<<k, i>>}
      <3>1. <<k, i>> \in Places(ss, x)
        BY <1>1, <2>1 DEF Places
      <3>2. ASSUME NEW p \in Places(ss, x) PROVE p = <<k, i>>
        <4>1. PICK l \in D : p \in {l} \X {j \in DOMAIN ss[l] : ss[l][j] = x}
          BY <1>1 DEF Places
        <4> QED BY <2>2, <4>1
      <3> QED BY <3>1, <3>2
    <2> QED BY <2>3, FS_Singleton
  <1> QED BY <1>2, <1>3

-----------------------------------------------------------------------------
(* What the steps do to the lists of threads                               *)

LEMMA ListsFacts ==
    ASSUME IInv
    PROVE  /\ lists \in Family(Lists, Thread \cup {Ksetup}) /\ Apart(lists)
           /\ "ready" \in Lists /\ "blocked" \in Lists /\ "ready" # "blocked"
           /\ Proc \subseteq Lists /\ "ready" \notin Proc /\ "blocked" \notin Proc
           /\ cur_th \in Thread \cup {Ksetup}
           /\ Ksetup \notin Thread
           /\ DOMAIN lists = Lists
  <1> USE DEF Family
  <1>1. cur_th \in Thread \cup {Ksetup}
    <2>1. Range(lists["ready"]) \subseteq Thread \cup {Ksetup}
      BY RangeOfSeq DEF IInv, TypeOK, Lists
    <2> QED BY <2>1 DEF IInv, ThreadsListed
  <1> QED BY <1>1, LifecycleAssumption DEF IInv, TypeOK, ThreadsListed, Lists

\* sched_elect moves the head of the ready queue to its end.
LEMMA Elects ==
    ASSUME NEW S, NEW L \in Family(Lists, S), Apart(L), L["ready"] # <<>>, Elect(L)
    PROVE  /\ lists' \in Family(Lists, S) /\ Apart(lists')
           /\ \A l \in Lists : Range(lists'[l]) = Range(L[l])
           /\ \A l \in Lists : l # "ready" => lists'[l] = L[l]
           /\ cur_th' \in Range(lists'["ready"])
  <1> USE DEF Family
  <1> DEFINE q == L["ready"]
             r == Append(Tail(q), Head(q))
  <1>1. "ready" \in Lists /\ q \in Seq(S) /\ IsInjective(q)
    BY DEF Lists, Apart
  <1>2. /\ Head(q) \in Range(q) /\ r \in Seq(S) /\ Range(r) = Range(q) /\ IsInjective(r)
    BY <1>1, RotateElements
  <1>3. lists' = [L EXCEPT !["ready"] = r] /\ cur_th' = Head(q)
    BY DEF Elect
  <1> HIDE DEF r
  <1>4. /\ lists' \in Family(Lists, S)
        /\ \A l \in Lists : lists'[l] = IF l = "ready" THEN r ELSE L[l]
    BY <1>1, <1>2, <1>3
  <1>5. \A l \in Lists : Range(lists'[l]) = Range(L[l])
    BY <1>2, <1>4
  <1>6. DOMAIN lists' = Lists /\ DOMAIN L = Lists
    BY <1>4
  <1>7. \A l \in Lists : IsInjective(lists'[l])
    BY <1>2, <1>4, <1>6 DEF Apart
  <1>8. \A l, m \in Lists : Range(lists'[l]) \cap Range(lists'[m]) # {} => l = m
    BY <1>5, <1>6 DEF Apart
  <1>9. Apart(lists')
    BY <1>6, <1>7, <1>8 DEF Apart
  <1> QED BY <1>1, <1>2, <1>3, <1>4, <1>5, <1>9

\* What LLIST_REMOVE, given the head of list l, takes out of the lists.
LEMMA Unlinks ==
    ASSUME NEW S, NEW L \in Family(Lists, S), NEW l, NEW ts, Apart(L)
    PROVE  LET U == Unlinked(L, l, ts) IN
           /\ U \in Family(Lists, S)
           /\ Apart(U)
           /\ \A k \in Lists : \A t : t \in Range(U[k]) <=>
                t \in Range(L[k]) /\ (t \notin ts \/ (k # l /\ t = Head(L[k])))
           /\ \A k \in Lists : k # l /\ L[k] # <<>> => U[k] # <<>> /\ Head(U[k]) = Head(L[k])
  <1> USE DEF Family
  <1> DEFINE X(k) == {t \in Range(L[k]) : t \notin ts \/ (k # l /\ t = Head(L[k]))}
             U == [k \in Lists |-> Keeping(L[k], X(k))]
  <1>1. Unlinked(L, l, ts) = U
    <2>1. DOMAIN L = Lists
      OBVIOUS
    <2> QED BY <2>1 DEF Unlinked
  <1>2. ASSUME NEW k \in Lists
        PROVE  /\ U[k] \in Seq(S) /\ Range(U[k]) = X(k) /\ IsInjective(U[k])
               /\ k # l /\ L[k] # <<>> => U[k] # <<>> /\ Head(U[k]) = Head(L[k])
    <2>1. L[k] \in Seq(S) /\ IsInjective(L[k]) /\ U[k] = Keeping(L[k], X(k))
      BY DEF Apart
    <2>2. X(k) \subseteq Range(L[k])
      OBVIOUS
    <2>3. ASSUME k # l, L[k] # <<>> PROVE Head(L[k]) \in X(k)
      BY <2>1, <2>3, RotateElements
    <2> HIDE DEF X, U
    <2>4. /\ U[k] \in Seq(S) /\ Range(U[k]) = Range(L[k]) \cap X(k) /\ IsInjective(U[k])
      BY <2>1, KeepingElements
    <2>5. k # l /\ L[k] # <<>> => U[k] # <<>> /\ Head(U[k]) = Head(L[k])
      BY <2>1, <2>3, KeepingHead
    <2> QED BY <2>2, <2>4, <2>5
  <1>3. DOMAIN U = Lists /\ DOMAIN L = Lists
    OBVIOUS
  <1> HIDE DEF U
  <1>4. U \in Family(Lists, S)
    BY <1>2, <1>3 DEF U
  <1>5. \A k, m \in Lists : Range(U[k]) \cap Range(U[m]) # {} => k = m
    BY <1>2, <1>3 DEF Apart
  <1>6. Apart(U)
    BY <1>2, <1>3, <1>5 DEF Apart
  <1> QED BY <1>1, <1>2, <1>4, <1>6

\* thread_destroy takes its threads out of the lists they are in: of those
\* that wait, none is at the head of a list of another queue.
LEMMA ThreadsUnlinked ==
    ASSUME IInv, NEW ts \in SUBSET (Thread \ spare.thread),
           Disposable(ts), ThreadsGone(ts)
    PROVE  /\ lists' \in Family(Lists, Thread \cup {Ksetup})
           /\ Apart(lists')
           /\ \A l \in Lists : Range(lists'[l]) = Range(lists[l]) \ ts
  <1> DEFINE S == Thread \cup {Ksetup}
             ready == {t \in ts : state[t] = "ready"}
             L == Unlinked(lists, "ready", ready)
  <1>1. /\ lists \in Family(Lists, S) /\ Apart(lists)
        /\ "ready" \in Lists /\ "ready" # "blocked"
    BY ListsFacts
  <1>2. /\ L \in Family(Lists, S) /\ Apart(L)
        /\ \A k \in Lists : \A t : t \in Range(L[k]) <=>
             t \in Range(lists[k]) /\ (t \notin ready \/ (k # "ready" /\ t = Head(lists[k])))
        /\ \A k \in Lists : k # "ready" /\ lists[k] # <<>> =>
             L[k] # <<>> /\ Head(L[k]) = Head(lists[k])
    BY <1>1, Unlinks
  <1>3. lists' = Unlinked(L, "blocked", ts \ ready)
    BY DEF ThreadsGone
  <1> HIDE DEF L
  <1>4. /\ lists' \in Family(Lists, S) /\ Apart(lists')
        /\ \A k \in Lists : \A t : t \in Range(lists'[k]) <=>
             t \in Range(L[k]) /\ (t \notin ts \ ready \/ (k # "blocked" /\ t = Head(L[k])))
    <2> DEFINE rest == ts \ ready
               V == Unlinked(L, "blocked", rest)
    <2> HIDE DEF ready, S, rest
    <2>2. L \in Family(Lists, S) /\ Apart(L)
      BY <1>2
    <2>1. /\ V \in Family(Lists, S) /\ Apart(V)
          /\ \A k \in Lists : \A t : t \in Range(V[k]) <=>
               t \in Range(L[k]) /\ (t \notin rest \/ (k # "blocked" /\ t = Head(L[k])))
      BY <2>2, Unlinks
    <2> QED BY <1>3, <2>1 DEF rest
  <1>5. \A t \in ts : /\ t \in Thread
                      /\ t \in ready => \A k \in Lists \ {"ready"} : t \notin Range(lists[k])
                      /\ t \notin ready => t \notin Range(lists["ready"])
    BY <1>1 DEF IInv, ThreadsListed
  <1>6. ASSUME NEW k \in Lists PROVE Range(lists'[k]) = Range(lists[k]) \ ts
    <2>1. Range(L[k]) = Range(lists[k]) \ ready
      BY <1>2, <1>5
    <2>2. ASSUME NEW t \in ts \ ready, t \in Range(L[k]), k # "blocked"
          PROVE  t # Head(L[k])
      <3>1. k # "ready" /\ t \in Range(lists[k])
        BY <1>5, <2>1, <2>2
      <3>2. k \in Proc
        BY <2>2, <3>1 DEF Lists
      <3>3. lists[k] # <<>>
        BY <3>1 DEF Range
      <3>4. Head(lists[k]) \notin ts /\ Head(L[k]) = Head(lists[k])
        BY <1>2, <3>1, <3>2, <3>3 DEF Disposable
      <3> QED BY <3>4
    <2> QED BY <1>4, <2>1, <2>2
  <1> QED BY <1>4, <1>6

-----------------------------------------------------------------------------
(* The steps of threads                                                    *)

LEMMA InitIInv == Init => IInv
  <1> USE DEF Family
  <1> SUFFICES ASSUME Init PROVE IInv
    OBVIOUS
  <1> USE DEF Init
  <1>1. /\ "ready" \in Lists /\ Ksetup \notin Thread /\ "ready" \notin Proc
        /\ pid_seed \in Nat \ {0}
    BY LifecycleAssumption DEF Lists
  <1>2. \A T : <<>> \in Seq(T) /\ IsInjective(<<>>) /\ Range(<<>>) = {}
    BY EmptySeq DEF Range, IsInjective
  <1>3. /\ <<Ksetup>> \in Seq(Thread \cup {Ksetup})
        /\ Range(<<Ksetup>>) = {Ksetup} /\ IsInjective(<<Ksetup>>)
    BY DEF Range, IsInjective
  <1>4. /\ DOMAIN lists = Lists /\ lists["ready"] = <<Ksetup>>
        /\ \A l \in Lists : l # "ready" => lists[l] = <<>>
        /\ lists \in Family(Lists, Thread \cup {Ksetup})
    <2>1. Append(<<>>, Ksetup) = <<Ksetup>>
      OBVIOUS
    <2>2. lists = [l \in Lists |-> IF l = "ready" THEN <<Ksetup>> ELSE <<>>]
      BY <1>1, <2>1 DEF Enqueued, NoQueues, Lists
    <2> QED BY <1>1, <1>2, <1>3, <2>2
  <1>5. TypeOK
    BY <1>1, <1>2, <1>4 DEF TypeOK
  <1>6. ThreadsListed
    <2>1. \A l \in Lists : Range(lists[l]) = IF l = "ready" THEN {Ksetup} ELSE {}
      BY <1>2, <1>3, <1>4
    <2>2. Apart(lists)
      <3>1. \A l \in Lists : IsInjective(lists[l])
        BY <1>2, <1>3, <1>4
      <3> QED BY <1>4, <2>1, <3>1 DEF Apart
    <2>3. \A q \in Proc : q \in Lists /\ lists[q] = <<>>
      BY <1>1, <1>4 DEF Lists
    <2>4. /\ \A t \in Thread : t # Ksetup /\ t \in spare.thread
          /\ spare.proc \subseteq Proc /\ cur_th = Ksetup
      BY <1>1
    <2> HIDE DEF Init
    <2> QED BY <1>1, <2>1, <2>2, <2>3, <2>4 DEF ThreadsListed
  <1>7. WrappersListed /\ ProcsListed /\ SpacesApart
    BY <1>2 DEF WrappersListed, ProcsListed, SpacesApart, Apart, Live
  <1> QED BY <1>5, <1>6, <1>7 DEF IInv

\* A step that leaves processes, wrappers and the set of live threads alone
\* keeps all but the invariant of the lists.
LEMMA OnlyLists ==
    ASSUME IInv, UNCHANGED <<spare, pool, procs, thread, proc>>,
           lists' \in Family(Lists, Thread \cup {Ksetup}),
           state' \in [Thread -> {"none", "ready", "blocked"}],
           ThreadsListed'
    PROVE  IInv'
  <1> USE DEF Family
  <1>1. TypeOK'
    BY DEF IInv, TypeOK, procs
  <1>2. WrappersListed'
    BY DEF IInv, WrappersListed, Apart, Live, procs
  <1>3. ProcsListed' /\ SpacesApart'
    BY DEF IInv, ProcsListed, SpacesApart, Apart, Live, procs
  <1> QED BY <1>1, <1>2, <1>3 DEF IInv

LEMMA ClockIInv == IInv /\ Clock => IInv'
  <1> SUFFICES ASSUME IInv, Clock PROVE IInv'
    OBVIOUS
  <1> DEFINE S == Thread \cup {Ksetup}
  <1>1. lists \in Family(Lists, S) /\ Apart(lists) /\ "ready" \in Lists
    BY ListsFacts
  <1>2. lists["ready"] # <<>>
    BY DEF IInv, ThreadsListed, Range
  <1>3. /\ lists' \in Family(Lists, S) /\ Apart(lists')
        /\ \A l \in Lists : Range(lists'[l]) = Range(lists[l])
        /\ \A l \in Lists : l # "ready" => lists'[l] = lists[l]
        /\ cur_th' \in Range(lists'["ready"])
    BY <1>1, <1>2, Elects DEF Clock
  <1>4. ThreadsListed'
    <2>1. \A q \in Proc : q \in Lists /\ q # "ready"
      BY ListsFacts
    <2> QED BY <1>1, <1>3, <2>1 DEF Clock, IInv, TypeOK, ThreadsListed
  <1> QED BY <1>3, <1>4, OnlyLists DEF Clock, IInv, TypeOK

LEMMA WakeIInv ==
    ASSUME IInv, NEW l \in DOMAIN lists, NEW t \in Thread, Wake(t, l)
    PROVE  IInv'
  <1> DEFINE S == Thread \cup {Ksetup}
             L == Dropped(lists, l, t)
  <1>1. lists \in Family(Lists, S) /\ Apart(lists) /\ "ready" \in Lists /\ l \in Lists
    BY ListsFacts
  <1>2. /\ L \in Family(Lists, S) /\ Apart(L)
        /\ \A k \in Lists : \A u : u \in Range(L[k]) <=> u \in Range(lists[k]) /\ ~ (k = l /\ u = t)
    BY <1>1, ApartRemove
  <1>3. lists' = Enqueued(L, "ready", t)
    BY DEF Wake, SchedEnqueue
  <1>4. l # "ready" /\ t \in Range(lists[l])
    BY DEF Wake
  <1>5. \A k \in Lists : k # l => t \notin Range(lists[k])
    BY <1>1, <1>4, ListsFacts DEF Apart
  <1> HIDE DEF L
  <1>6. \A k \in Lists : t \notin Range(L[k])
    BY <1>2, <1>5
  <1>7. /\ lists' \in Family(Lists, S) /\ Apart(lists')
        /\ \A k \in Lists : \A u : u \in Range(lists'[k]) <=>
             u \in Range(L[k]) \/ (k = "ready" /\ u = t)
    <2>1. t \in S
      OBVIOUS
    <2>2. /\ L \in Family(Lists, S) /\ "ready" \in Lists
          /\ Apart(L) /\ Absent(L, t)
      BY <1>1, <1>2, <1>6 DEF Absent, Family
    <2> HIDE DEF S
    <2> DEFINE M == Enqueued(L, "ready", t)
    <2>3. /\ M \in Family(Lists, S) /\ Apart(M)
          /\ \A k \in Lists : \A u : u \in Range(M[k]) <=>
               u \in Range(L[k]) \/ (k = "ready" /\ u = t)
      BY <2>1, <2>2, ApartAdd
    <2> QED BY <1>3, <2>3
  <1>8. \A k \in Lists : \A u : u \in Range(lists'[k]) <=>
             \/ k = "ready" /\ u = t
             \/ u \in Range(lists[k]) /\ ~ (k = l /\ u = t)
    BY <1>2, <1>4, <1>7
  <1>9. state' = [state EXCEPT ![t] = "ready"] /\ state \in [Thread -> {"none", "ready", "blocked"}]
    BY DEF Wake, SchedEnqueue, IInv, TypeOK
  <1>10. UNCHANGED <<spare, pool, procs, thread, proc, cur_th>>
    BY DEF Wake
  <1>11. ThreadsListed'
    <2>1. t \notin spare.thread /\ t # Ksetup
      BY <1>1, <1>4, ListsFacts DEF IInv, ThreadsListed
    <2>2. ASSUME NEW u \in Thread
          PROVE  /\ u \in Range(lists'["ready"]) <=> u \notin spare.thread /\ state'[u] = "ready"
                 /\ (\E k \in Lists \ {"ready"} : u \in Range(lists'[k]))
                      <=> u \notin spare.thread /\ state'[u] # "ready"
      <3>1. CASE u = t
        BY <1>1, <1>4, <1>5, <1>8, <1>9, <2>1, <3>1
      <3>2. CASE u # t
        <4>1. state'[u] = state[u]
          BY <1>9, <3>2
        <4>2. \A k \in Lists : u \in Range(lists'[k]) <=> u \in Range(lists[k])
          BY <1>8, <3>2
        <4> QED BY <1>1, <4>1, <4>2 DEF IInv, ThreadsListed
      <3> QED BY <3>1, <3>2
    <2>3. \A k \in Lists : Ksetup \in Range(lists'[k]) <=> k = "ready"
      BY <1>4, <1>8, <2>1 DEF IInv, ThreadsListed
    <2>4. cur_th \in Range(lists'["ready"])
      BY <1>1, <1>8 DEF IInv, ThreadsListed
    <2>5. ASSUME NEW q \in spare.proc PROVE lists'[q] = <<>>
      <3>1. q \in Lists /\ q # "ready" /\ lists[q] = <<>>
        BY ListsFacts DEF IInv, TypeOK, ThreadsListed
      <3>2. Range(lists[q]) = {}
        BY <3>1 DEF Range
      <3>3. lists'[q] \in Seq(S)
        BY <1>7, <3>1 DEF Family
      <3>4. \A u : u \notin Range(lists'[q])
        BY <1>4, <1>8, <3>1, <3>2
      <3> QED BY <3>3, <3>4, NoElements
    <2> QED BY <1>7, <1>10, <2>2, <2>3, <2>4, <2>5 DEF ThreadsListed
  <1>12. state' \in [Thread -> {"none", "ready", "blocked"}]
    BY <1>9
  <1> QED BY <1>7, <1>10, <1>11, <1>12, OnlyLists

LEMMA BlockIInv ==
    ASSUME IInv, NEW l, Block(l)
    PROVE  IInv'
  <1> DEFINE S == Thread \cup {Ksetup}
             left == Dropped(lists, "ready", cur_th)
             L == Enqueued(left, l, cur_th)
  <1>1. /\ lists \in Family(Lists, S) /\ Apart(lists)
        /\ "ready" \in Lists /\ l \in Lists /\ l # "ready"
        /\ cur_th \in S /\ cur_th \in Thread
        /\ cur_th \in Range(lists["ready"]) /\ Ksetup \in Range(lists["ready"])
        /\ cur_th # Ksetup
    <2>1. l \in {"blocked"} \cup Proc /\ cur_th # Ksetup
      BY DEF Block, Live
    <2>2. "ready" \in Lists /\ cur_th \in Range(lists["ready"])
          /\ Ksetup \in Range(lists["ready"])
      BY ListsFacts DEF IInv, ThreadsListed
    <2> QED BY <2>1, <2>2, ListsFacts
  <1>2. /\ left \in Family(Lists, S) /\ Apart(left)
        /\ \A k \in Lists : \A u : u \in Range(left[k]) <=>
             u \in Range(lists[k]) /\ ~ (k = "ready" /\ u = cur_th)
    <2> HIDE DEF S
    <2> QED BY <1>1, ApartRemove
  <1>3. /\ Elect(L) /\ state' = [state EXCEPT ![cur_th] = "blocked"]
        /\ UNCHANGED <<spare, pool, procs, thread, proc>>
    BY DEF Block, Dropped
  <1> HIDE DEF left
  <1>4. \A k \in Lists : cur_th \notin Range(left[k])
    BY <1>1, <1>2, ListsFacts DEF Apart
  <1>5. /\ L \in Family(Lists, S) /\ Apart(L)
        /\ \A k \in Lists : \A u : u \in Range(L[k]) <=>
             u \in Range(left[k]) \/ (k = l /\ u = cur_th)
    <2>1. left \in Family(Lists, S) /\ Apart(left) /\ Absent(left, cur_th)
      BY <1>2, <1>4 DEF Absent, Family
    <2>2. l \in Lists /\ cur_th \in S
      BY <1>1
    <2> HIDE DEF S
    <2> QED BY <2>1, <2>2, ApartAdd
  <1> HIDE DEF L
  <1>6. L["ready"] # <<>>
    <2>1. Ksetup \in Range(L["ready"])
      BY <1>1, <1>2, <1>5
    <2> QED BY <2>1 DEF Range
  <1>7. /\ lists' \in Family(Lists, S) /\ Apart(lists')
        /\ \A k \in Lists : Range(lists'[k]) = Range(L[k])
        /\ \A k \in Lists : k # "ready" => lists'[k] = L[k]
        /\ cur_th' \in Range(lists'["ready"])
    <2> HIDE DEF S
    <2> QED BY <1>3, <1>5, <1>6, Elects
  <1>8. \A k \in Lists : \A u : u \in Range(lists'[k]) <=>
             \/ k = l /\ u = cur_th
             \/ u \in Range(lists[k]) /\ ~ (k = "ready" /\ u = cur_th)
    BY <1>2, <1>5, <1>7
  <1>9. ThreadsListed'
    <2>1. state \in [Thread -> {"none", "ready", "blocked"}] /\ UNCHANGED spare
      BY <1>3 DEF IInv, TypeOK
    <2>2. cur_th \notin spare.thread
      BY <1>1 DEF IInv, ThreadsListed
    <2>3. ASSUME NEW u \in Thread
          PROVE  /\ u \in Range(lists'["ready"]) <=> u \notin spare.thread /\ state'[u] = "ready"
                 /\ (\E k \in Lists \ {"ready"} : u \in Range(lists'[k]))
                      <=> u \notin spare.thread /\ state'[u] # "ready"
      <3>1. CASE u = cur_th
        BY <1>1, <1>3, <1>8, <2>1, <2>2, <3>1
      <3>2. CASE u # cur_th
        <4>1. state'[u] = state[u]
          BY <1>3, <2>1, <3>2
        <4>2. \A k \in Lists : u \in Range(lists'[k]) <=> u \in Range(lists[k])
          BY <1>8, <3>2
        <4> QED BY <1>1, <4>1, <4>2 DEF IInv, ThreadsListed
      <3> QED BY <3>1, <3>2
    <2>4. \A k \in Lists : Ksetup \in Range(lists'[k]) <=> k = "ready"
      BY <1>1, <1>8 DEF IInv, ThreadsListed
    <2>5. ASSUME NEW q \in spare.proc PROVE lists'[q] = <<>>
      <3>1. q \in Lists /\ q # "ready" /\ lists[q] = <<>> /\ q # l
        BY ListsFacts DEF IInv, TypeOK, ThreadsListed, Block, Live
      <3>2. Range(lists[q]) = {}
        BY <3>1 DEF Range
      <3>3. lists'[q] \in Seq(S)
        BY <1>7, <3>1 DEF Family
      <3>4. \A u : u \notin Range(lists'[q])
        BY <1>8, <3>1, <3>2
      <3> QED BY <3>3, <3>4, NoElements
    <2> QED BY <1>7, <2>1, <2>3, <2>4, <2>5 DEF ThreadsListed
  <1>10. state' \in [Thread -> {"none", "ready", "blocked"}]
    BY <1>1, <1>3 DEF IInv, TypeOK
  <1> QED BY <1>3, <1>7, <1>9, <1>10, OnlyLists

LEMMA ThreadCreateIInv ==
    ASSUME IInv, ThreadCreate
    PROVE  IInv'
  <1> DEFINE S == Thread \cup {Ksetup}
  <1>1. PICK t \in spare.thread :
          /\ spare' = [spare EXCEPT !.thread = @ \ {t}]
          /\ state' = [state EXCEPT ![t] = "ready"]
          /\ lists' = Enqueued(lists, "ready", t)
          /\ proc' = [proc EXCEPT ![t] = None]
    BY DEF ThreadCreate, SchedEnqueue
  <1>2. UNCHANGED <<pool, procs, thread, cur_th>>
    BY DEF ThreadCreate
  <1>3. /\ spare'.proc = spare.proc /\ spare'.wrapper = spare.wrapper
        /\ spare'.thread = spare.thread \ {t}
        /\ spare' \in [proc : SUBSET Proc, thread : SUBSET Thread, wrapper : SUBSET Wrapper]
        /\ t \in Thread /\ t \in S /\ t # Ksetup
    BY <1>1, ListsFacts DEF IInv, TypeOK
  <1>4. /\ lists \in Family(Lists, S) /\ Apart(lists) /\ "ready" \in Lists
        /\ \A k \in Lists : t \notin Range(lists[k])
    BY <1>1, <1>3, ListsFacts DEF IInv, ThreadsListed
  <1>5. /\ lists' \in Family(Lists, S) /\ Apart(lists')
        /\ \A k \in Lists : \A u : u \in Range(lists'[k]) <=>
             u \in Range(lists[k]) \/ (k = "ready" /\ u = t)
    <2> HIDE DEF S
    <2> DEFINE M == Enqueued(lists, "ready", t)
    <2>2. Absent(lists, t)
      BY <1>4, ListsFacts DEF Absent
    <2>1. /\ M \in Family(Lists, S) /\ Apart(M)
          /\ \A k \in Lists : \A u : u \in Range(M[k]) <=>
               u \in Range(lists[k]) \/ (k = "ready" /\ u = t)
      BY <1>3, <1>4, <2>2, ApartAdd
    <2> QED BY <1>1, <2>1
  <1>6. TypeOK'
    BY <1>1, <1>2, <1>3, <1>5 DEF IInv, TypeOK, Family, procs
  <1>7. ThreadsListed'
    <2>1. state \in [Thread -> {"none", "ready", "blocked"}]
      BY DEF IInv, TypeOK
    <2>2. ASSUME NEW u \in Thread
          PROVE  /\ u \in Range(lists'["ready"]) <=> u \notin spare'.thread /\ state'[u] = "ready"
                 /\ (\E k \in Lists \ {"ready"} : u \in Range(lists'[k]))
                      <=> u \notin spare'.thread /\ state'[u] # "ready"
      <3>1. CASE u = t
        BY <1>1, <1>3, <1>4, <1>5, <2>1, <3>1
      <3>2. CASE u # t
        <4>1. state'[u] = state[u] /\ (u \in spare'.thread <=> u \in spare.thread)
          BY <1>1, <1>3, <2>1, <3>2
        <4>2. \A k \in Lists : u \in Range(lists'[k]) <=> u \in Range(lists[k])
          BY <1>5, <3>2
        <4> QED BY <1>4, <4>1, <4>2 DEF IInv, ThreadsListed
      <3> QED BY <3>1, <3>2
    <2>3. \A k \in Lists : Ksetup \in Range(lists'[k]) <=> k = "ready"
      BY <1>3, <1>5 DEF IInv, ThreadsListed
    <2>4. cur_th' \in Range(lists'["ready"])
      BY <1>2, <1>4, <1>5 DEF IInv, ThreadsListed
    <2>5. \A q \in spare'.proc : lists'[q] = <<>>
      <3>1. \A q \in Proc : q # "ready"
        BY ListsFacts
      <3> QED BY <1>1, <1>3, <1>4, <3>1 DEF IInv, TypeOK, ThreadsListed, Enqueued, Family, Lists
    <2> QED BY <1>5, <2>2, <2>3, <2>4, <2>5 DEF ThreadsListed
  <1>8. WrappersListed'
    <2>1. \A u \in Thread : u # t => proc'[u] = proc[u]
      BY <1>1 DEF IInv, TypeOK
    <2>2. proc'[t] = None
      BY <1>1, <1>3 DEF IInv, TypeOK
    <2>3. UNCHANGED <<thread, thread_list, Live>>
      BY <1>2, <1>3 DEF procs, Live
    <2>4. Apart(thread_list)'
      BY <2>3 DEF IInv, WrappersListed, Apart
    <2>5. \A q \in Proc : \A w \in Range(thread_list[q]) :
            thread[w] \in Thread \ spare'.thread /\ proc'[thread[w]] = q
      BY <1>1, <1>3, <2>1 DEF IInv, WrappersListed
    <2>6. \A u \in Thread \ spare'.thread : proc'[u] \in Live \cup {None}
      BY <1>3, <2>1, <2>2 DEF IInv, WrappersListed
    <2> QED BY <1>3, <2>3, <2>4, <2>5, <2>6 DEF IInv, WrappersListed
  <1>9. ProcsListed' /\ SpacesApart'
    BY <1>2, <1>3 DEF IInv, ProcsListed, SpacesApart, Apart, Live, procs
  <1> QED BY <1>6, <1>7, <1>8, <1>9 DEF IInv

\* Threads destroyed leave the other threads where they are.
LEMMA ThreadsLeave ==
    ASSUME IInv, NEW ts \in SUBSET (Thread \ spare.thread),
           Disposable(ts), ThreadsGone(ts),
           spare'.thread = spare.thread \cup ts,
           \A q \in spare'.proc : q \in Proc /\ lists[q] = <<>>,
           UNCHANGED <<state, cur_th>>
    PROVE  ThreadsListed'
  <1>1. /\ lists' \in Family(Lists, Thread \cup {Ksetup})
        /\ Apart(lists')
        /\ \A l \in Lists : Range(lists'[l]) = Range(lists[l]) \ ts
    BY ThreadsUnlinked
  <1>2. "ready" \in Lists /\ Ksetup \notin ts /\ cur_th \notin ts
    BY ListsFacts DEF Disposable
  <1>3. ASSUME NEW q \in spare'.proc PROVE lists'[q] = <<>>
    <2>1. q \in Lists /\ lists[q] = <<>>
      BY ListsFacts
    <2>2. Range(lists'[q]) = {}
      BY <1>1, <2>1 DEF Range
    <2>3. lists'[q] \in Seq(Thread \cup {Ksetup})
      BY <1>1, <2>1 DEF Family
    <2> QED BY <2>2, <2>3, NoElements
  <1>4. ASSUME NEW u \in Thread
        PROVE  /\ u \in Range(lists'["ready"]) <=> u \notin spare'.thread /\ state'[u] = "ready"
               /\ (\E k \in Lists \ {"ready"} : u \in Range(lists'[k]))
                    <=> u \notin spare'.thread /\ state'[u] # "ready"
    <2>1. \A k \in Lists : u \in Range(lists'[k]) <=> u \in Range(lists[k]) /\ u \notin ts
      BY <1>1
    <2> QED BY <1>2, <2>1 DEF IInv, ThreadsListed
  <1>5. \A k \in Lists : Ksetup \in Range(lists'[k]) <=> k = "ready"
    BY <1>1, <1>2 DEF IInv, ThreadsListed
  <1>6. cur_th' \in Range(lists'["ready"])
    BY <1>1, <1>2 DEF IInv, ThreadsListed
  <1> QED BY <1>1, <1>3, <1>4, <1>5, <1>6 DEF ThreadsListed

LEMMA ThreadDestroyIInv ==
    ASSUME IInv, NEW t \in Thread, ThreadDestroy(t)
    PROVE  IInv'
  <1>1. /\ t \in Thread \ spare.thread
        /\ Disposable({t}) /\ ThreadsGone({t})
        /\ \A q \in Live : t \notin Threads(q)
        /\ spare' = [spare EXCEPT !.thread = @ \cup {t}]
        /\ UNCHANGED <<pool, procs, thread, proc, state, cur_th>>
    BY DEF ThreadDestroy
  <1>2. /\ spare'.proc = spare.proc /\ spare'.wrapper = spare.wrapper
        /\ spare'.thread = spare.thread \cup {t}
        /\ spare' \in [proc : SUBSET Proc, thread : SUBSET Thread, wrapper : SUBSET Wrapper]
    BY <1>1 DEF IInv, TypeOK
  <1>3. lists' \in Family(Lists, Thread \cup {Ksetup})
    BY <1>1, ThreadsUnlinked
  <1>4. TypeOK'
    BY <1>1, <1>2, <1>3 DEF IInv, TypeOK, Family, procs
  <1>5. ThreadsListed'
    <2>1. \A q \in spare'.proc : q \in Proc /\ lists[q] = <<>>
      BY <1>2 DEF IInv, TypeOK, ThreadsListed
    <2> QED BY <1>1, <1>2, <2>1, ThreadsLeave
  <1>6. WrappersListed'
    <2>1. \A q \in Proc : \A w \in Range(thread_list[q]) : thread[w] # t
      <3>1. \A q \in Proc : q \in Live \/ thread_list[q] = <<>>
        BY DEF IInv, WrappersListed, Live
      <3>2. Range(<<>>) = {}
        BY DEF Range
      <3> QED BY <1>1, <3>1, <3>2 DEF Threads
    <2>2. UNCHANGED <<thread, thread_list, proc, Live>> /\ Apart(thread_list)'
      BY <1>1, <1>2 DEF procs, Live, IInv, WrappersListed, Apart
    <2>3. \A q \in Proc : \A w \in Range(thread_list[q]) :
            thread[w] \in Thread \ spare'.thread /\ proc[thread[w]] = q
      BY <1>2, <2>1 DEF IInv, WrappersListed
    <2>4. \A u \in Thread \ spare'.thread : proc[u] \in Live \cup {None}
      BY <1>2 DEF IInv, WrappersListed
    <2> QED BY <1>2, <2>2, <2>3, <2>4 DEF IInv, WrappersListed
  <1>7. ProcsListed' /\ SpacesApart'
    BY <1>1, <1>2 DEF IInv, ProcsListed, SpacesApart, Apart, Live, procs
  <1> QED BY <1>4, <1>5, <1>6, <1>7 DEF IInv

-----------------------------------------------------------------------------
(* The steps of processes                                                  *)

LEMMA HashIdType == ASSUME NEW n \in Nat PROVE HashId(n) \in Hash
  BY LifecycleAssumption DEF HashId, Hash

\* A step of a process leaves the lists of threads alone.
LEMMA SameLists ==
    ASSUME IInv, UNCHANGED <<state, lists, cur_th>>,
           spare'.thread = spare.thread, \A q \in spare'.proc : q \in Proc /\ lists[q] = <<>>
    PROVE  ThreadsListed'
  <1>1. Apart(lists)'
    BY DEF IInv, ThreadsListed, Apart
  <1> QED BY <1>1 DEF IInv, ThreadsListed

LEMMA AddThreadIInv ==
    ASSUME IInv, NEW q \in Proc, NEW t \in Thread, AddThread(q, t)
    PROVE  IInv'
  <1>1. PICK w \in spare.wrapper :
          /\ spare' = [spare EXCEPT !.wrapper = @ \ {w}]
          /\ thread' = [thread EXCEPT ![w] = t]
          /\ thread_list' = Enqueued(thread_list, q, w)
    BY DEF AddThread, Enqueued
  <1>2. /\ q \in Live /\ t \notin spare.thread
        /\ \A r \in Live : t \notin Threads(r)
        /\ proc' = [proc EXCEPT ![t] = q]
        /\ UNCHANGED <<pool, addrspace, pid, proc_table, pid_seed, state, lists, cur_th>>
    BY DEF AddThread, PointsBack
  <1>3. /\ spare'.proc = spare.proc /\ spare'.thread = spare.thread
        /\ spare'.wrapper = spare.wrapper \ {w}
        /\ spare' \in [proc : SUBSET Proc, thread : SUBSET Thread, wrapper : SUBSET Wrapper]
        /\ w \in Wrapper /\ Live' = Live
    BY <1>1 DEF IInv, TypeOK, Live
  <1>4. /\ thread_list \in Family(Proc, Wrapper) /\ Apart(thread_list)
        /\ \A r \in Proc : w \notin Range(thread_list[r])
    BY <1>1, <1>3 DEF IInv, TypeOK, WrappersListed, Family
  <1>5. /\ thread_list' \in Family(Proc, Wrapper) /\ Apart(thread_list')
        /\ \A r \in Proc : \A v : v \in Range(thread_list'[r]) <=>
             v \in Range(thread_list[r]) \/ (r = q /\ v = w)
    <2> DEFINE M == Enqueued(thread_list, q, w)
    <2>1. Absent(thread_list, w)
      BY <1>4 DEF Absent, Family
    <2>2. /\ M \in Family(Proc, Wrapper) /\ Apart(M)
          /\ \A r \in Proc : \A v : v \in Range(M[r]) <=>
               v \in Range(thread_list[r]) \/ (r = q /\ v = w)
      BY <1>3, <1>4, <2>1, ApartAdd
    <2> QED BY <1>1, <2>2
  <1>6. TypeOK'
    BY <1>1, <1>2, <1>3, <1>5 DEF IInv, TypeOK, Family
  <1>7. ThreadsListed'
    <2>1. \A r \in spare'.proc : r \in Proc /\ lists[r] = <<>>
      BY <1>3 DEF IInv, TypeOK, ThreadsListed
    <2> QED BY <1>2, <1>3, <2>1, SameLists
  <1>8. WrappersListed'
    <2>1. /\ thread'[w] = t /\ \A v \in Wrapper : v # w => thread'[v] = thread[v]
          /\ proc'[t] = q /\ \A u \in Thread : u # t => proc'[u] = proc[u]
      BY <1>1, <1>2, <1>3 DEF IInv, TypeOK
    <2>2. ASSUME NEW r \in Proc, NEW v \in Range(thread_list[r])
          PROVE  v \in Wrapper /\ v # w /\ thread[v] # t
      <3>1. v \in Wrapper
        BY <1>4, RangeOfSeq DEF Family
      <3>2. r \in Live
        <4>1. thread_list[r] # <<>>
          BY DEF Range
        <4> QED BY <4>1 DEF IInv, WrappersListed, Live
      <3>3. thread[v] \in Threads(r)
        BY DEF Threads
      <3> QED BY <1>2, <1>4, <3>1, <3>2, <3>3
    <2>3. \A v \in Wrapper :
            v \notin spare'.wrapper <=> \E r \in Proc : v \in Range(thread_list'[r])
      BY <1>3, <1>5 DEF IInv, WrappersListed
    <2>4. ASSUME NEW r \in spare'.proc PROVE thread_list'[r] = <<>>
      <3>1. r \in Proc /\ r # q /\ thread_list[r] = <<>>
        BY <1>2, <1>3 DEF IInv, TypeOK, WrappersListed, Live
      <3> QED BY <1>1, <1>4, <3>1 DEF Enqueued, Family
    <2>5. ASSUME NEW r \in Proc, NEW v \in Range(thread_list'[r])
          PROVE  thread'[v] \in Thread \ spare'.thread /\ proc'[thread'[v]] = r
      <3>1. CASE r = q /\ v = w
        BY <1>2, <1>3, <2>1, <3>1
      <3>2. CASE v \in Range(thread_list[r])
        <4>1. thread'[v] = thread[v] /\ thread[v] # t
          BY <2>1, <2>2, <3>2
        <4> QED BY <1>3, <2>1, <3>2, <4>1 DEF IInv, WrappersListed
      <3> QED BY <1>5, <3>1, <3>2
    <2>6. \A u \in Thread \ spare'.thread : proc'[u] \in Live' \cup {None}
      BY <1>2, <1>3, <2>1 DEF IInv, WrappersListed
    <2> QED BY <1>5, <2>3, <2>4, <2>5, <2>6 DEF WrappersListed
  <1>9. ProcsListed' /\ SpacesApart'
    BY <1>2, <1>3 DEF IInv, ProcsListed, SpacesApart, Apart
  <1> QED BY <1>6, <1>7, <1>8, <1>9 DEF IInv

LEMMA RemoveThreadIInv ==
    ASSUME IInv, NEW q \in Proc, NEW t \in Thread, RemoveThread(q, t)
    PROVE  IInv'
  <1>1. PICK w \in Range(thread_list[q]) :
          /\ thread_list' = Dropped(thread_list, q, w)
          /\ spare' = [spare EXCEPT !.wrapper = @ \cup {w}]
    BY DEF RemoveThread, Dropped
  <1>2. /\ q \in Live
        /\ UNCHANGED <<pool, addrspace, pid, proc_table, pid_seed, thread, proc, state, lists, cur_th>>
    BY DEF RemoveThread
  <1>3. thread_list \in Family(Proc, Wrapper) /\ Apart(thread_list) /\ w \in Wrapper
    <2>1. thread_list[q] \in Seq(Wrapper)
      BY DEF IInv, TypeOK
    <2> QED BY <2>1, RangeOfSeq DEF IInv, TypeOK, WrappersListed, Family
  <1>4. /\ spare'.proc = spare.proc /\ spare'.thread = spare.thread
        /\ spare'.wrapper = spare.wrapper \cup {w}
        /\ spare' \in [proc : SUBSET Proc, thread : SUBSET Thread, wrapper : SUBSET Wrapper]
        /\ Live' = Live
    BY <1>1, <1>3 DEF IInv, TypeOK, Live
  <1>5. /\ thread_list' \in Family(Proc, Wrapper) /\ Apart(thread_list')
        /\ \A r \in Proc : \A v : v \in Range(thread_list'[r]) <=>
             v \in Range(thread_list[r]) /\ ~ (r = q /\ v = w)
    <2> DEFINE M == Dropped(thread_list, q, w)
    <2>1. /\ M \in Family(Proc, Wrapper) /\ Apart(M)
          /\ \A r \in Proc : \A v : v \in Range(M[r]) <=>
               v \in Range(thread_list[r]) /\ ~ (r = q /\ v = w)
      BY <1>3, ApartRemove
    <2> QED BY <1>1, <2>1
  <1>6. TypeOK'
    BY <1>2, <1>4, <1>5 DEF IInv, TypeOK, Family
  <1>7. ThreadsListed'
    <2>1. \A r \in spare'.proc : r \in Proc /\ lists[r] = <<>>
      BY <1>4 DEF IInv, TypeOK, ThreadsListed
    <2> QED BY <1>2, <1>4, <2>1, SameLists
  <1>8. WrappersListed'
    <2>1. \A r \in Proc : r # q => w \notin Range(thread_list[r])
      BY <1>1, <1>3 DEF Apart, Family
    <2>2. \A v \in Wrapper :
            v \notin spare'.wrapper <=> \E r \in Proc : v \in Range(thread_list'[r])
      <3>1. \A r \in Proc : w \notin Range(thread_list'[r])
        BY <1>5, <2>1
      <3>2. \A v \in Wrapper : v # w =>
              \A r \in Proc : v \in Range(thread_list'[r]) <=> v \in Range(thread_list[r])
        BY <1>5
      <3> QED BY <1>3, <1>4, <3>1, <3>2 DEF IInv, WrappersListed
    <2>3. ASSUME NEW r \in spare'.proc PROVE thread_list'[r] = <<>>
      <3>1. r \in Proc /\ r # q /\ thread_list[r] = <<>>
        BY <1>2, <1>4 DEF IInv, TypeOK, WrappersListed, Live
      <3> QED BY <1>1, <1>3, <3>1 DEF Dropped, Family
    <2>4. \A r \in Proc : \A v \in Range(thread_list'[r]) :
            thread'[v] \in Thread \ spare'.thread /\ proc'[thread'[v]] = r
      BY <1>2, <1>4, <1>5 DEF IInv, WrappersListed
    <2>5. \A u \in Thread \ spare'.thread : proc'[u] \in Live' \cup {None}
      BY <1>2, <1>4 DEF IInv, WrappersListed
    <2> QED BY <1>5, <2>2, <2>3, <2>4, <2>5 DEF WrappersListed
  <1>9. ProcsListed' /\ SpacesApart'
    BY <1>2, <1>4 DEF IInv, ProcsListed, SpacesApart, Apart
  <1> QED BY <1>6, <1>7, <1>8, <1>9 DEF IInv

LEMMA ProcCreateIInv ==
    ASSUME IInv, ProcCreate
    PROVE  IInv'
  <1>1. PICK q \in spare.proc, a \in pool \cup {PoolError} :
          /\ PoolAlloc(a)
          /\ spare' = [spare EXCEPT !.proc = @ \ {q}]
          /\ pool' = pool \ {a}
          /\ addrspace' = [addrspace EXCEPT ![q] = a]
          /\ thread_list' = [thread_list EXCEPT ![q] = <<>>]
          /\ pid' = [pid EXCEPT ![q] = pid_seed]
          /\ pid_seed' = pid_seed + 1
          /\ proc_table' = Enqueued(proc_table, HashId(pid_seed), q)
    BY DEF ProcCreate, Enqueued
  <1>2. UNCHANGED <<thread, proc, state, lists, cur_th>>
    BY DEF ProcCreate
  <1>3. /\ spare'.proc = spare.proc \ {q} /\ spare'.thread = spare.thread
        /\ spare'.wrapper = spare.wrapper
        /\ spare' \in [proc : SUBSET Proc, thread : SUBSET Thread, wrapper : SUBSET Wrapper]
        /\ q \in Proc /\ q \notin Live /\ Live' = Live \cup {q}
        /\ pid_seed \in Nat \ {0}
    BY <1>1 DEF IInv, TypeOK, Live
  <1>4. thread_list' = thread_list
    BY <1>1, <1>3 DEF IInv, TypeOK, WrappersListed
  <1>5. /\ proc_table \in Family(Hash, Proc) /\ Apart(proc_table)
        /\ HashId(pid_seed) \in Hash /\ \A h \in Hash : q \notin Range(proc_table[h])
    BY <1>3, HashIdType DEF IInv, TypeOK, ProcsListed, Family
  <1>6. /\ proc_table' \in Family(Hash, Proc) /\ Apart(proc_table')
        /\ \A h \in Hash : \A r : r \in Range(proc_table'[h]) <=>
             r \in Range(proc_table[h]) \/ (h = HashId(pid_seed) /\ r = q)
    <2> DEFINE M == Enqueued(proc_table, HashId(pid_seed), q)
    <2>1. Absent(proc_table, q)
      BY <1>5 DEF Absent, Family
    <2>2. /\ M \in Family(Hash, Proc) /\ Apart(M)
          /\ \A h \in Hash : \A r : r \in Range(M[h]) <=>
               r \in Range(proc_table[h]) \/ (h = HashId(pid_seed) /\ r = q)
      BY <1>3, <1>5, <2>1, ApartAdd
    <2> QED BY <1>1, <2>2
  <1>7. TypeOK'
    <2>1. /\ addrspace' \in [Proc -> Page \cup {PoolError, None}]
          /\ pid' \in [Proc -> Nat] /\ pool' \subseteq Page /\ pid_seed' \in Nat \ {0}
      BY <1>1, <1>3 DEF IInv, TypeOK
    <2> QED BY <1>2, <1>3, <1>4, <1>6, <2>1 DEF IInv, TypeOK, Family
  <1>8. ThreadsListed'
    <2>1. \A r \in spare'.proc : r \in Proc /\ lists[r] = <<>>
      BY <1>3 DEF IInv, TypeOK, ThreadsListed
    <2> QED BY <1>2, <1>3, <2>1, SameLists
  <1>9. WrappersListed'
    BY <1>2, <1>3, <1>4 DEF IInv, WrappersListed, Apart
  <1>10. ProcsListed'
    <2>1. pid'[q] = pid_seed /\ \A r \in Live : r # q /\ pid'[r] = pid[r]
      BY <1>1, <1>3 DEF IInv, TypeOK, Live
    <2>2. \A r \in Live : pid[r] \in 1..(pid_seed - 1)
      BY DEF IInv, ProcsListed
    <2>3. ASSUME NEW h \in Hash, NEW r \in Proc
          PROVE  r \in Range(proc_table'[h]) <=> r \in Live' /\ h = HashId(pid'[r])
      BY <1>3, <1>5, <1>6, <2>1 DEF IInv, ProcsListed
    <2>4. \A r \in Live' : pid'[r] \in 1..(pid_seed' - 1)
      BY <1>1, <1>3, <2>1, <2>2
    <2>5. \A r, s \in Live' : pid'[r] = pid'[s] => r = s
      BY <1>3, <2>1, <2>2 DEF IInv, ProcsListed
    <2> QED BY <1>6, <2>3, <2>4, <2>5 DEF ProcsListed
  <1>11. SpacesApart'
    <2>1. addrspace'[q] = a /\ \A r \in Live : r # q /\ addrspace'[r] = addrspace[r]
      BY <1>1, <1>3 DEF IInv, TypeOK, Live
    <2>2. PoolError \notin Page /\ pool \subseteq Page
      BY LifecycleAssumption DEF PoolError, IInv, TypeOK
    <2>3. a \in pool \/ a = PoolError
      OBVIOUS
    <2>4. \A r \in Live : addrspace[r] # a \/ a = PoolError
      BY <2>2, <2>3 DEF IInv, SpacesApart
    <2> QED BY <1>1, <1>3, <2>1, <2>2, <2>3, <2>4 DEF IInv, SpacesApart
  <1> QED BY <1>7, <1>8, <1>9, <1>10, <1>11 DEF IInv

LEMMA ProcDestroyIInv ==
    ASSUME IInv, NEW q \in Proc, ProcDestroy(q)
    PROVE  IInv'
  <1> DEFINE ts == Threads(q)
             ws == Range(thread_list[q])
  <1>1. /\ q \in Live /\ Disposable(ts) /\ Deserted(q) /\ ThreadsGone(ts)
        /\ spare' = [proc    |-> spare.proc \cup {q},
                     thread  |-> spare.thread \cup ts,
                     wrapper |-> spare.wrapper \cup ws]
        /\ thread_list' = Emptied(thread_list, q)
        /\ pool' = pool \cup Pushed(addrspace[q])
        /\ proc_table' = Dropped(proc_table, HashId(pid[q]), q)
        /\ UNCHANGED <<addrspace, pid, pid_seed, thread, proc, state, cur_th>>
    BY DEF ProcDestroy, LeavesTable, Dropped, Emptied
  <1>2. /\ thread_list \in Family(Proc, Wrapper) /\ Apart(thread_list)
        /\ ws \subseteq Wrapper
    <2>1. thread_list[q] \in Seq(Wrapper)
      BY DEF IInv, TypeOK
    <2> QED BY <2>1, RangeOfSeq DEF IInv, TypeOK, WrappersListed, Family
  <1>3. ts \in SUBSET (Thread \ spare.thread) /\ \A t \in ts : proc[t] = q
    BY DEF Threads, IInv, WrappersListed
  <1>4. /\ spare'.proc = spare.proc \cup {q} /\ spare'.thread = spare.thread \cup ts
        /\ spare'.wrapper = spare.wrapper \cup ws
        /\ spare' \in [proc : SUBSET Proc, thread : SUBSET Thread, wrapper : SUBSET Wrapper]
        /\ Live' = Live \ {q}
    BY <1>1, <1>2, <1>3 DEF IInv, TypeOK, Live
  <1> HIDE DEF ts, ws
  <1>5. lists' \in Family(Lists, Thread \cup {Ksetup})
    BY <1>1, <1>3, ThreadsUnlinked
  <1>6. /\ thread_list' \in Family(Proc, Wrapper) /\ Apart(thread_list')
        /\ \A r \in Proc : \A v : v \in Range(thread_list'[r]) <=>
             v \in Range(thread_list[r]) /\ r # q
    <2> DEFINE M == Emptied(thread_list, q)
    <2>1. /\ M \in Family(Proc, Wrapper) /\ Apart(M)
          /\ \A r \in Proc : \A v : v \in Range(M[r]) <=>
               v \in Range(thread_list[r]) /\ r # q
      BY <1>2, ApartEmpty
    <2> QED BY <1>1, <2>1
  <1>7. /\ proc_table' \in Family(Hash, Proc) /\ Apart(proc_table')
        /\ \A h \in Hash : \A r : r \in Range(proc_table'[h]) <=>
             r \in Range(proc_table[h]) /\ ~ (h = HashId(pid[q]) /\ r = q)
    <2> DEFINE M == Dropped(proc_table, HashId(pid[q]), q)
    <2>1. proc_table \in Family(Hash, Proc) /\ Apart(proc_table) /\ HashId(pid[q]) \in Hash
      BY HashIdType DEF IInv, TypeOK, ProcsListed, Family
    <2>2. /\ M \in Family(Hash, Proc) /\ Apart(M)
          /\ \A h \in Hash : \A r : r \in Range(M[h]) <=>
               r \in Range(proc_table[h]) /\ ~ (h = HashId(pid[q]) /\ r = q)
      BY <2>1, ApartRemove
    <2> QED BY <1>1, <2>2
  <1>8. TypeOK'
    <2>1. pool' \subseteq Page
      BY <1>1 DEF IInv, TypeOK, SpacesApart, Pushed
    <2> QED BY <1>1, <1>4, <1>5, <1>6, <1>7, <2>1 DEF IInv, TypeOK, Family
  <1>9. ThreadsListed'
    <2>1. \A r \in spare'.proc : r \in Proc /\ lists[r] = <<>>
      BY <1>1, <1>4 DEF IInv, TypeOK, ThreadsListed, Deserted
    <2> QED BY <1>1, <1>3, <1>4, <2>1, ThreadsLeave
  <1>10. WrappersListed'
    <2>1. \A v \in Wrapper :
            v \notin spare'.wrapper <=> \E r \in Proc : v \in Range(thread_list'[r])
      <3>1. \A v \in ws : \A r \in Proc : v \notin Range(thread_list'[r])
        BY <1>2, <1>6 DEF Apart, Family, ws
      <3>2. \A v \in Wrapper \ ws :
              \A r \in Proc : v \in Range(thread_list'[r]) <=> v \in Range(thread_list[r])
        BY <1>6 DEF ws
      <3> QED BY <1>2, <1>4, <3>1, <3>2 DEF IInv, WrappersListed
    <2>2. ASSUME NEW r \in spare'.proc PROVE thread_list'[r] = <<>>
      <3>1. r \in Proc /\ (r = q \/ thread_list[r] = <<>>)
        BY <1>4 DEF IInv, TypeOK, WrappersListed
      <3> QED BY <1>1, <1>2, <3>1 DEF Emptied, Family
    <2>3. ASSUME NEW r \in Proc, NEW v \in Range(thread_list'[r])
          PROVE  thread'[v] \in Thread \ spare'.thread /\ proc'[thread'[v]] = r
      <3>1. r # q /\ thread[v] \in Thread \ spare.thread /\ proc[thread[v]] = r
        BY <1>6 DEF IInv, WrappersListed
      <3> QED BY <1>1, <1>3, <1>4, <3>1
    <2>4. ASSUME NEW u \in Thread \ spare'.thread PROVE proc'[u] \in Live' \cup {None}
      <3>1. u \in Thread \ spare.thread /\ u \notin ts
        BY <1>4
      <3>2. proc[u] # q
        BY <1>1, <3>1 DEF Deserted, ts
      <3> QED BY <1>1, <1>4, <3>1, <3>2 DEF IInv, WrappersListed
    <2> QED BY <1>6, <2>1, <2>2, <2>3, <2>4 DEF WrappersListed
  <1>11. ProcsListed'
    <2>1. ASSUME NEW h \in Hash, NEW r \in Proc
          PROVE  r \in Range(proc_table'[h]) <=> r \in Live' /\ h = HashId(pid'[r])
      BY <1>1, <1>4, <1>7 DEF IInv, ProcsListed
    <2>2. /\ \A r \in Live' : pid'[r] \in 1..(pid_seed' - 1)
          /\ \A r, s \in Live' : pid'[r] = pid'[s] => r = s
      BY <1>1, <1>4 DEF IInv, ProcsListed
    <2> QED BY <1>7, <2>1, <2>2 DEF ProcsListed
  <1>12. SpacesApart'
    <2>1. PoolError \notin Page
      BY LifecycleAssumption DEF PoolError
    <2>2. \A a \in Page : a \in pool' <=> a \in pool \/ a = addrspace[q]
      BY <1>1, <2>1 DEF Pushed
    <2>3. \A r \in Live' : r \in Live /\ r # q
      BY <1>4
    <2>4. \A a \in Page : a \in pool' <=> \A r \in Live' : addrspace[r] # a
      BY <1>1, <1>4, <2>2, <2>3 DEF IInv, SpacesApart
    <2> QED BY <1>1, <2>3, <2>4 DEF IInv, SpacesApart
  <1> QED BY <1>8, <1>9, <1>10, <1>11, <1>12 DEF IInv

LEMMA StepIInv == IInv /\ [Next]_vars => IInv'
  <1> SUFFICES ASSUME IInv, [Next]_vars PROVE IInv'
    OBVIOUS
  <1>1. CASE ProcCreate
    BY <1>1, ProcCreateIInv
  <1>2. CASE ThreadCreate
    BY <1>2, ThreadCreateIInv
  <1>3. CASE Clock
    BY <1>3, ClockIInv
  <1>4. CASE \E q \in Proc : ProcDestroy(q)
    BY <1>4, ProcDestroyIInv
  <1>5. CASE \E t \in Thread : ThreadDestroy(t)
    BY <1>5, ThreadDestroyIInv
  <1>6. CASE \E q \in Proc, t \in Thread : AddThread(q, t) \/ RemoveThread(q, t)
    BY <1>6, AddThreadIInv, RemoveThreadIInv
  <1>7. CASE \E l \in DOMAIN lists : Block(l) \/ \E t \in Thread : Wake(t, l)
    BY <1>7, BlockIInv, WakeIInv
  <1>8. CASE UNCHANGED vars
    <2>1. UNCHANGED <<spare, pool, procs, thread, proc, lists, state, cur_th>>
      BY <1>8 DEF vars
    <2>2. ThreadsListed'
      BY <2>1 DEF IInv, ThreadsListed, Apart
    <2>3. TypeOK'
      BY <2>1 DEF IInv, TypeOK, procs
    <2> QED BY <2>1, <2>2, <2>3, OnlyLists DEF TypeOK, Family
  <1> QED BY <1>1, <1>2, <1>3, <1>4, <1>5, <1>6, <1>7, <1>8 DEF Next

-----------------------------------------------------------------------------
(* The properties                                                          *)

LEMMA AccountedFor == IInv => EverythingAccounted
  <1> SUFFICES ASSUME IInv PROVE EverythingAccounted
    OBVIOUS
  <1>1. ASSUME NEW q \in Proc
        PROVE  Cardinality(Places(proc_table, q)) = IF q \in Live THEN 1 ELSE 0
    <2>1. proc_table \in Family(Hash, Proc) /\ Apart(proc_table)
      BY DEF IInv, TypeOK, ProcsListed, Family
    <2>2. (\E h \in Hash : q \in Range(proc_table[h])) <=> q \in Live
      <3>1. HashId(pid[q]) \in Hash
        BY HashIdType DEF IInv, TypeOK
      <3> QED BY <3>1 DEF IInv, ProcsListed
    <2> QED BY <2>1, <2>2, OnePlace
  <1>2. ASSUME NEW w \in Wrapper
        PROVE  Cardinality(Places([q \in Live |-> thread_list[q]], w))
                 = IF w \in spare.wrapper THEN 0 ELSE 1
    <2> DEFINE ss == [q \in Live |-> thread_list[q]]
    <2>1. Live \subseteq Proc /\ thread_list \in [Proc -> Seq(Wrapper)]
      BY DEF Live, IInv, TypeOK
    <2>2. ss \in Family(Live, Wrapper) /\ DOMAIN ss = Live /\ \A q \in Live : ss[q] = thread_list[q]
      BY <2>1 DEF Family
    <2> HIDE DEF ss
    <2>3. Apart(ss)
      BY <2>1, <2>2 DEF IInv, WrappersListed, Apart
    <2>4. (\E q \in Live : w \in Range(ss[q])) <=> w \notin spare.wrapper
      <3>1. ASSUME NEW q \in Proc, w \in Range(thread_list[q]) PROVE q \in Live
        <4>1. thread_list[q] # <<>>
          BY <3>1 DEF Range
        <4> QED BY <4>1 DEF IInv, WrappersListed, Live
      <3> QED BY <2>1, <2>2, <3>1 DEF IInv, WrappersListed
    <2>5. Cardinality(Places(ss, w)) = IF w \in spare.wrapper THEN 0 ELSE 1
      BY <2>2, <2>3, <2>4, OnePlace
    <2> QED BY <2>5 DEF ss
  <1>3. ASSUME NEW t \in Thread
        PROVE  Cardinality(Places(lists, t)) = IF t \in spare.thread THEN 0 ELSE 1
    <2>1. lists \in Family(Lists, Thread \cup {Ksetup}) /\ Apart(lists) /\ "ready" \in Lists
      BY ListsFacts
    <2>2. (\E l \in Lists : t \in Range(lists[l])) <=> t \notin spare.thread
      BY <2>1 DEF IInv, ThreadsListed
    <2> QED BY <2>1, <2>2, OnePlace
  <1>4. \A q \in spare.proc : lists[q] = <<>>
    BY DEF IInv, ThreadsListed
  <1>5. ASSUME NEW a \in Page
        PROVE  Cardinality({q \in Live : addrspace[q] = a}) = IF a \in pool THEN 0 ELSE 1
    <2>1. CASE a \in pool
      <3>1. {q \in Live : addrspace[q] = a} = {}
        BY <2>1 DEF IInv, SpacesApart
      <3> QED BY <2>1, <3>1, FS_EmptySet
    <2>2. CASE a \notin pool
      <3>1. PICK q \in Live : addrspace[q] = a
        BY <2>2 DEF IInv, SpacesApart
      <3>2. {r \in Live : addrspace[r] = a} = {q}
        BY <3>1 DEF IInv, SpacesApart
      <3> QED BY <2>2, <3>2, FS_Singleton
    <2> QED BY <2>1, <2>2
  <1> QED BY <1>1, <1>2, <1>3, <1>4, <1>5 DEF EverythingAccounted

LEMMA NoDangling == IInv => NothingDangling
  <1> SUFFICES ASSUME IInv PROVE NothingDangling
    OBVIOUS
  <1>1. ASSUME NEW q \in Live, NEW t \in Threads(q)
        PROVE  t \in Thread \ spare.thread /\ proc[t] = q
    BY DEF Threads, Live, IInv, WrappersListed
  <1>2. \A t \in Thread \ spare.thread : proc[t] \in Live \cup {None}
    BY DEF IInv, WrappersListed
  <1>3. cur_th \notin spare.thread
    <2>1. spare.thread \subseteq Thread
      BY DEF IInv, TypeOK
    <2> QED BY <2>1, ListsFacts DEF IInv, ThreadsListed
  <1> QED BY <1>1, <1>2, <1>3 DEF NothingDangling

LEMMA PidFinds == IInv => PidFindsProcess
  <1> SUFFICES ASSUME IInv, NEW n \in 1..MaxPid
               PROVE  ProcPid(n) = IF \E q \in Live : pid[q] = n
                                   THEN CHOOSE q \in Live : pid[q] = n ELSE None
    BY DEF PidFindsProcess
  <1> DEFINE X == {q \in Proc : pid[q] = n}
             found == Keeping(proc_table[HashId(n)], X)
  <1>1. HashId(n) \in Hash
    BY LifecycleAssumption, HashIdType
  <1>2. /\ found \in Seq(Proc)
        /\ Range(found) = Range(proc_table[HashId(n)]) \cap X
    <2>1. proc_table[HashId(n)] \in Seq(Proc)
      BY <1>1 DEF IInv, TypeOK
    <2> HIDE DEF X
    <2> QED BY <2>1, KeepingElements
  <1>3. ProcPid(n) = IF found = <<>> THEN None ELSE Head(found)
    BY DEF ProcPid
  <1> HIDE DEF found
  <1>4. \A q \in Proc : q \in Range(found) <=> q \in Live /\ pid[q] = n
    BY <1>1, <1>2 DEF IInv, ProcsListed
  <1>5. Live \subseteq Proc
    BY DEF Live
  <1>6. CASE \E q \in Live : pid[q] = n
    <2>1. found # <<>>
      BY <1>2, <1>4, <1>5, <1>6, NoElements
    <2>2. Head(found) \in Range(found) /\ Head(found) \in Proc
      BY <1>2, <2>1, RotateElements
    <2>3. Head(found) \in Live /\ pid[Head(found)] = n
      BY <1>4, <2>2
    <2>4. \A q, r \in Live : pid[q] = n /\ pid[r] = n => q = r
      BY DEF IInv, ProcsListed
    <2> QED BY <1>3, <1>6, <2>1, <2>3, <2>4
  <1>7. CASE ~ \E q \in Live : pid[q] = n
    <2>1. Range(found) = {}
      BY <1>2, <1>4, <1>7 DEF X
    <2>2. found = <<>>
      BY <1>2, <2>1, NoElements
    <2> QED BY <1>3, <1>7, <2>2
  <1> QED BY <1>6, <1>7

\* The invariant that makes the three properties hold in every state.
THEOREM LifecycleInvariant == Spec => []IInv
  BY InitIInv, StepIInv, PTL DEF Spec

\* proc_create, proc_destroy, proc_add_thread, proc_remove_thread,
\* thread_create and thread_destroy, called in any order that keeps the rules,
\* among threads that run, block and wake: each structure and page is free or
\* in one place, for any numbers of them.
THEOREM NothingLost == Spec => []EverythingAccounted
  BY LifecycleInvariant, AccountedFor, PTL

\* ... no pointer leads to a structure that was freed.
THEOREM PointersLive == Spec => []NothingDangling
  BY LifecycleInvariant, NoDangling, PTL

\* ... and proc_pid finds the process that has a number, and no other.
THEOREM PidCorrect == Spec => []PidFindsProcess
  BY LifecycleInvariant, PidFinds, PTL
=============================================================================
