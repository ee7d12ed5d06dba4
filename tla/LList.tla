------------------------------- MODULE LList -------------------------------
(***************************************************************************)
(* include/llist.h: circular doubly linked lists threaded through the      *)
(* next and prev of the items, so that an item is in one list at a time.   *)
(* Every queue of the kernel is one: the scheduler's, the wait list and    *)
(* the thread list of a process, the process table, the slabs of a cache.  *)
(*                                                                         *)
(* The macros keep neither order nor membership: `order', a history of     *)
(* what was added and removed, says what a list ought to hold, and the     *)
(* invariant Rings that its pointers do hold it.                           *)
(***************************************************************************)
EXTENDS Integers, SequencesExt

CONSTANTS Item, List, Null

ASSUME NullAssumption == Null \notin Item

VARIABLES
    head,  \* the list variable: sched_ready, proc->wait_list, ...
    next, prev,
    order

ptrs == <<next, prev>>
vars == <<head, next, prev, order>>

Init ==
    /\ head = [l \in List |-> Null]
    /\ next \in [Item -> {Null}]
    /\ prev \in [Item -> {Null}]
    /\ order = [l \in List |-> <<>>]

Listed(e) == \E l \in List : e \in Range(order[l])

\* LLIST_ADD to an empty list: LLIST_SETHEAD closes the item on itself.
AddFirst(l, e) ==
    /\ ~ Listed(e)
    /\ head[l] = Null
    /\ head' = [head EXCEPT ![l] = e]
    /\ next' = [next EXCEPT ![e] = e]
    /\ prev' = [prev EXCEPT ![e] = e]
    /\ order' = [order EXCEPT ![l] = Append(@, e)]

\* LLIST_ADD at the tail, which is the item before the head.
AddLast(l, e) ==
    /\ ~ Listed(e)
    /\ head[l] # Null
    /\ LET tail == prev[head[l]] IN
       /\ next' = [next EXCEPT ![e] = head[l], ![tail] = e]
       /\ prev' = [prev EXCEPT ![e] = tail, ![head[l]] = e]
    /\ order' = [order EXCEPT ![l] = Append(@, e)]
    /\ UNCHANGED head

\* The neighbours of e are joined, in whatever list they are.
Unlink(e) ==
    /\ next' = [next EXCEPT ![prev[e]] = next[e]]
    /\ prev' = [prev EXCEPT ![next[e]] = prev[e]]

Single(e) == next'[e] = e /\ prev'[e] = e

SlipAdvanceOnlyLast(k, e) ==
    head' = IF head[k] = e /\ Single(e) THEN [head EXCEPT ![k] = Null] ELSE head

\* LLIST_REMOVE, given head k: only that head is ever moved.
Advance(k, e) ==
    head' = IF head[k] # e THEN head
            ELSE [head EXCEPT ![k] = IF Single(e) THEN Null ELSE next'[e]]

RemoveFrom(l, e) == \E i \in DOMAIN order[l] :
    /\ order[l][i] = e
    /\ Unlink(e)
    /\ Advance(l, e)
    /\ order' = [order EXCEPT ![l] = RemoveAt(@, i)]

\* LLIST_REMOVE given the head of another list, which syscall_notify does to
\* a sender it takes from a wait list: harmless unless e heads its own list.
RemoveThrough(k, l, e) == \E i \in DOMAIN order[l] :
    /\ k # l
    /\ order[l][i] = e /\ i > 1
    /\ Unlink(e)
    /\ Advance(k, e)
    /\ order' = [order EXCEPT ![l] = RemoveAt(@, i)]

Next == \E l \in List, e \in Item :
    \/ AddFirst(l, e)
    \/ AddLast(l, e)
    \/ RemoveFrom(l, e)
    \/ \E k \in List : RemoveThrough(k, l, e)

Spec == Init /\ [][Next]_vars

-----------------------------------------------------------------------------
(* Properties                                                              *)

TypeOK ==
    /\ head \in [List -> Item \cup {Null}]
    /\ next \in [Item -> Item \cup {Null}]
    /\ prev \in [Item -> Item \cup {Null}]
    /\ order \in [List -> Seq(Item)]

\* Pointers h, next and prev hold the sequence s, and go round.
Ring(s, h) ==
    /\ h = IF s = <<>> THEN Null ELSE s[1]
    /\ \A i \in DOMAIN s :
         /\ next[s[i]] = IF i = Len(s) THEN s[1] ELSE s[i + 1]
         /\ prev[s[i]] = IF i = 1 THEN s[Len(s)] ELSE s[i - 1]

\* Each list is the ring of what was added to it and not removed since, in
\* the order of the additions: the loops from LLIST_GETHEAD by LLIST_NEXT to
\* LLIST_ISHEAD see each item once and end.
Rings == \A l \in List : Ring(order[l], head[l])

\* No item is in two lists or twice in one.
Disjoint ==
    \A k, l \in List : \A i \in DOMAIN order[k], j \in DOMAIN order[l] :
        order[k][i] = order[l][j] => k = l /\ i = j
=============================================================================
