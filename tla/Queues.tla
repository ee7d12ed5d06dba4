------------------------------- MODULE Queues -------------------------------
(***************************************************************************)
(* The circular lists of the kernel as sequences, from head to tail.       *)
(* Adding is Append: LLIST_ADD puts an item before the head.               *)
(***************************************************************************)
EXTENDS Integers, SequencesExt

\* LLIST_REMOVE of an element of the list; nothing to do for another one.
Without(q, t) ==
    IF t \in Range(q)
    THEN RemoveAt(q, CHOOSE i \in DOMAIN q : q[i] = t)
    ELSE q

\* The same of x and list k of several.
Enqueued(ss, k, x) == [ss EXCEPT ![k] = Append(@, x)]
Dropped(ss, k, x)  == [ss EXCEPT ![k] = Without(@, x)]

\* The elements of list q that are in X, in their order: a walk along a list
\* that takes out, or passes over, the others.
Keeping(q, X) ==
    LET kept[i \in 0..Len(q)] ==
          IF i = 0 THEN <<>>
          ELSE IF q[i] \in X THEN Append(kept[i - 1], q[i]) ELSE kept[i - 1]
    IN  kept[Len(q)]

\* t is the first element of list q that is in the set C.
IsFirst(t, q, C) ==
    \E i \in DOMAIN q : /\ q[i] = t /\ t \in C
                        /\ \A j \in 1..(i - 1) : q[j] \notin C
=============================================================================
