----------------------------- MODULE Allocator -----------------------------
(***************************************************************************)
(* What the slab allocator promises those who call it, without slabs,      *)
(* counters or a pool: an object that is given to somebody is nobody       *)
(* else's and shares no page with the objects of another cache; what is    *)
(* returned was given before; a cache is an object too, which is given     *)
(* without objects and is not returned while it has any out.               *)
(***************************************************************************)
CONSTANTS
    CacheCache,  \* the cache of caches, which is nobody's object
    Object,      \* what caches are cut into: a page, and a place in it
    NullPage     \* the page NULL is in

Cache == {CacheCache} \cup Object

VARIABLE held    \* what was given out of each cache and not returned yet

Live == {CacheCache} \cup held[CacheCache]

Init == held = [c \in Cache |-> {}]

\* Object o of cache c can be given to somebody.
Fresh(c, o) ==
    /\ o[1] # NullPage
    /\ \A d \in Live : \A h \in held[d] : h # o /\ (d # c => h[1] # o[1])

\* A cache none of whose objects is out.
Unused(c) == c # CacheCache /\ held[c] = {}

Give(c, o) ==
    /\ Fresh(c, o)
    /\ c = CacheCache => Unused(o)
    /\ held' = [held EXCEPT ![c] = @ \cup {o}]

TakeBack(c, o) ==
    /\ c = CacheCache => Unused(o)
    /\ held' = [held EXCEPT ![c] = @ \ {o}]

Next == \E c \in Live : \/ \E o \in Object : Give(c, o)
                       \/ \E o \in held[c] : TakeBack(c, o)

Spec == Init /\ [][Next]_held
=============================================================================
