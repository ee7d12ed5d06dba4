------------------------------- MODULE VmSlab -------------------------------
(***************************************************************************)
(* kern/vm_slab.c: caches of objects of one size, cut from pages that are  *)
(* taken from the pool of VmPool and called slabs. A cache is itself an    *)
(* object of the static cache_cache. An address is a page and the number   *)
(* of a bufctl in it.                                                      *)
(*                                                                         *)
(* `held' is no variable of the code: it is what callers were given by     *)
(* vm_cache_alloc and did not return yet. Callers return only what they    *)
(* hold, and no longer use a cache they have destroyed.                    *)
(***************************************************************************)
EXTENDS VmPool

CONSTANTS
    CacheCache,  \* &cache_cache
    CacheSize,   \* sizeof(struct vm_cache)
    Sizes,       \* the object sizes caches are created for
    Room,        \* what struct slab leaves of a page
    Bufctl       \* sizeof(struct bufctl)

ASSUME SlabAssumption ==
    /\ CacheSize \in Nat \ {0}
    /\ Sizes \subseteq Nat \ {0}
    /\ Room \in Nat \ {0}
    /\ Bufctl \in Nat \ {0}
    /\ CacheCache \notin Page \X Nat

VARIABLES
    slab,       \* the struct slab at the start of a page
    lists,      \* slabs_free, slabs_partial and slabs_full of a cache
    size,       \* cache->size
    cacheList,  \* cache_list
    held,
    fault       \* the size of a cache whose slab had no bufctl to take, else 0

slabVars == <<slab, lists, size>>
vars == <<free, slab, lists, size, cacheList, held, fault>>

\* Two ways to count the objects of a page: by a division, and by the loop
\* that makes them, whose bound is strict.
Capacity(s) == Room \div (s + Bufctl)
Made(s)     == Cardinality({k \in 0..Room : (k + 1) * (s + Bufctl) < Room})

\* No page has more objects than it would have of one byte.
Object == Page \X (1..Capacity(1))
Cache  == {CacheCache} \cup Object

NoSlabs == [free |-> <<>>, partial |-> <<>>, full |-> <<>>]
NoSlab  == [objects |-> 0, bufctls |-> <<>>, cache |-> CacheCache]

Init ==
    /\ PoolSetup
    /\ slab = [p \in Page |-> NoSlab]
    /\ lists = [c \in Cache |-> NoSlabs]
    /\ size = [c \in Cache |-> IF c = CacheCache THEN CacheSize ELSE 0]
    /\ cacheList = <<CacheCache>>
    /\ held = [c \in Cache |-> {}]
    /\ fault = 0

-----------------------------------------------------------------------------
\* A cache's lists ls once its slab p has gone from one of them to another:
\* LLIST_REMOVE and LLIST_ADD, nothing if it is to stay.
Moved(ls, p, from, to) ==
    IF from = to THEN ls
    ELSE Enqueued(Dropped(ls, from, p), to, p)

\* The struct slab vm_cache_grow sets up, and the list it is put in.
Grown(c) ==
    [objects |-> Capacity(size[c]),
     bufctls |-> [i \in 1..Made(size[c]) |-> i],
     cache   |-> c]

MustGrow(c) == lists[c].free = <<>> /\ lists[c].partial = <<>>

\* The slab an allocation from c works on, after the cache has grown if it
\* had to: its list, its page and what is in it.
WorkList(c) == IF lists[c].partial # <<>> THEN "partial" ELSE "free"
WorkPage(c) == IF MustGrow(c) THEN PoolTop ELSE Head(lists[c][WorkList(c)])
WorkSlab(c) == IF MustGrow(c) THEN Grown(c) ELSE slab[WorkPage(c)]

\* The object vm_cache_alloc returns.
Given(c) == <<WorkPage(c), Head(WorkSlab(c).bufctls)>>

SlipTaken(s) == [s EXCEPT !.objects = @ - 1]

Taken(s) == [s EXCEPT !.objects = @ - 1, !.bufctls = Tail(@)]

SlipListsAfterTaking(c) ==
    Moved([lists[c] EXCEPT !.free = IF MustGrow(c) THEN <<WorkPage(c)>> ELSE @],
          WorkPage(c), WorkList(c), "partial")

ListsAfterTaking(c) ==
    Moved([lists[c] EXCEPT !.free = IF MustGrow(c) THEN <<WorkPage(c)>> ELSE @],
          WorkPage(c), WorkList(c),
          IF WorkSlab(c).objects = 1 THEN "full" ELSE "partial")

Returned(s, i) == [s EXCEPT !.objects = @ + 1, !.bufctls = Append(@, i)]

SlipListsAfterReturning(c, p) ==
    IF slab[p].objects = 0 THEN Moved(lists[c], p, "full", "partial")
    ELSE Moved(lists[c], p, "partial",
               IF slab[p].objects + 1 = Capacity(size[c]) THEN "free" ELSE "partial")

ListsAfterReturning(c, p) ==
    Moved(lists[c], p,
          IF slab[p].objects = 0 THEN "full" ELSE "partial",
          IF slab[p].objects + 1 = Capacity(size[c]) THEN "free" ELSE "partial")

-----------------------------------------------------------------------------
Live == Range(cacheList)

\* What vm_cache_alloc does before it returns Given(c), but for the lists.
Take(c) ==
    /\ fault = 0
    /\ MustGrow(c) => PoolHasPage
    /\ WorkSlab(c).bufctls # <<>>
    /\ IF MustGrow(c) THEN PoolAlloc ELSE UNCHANGED free
    /\ slab' = [slab EXCEPT ![WorkPage(c)] = Taken(WorkSlab(c))]
    /\ held' = [held EXCEPT ![c] = @ \cup {Given(c)}]
    /\ UNCHANGED fault

\* vm_cache_alloc by the holder of a cache.
Alloc(c) ==
    /\ c # CacheCache
    /\ Take(c)
    /\ lists' = [lists EXCEPT ![c] = ListsAfterTaking(c)]
    /\ UNCHANGED <<size, cacheList>>

\* vm_cache_create: a cache for objects of s bytes.
Create(s) ==
    /\ Take(CacheCache)
    /\ LET c == Given(CacheCache) IN
       /\ lists' = [lists EXCEPT ![CacheCache] = ListsAfterTaking(CacheCache),
                                 ![c] = NoSlabs]
       /\ size' = [size EXCEPT ![c] = s]
       /\ cacheList' = Append(cacheList, c)

\* vm_cache_grow fails, and vm_cache_alloc or vm_cache_create with it.
AllocFails(c) == fault = 0 /\ MustGrow(c) /\ ~ PoolHasPage /\ UNCHANGED vars

\* LLIST_GETHEAD of an empty list of bufctls, which LLIST_REMOVE follows.
AllocFaults(c) ==
    /\ fault = 0
    /\ MustGrow(c) => PoolHasPage
    /\ WorkSlab(c).bufctls = <<>>
    /\ fault' = size[c]
    /\ UNCHANGED <<free, slabVars, cacheList, held>>

\* vm_cache_free of object o, when it is one of c's.
Free(c, o) ==
    /\ fault = 0
    /\ c # CacheCache
    /\ slab[o[1]].cache = c
    /\ slab' = [slab EXCEPT ![o[1]] = Returned(@, o[2])]
    /\ lists' = [lists EXCEPT ![c] = ListsAfterReturning(c, o[1])]
    /\ held' = [held EXCEPT ![c] = @ \ {o}]
    /\ UNCHANGED <<free, size, cacheList, fault>>

\* ... and when it is not.
FreeRefused(c, o) ==
    /\ fault = 0
    /\ slab[o[1]].cache # c
    /\ UNCHANGED vars

SlipEmpty(c) == lists[c].full = <<>>

\* Cache must be empty.
Empty(c) == lists[c].partial = <<>> /\ lists[c].full = <<>>

\* vm_cache_destroy: the slabs go back to the pool, the cache to cache_cache.
Destroy(c) ==
    /\ fault = 0
    /\ c # CacheCache
    /\ Empty(c)
    /\ PoolFree(lists[c].free)
    /\ slab' = [slab EXCEPT ![c[1]] = Returned(@, c[2])]
    /\ lists' = [lists EXCEPT ![c] = NoSlabs,
                              ![CacheCache] = ListsAfterReturning(CacheCache, c[1])]
    /\ size' = [size EXCEPT ![c] = 0]
    /\ cacheList' = Without(cacheList, c)
    /\ held' = [held EXCEPT ![CacheCache] = @ \ {c}]
    /\ UNCHANGED fault

\* The cache is in use.
DestroyRefused(c) ==
    /\ fault = 0
    /\ ~ Empty(c)
    /\ UNCHANGED vars

Next ==
    \/ \E s \in Sizes : Create(s)
    \/ \E c \in Live :
        \/ Alloc(c)
        \/ AllocFails(c)
        \/ AllocFaults(c)
        \/ \E o \in UNION {held[d] : d \in Live} : Free(c, o) \/ FreeRefused(c, o)
        \/ Destroy(c)
        \/ DestroyRefused(c)

Spec == Init /\ [][Next]_vars

-----------------------------------------------------------------------------
(* Properties                                                              *)

SlabsOf(c) == Range(lists[c].free \o lists[c].partial \o lists[c].full)

\* The loop makes as many objects as the division counts, and at least one.
Fits(s) == Made(s) = Capacity(s) /\ Made(s) > 0

\* A slab is in exactly one list of its own cache, the one its counter names,
\* after any sequence of allocations and releases.
SlabsFiled == \A c \in Live :
    /\ IsInjective(lists[c].free \o lists[c].partial \o lists[c].full)
    /\ \A p \in SlabsOf(c) :
        /\ slab[p].cache = c
        /\ p \in Range(lists[c].full) <=> slab[p].objects = 0
        /\ p \in Range(lists[c].free) <=> slab[p].objects = Capacity(size[c])

\* Each object of a slab is either held by one caller or in the slab's list
\* of bufctls, once: none is lost and none is given out twice.
ObjectsAccounted ==
    /\ \A c \in Cache : \A o \in held[c] : c \in Live /\ o[1] \in SlabsOf(c)
    /\ \A c \in Live : \A p \in SlabsOf(c) :
        LET given == {o[2] : o \in {h \in held[c] : h[1] = p}} IN
        /\ IsInjective(slab[p].bufctls)
        /\ given \cap Range(slab[p].bufctls) = {}
        /\ given \cup Range(slab[p].bufctls) = 1..Made(size[c])

\* Each page is in the pool or a slab of one cache, never both: destroying
\* caches returns every page, and no cache is destroyed from under its slabs.
PagesAccounted ==
    /\ IsInjective(free)
    /\ \A c, d \in Live : c # d => SlabsOf(c) \cap SlabsOf(d) = {}
    /\ \A c \in Live : SlabsOf(c) \cap Range(free) = {}
    /\ Range(free) \cup UNION {SlabsOf(c) : c \in Live} = Page \ Reserved

\* Page 0 stays at the bottom of the pool: no object has the address NULL.
NullPageKept == free # <<>> /\ Last(free) = NullPage

\* An allocation always finds a bufctl, in a cache whose size fits the page.
FitNeverFaults == fault = 0 \/ ~ Fits(fault)

-----------------------------------------------------------------------------
(* The slabs keep the promise of Allocator                                 *)

Promise == INSTANCE Allocator

\* What vm_cache_alloc returns is in nobody's hands, in no page that a caller
\* has for another cache, and not NULL, whatever was allocated, freed, created
\* and destroyed before; vm_cache_free takes back only what the cache gave,
\* and vm_cache_destroy no cache that a caller has an object of.
AllocatesApart == Promise!Spec
=============================================================================
