------------------------------- MODULE VmPool -------------------------------
(***************************************************************************)
(* kern/vm_pool.c: the pool of virtual pages of the kernel, a stack that   *)
(* grows down an array of boot.vm_stack_size entries. `free' is the used   *)
(* part of the array from `top' on, so that top = PageCount - Len(free).   *)
(***************************************************************************)
EXTENDS Queues, FiniteSets

CONSTANTS
    PageCount,  \* pages below ARCH_CONST_KERN_HIGHMEM, boot.vm_stack_size too
    Reserved    \* pages of the kernel, the bitmap, this stack, the page tables

ASSUME PoolAssumption ==
    /\ PageCount \in Nat \ {0}
    /\ Reserved \subseteq 1..(PageCount - 1)

VARIABLE free

Page == 0..(PageCount - 1)
NullPage == 0

\* The loop of vm_pool_setup after n pages: it pushes them from page 0 up,
\* which thus ends at the bottom.
Filled[n \in 0..PageCount] ==
    IF n = 0 THEN <<>>
    ELSE IF n - 1 \in Reserved THEN Filled[n - 1] ELSE <<n - 1>> \o Filled[n - 1]

PoolSetup == free = Filled[PageCount]

\* vm_pool_alloc fails when one entry is left: that one is never given out.
PoolHasPage == Len(free) > 1

\* vm_pool_alloc pops the page on top.
PoolTop   == Head(free)
PoolAlloc == free' = Tail(free)

SlipPoolFree(ps) == free' = IF ps = <<>> THEN free ELSE <<Head(ps)>> \o free

\* vm_pool_free of each page of ps in turn. The array has an entry for every
\* page, so that top is not 0 and no push fails while a page is given out.
PoolFree(ps) == free' = Reverse(ps) \o free
=============================================================================
