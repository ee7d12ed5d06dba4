------------------------------- MODULE Paging -------------------------------
(***************************************************************************)
(* kern/arch/x86/vm_paging.c and exceptions.c, with the callers in         *)
(* kern/proc.c: address spaces, and the page faults that fill them.        *)
(*                                                                         *)
(* Memory is the frames' contents, read as tables: mem[f][i] is the frame  *)
(* entry i of frame f points to, 0 if not present. The directory and the   *)
(* tables of the space that is loaded are reached through its last entry,  *)
(* which points to the directory itself. Frames from KernStart on hold the *)
(* kernel's directory and tables, built by vm_paging_setup; those below    *)
(* are handed out by page faults, one after the other. An address is a     *)
(* directory entry and a table entry.                                      *)
(*                                                                         *)
(* The threads of the processes access memory, the kernel does in          *)
(* ksetup_th; the clock interrupt switches between them, also in the       *)
(* middle of an access that faulted and is to be made again.               *)
(***************************************************************************)
EXTENDS Integers

CONSTANTS
    Proc,
    Thread,
    Owner,      \* the process of each thread
    Ksetup,     \* the thread main() runs in, which has no process
    Touched,    \* the addresses programs access, wild ones among them
    None,
    Last,       \* VM_PAGING_SELFMAP, the last entry of a table
    KernSlots,  \* the first entries of a directory, ARCH_CONST_KERN_HIGHMEM
    KernStart   \* where the kernel starts in physical memory, in frames

ASSUME PagingAssumption ==
    /\ Last \in Nat \ {0}
    /\ KernSlots \in 1..Last
    /\ KernStart \in Nat \ {0}
    /\ Owner \in [Thread -> Proc]
    /\ Ksetup \notin Thread
    /\ Touched \subseteq (0..Last) \X (0..Last)
    /\ None \notin Proc \cup (Int \X Int)

VARIABLES
    cur,    \* the running thread
    mem,
    cr3,    \* the frame of the directory that is loaded
    p,      \* the frame the next fault takes, of excep_handle
    space,  \* proc->addrspace, an address of the kernel's part
    inUse,  \* the addresses of the pool's pages that were given out
    job     \* what each thread is at: an access, what it is for, and a count
            \* of the faults it took, kept for the properties

vars == <<cur, mem, cr3, p, space, inUse, job>>

AnyThread == Thread \cup {Ksetup}

Slot      == 0..Last
KernSlot  == 0..(KernSlots - 1)
UserSlot  == KernSlots..(Last - 1)
KernAddr  == KernSlot \X Slot
UserAddr  == UserSlot \X Slot
KernPd    == KernStart
KernTable(i) == KernStart + 1 + i
KernTables == {KernTable(i) : i \in KernSlot}
Frame     == 0..(KernStart + KernSlots)

NoJob     == [op |-> "none"]
Touching(a) == [op |-> "touch", addr |-> a, faults |-> 0]

\* The count of faults stops here.
ManyFaults == 3
Empty     == [i \in Slot |-> 0]

\* What memory holds before anything was written there.
Garbage   == [i \in Slot |-> KernPd]

\* vm_paging_setup: the kernel's tables are all there from the beginning. Its
\* identity mapping of the kernel's image is left out: no access goes there.
Init ==
    /\ cur = Ksetup
    /\ mem = [f \in Frame |->
                CASE f < KernStart -> Garbage
                  [] f = KernPd    -> [i \in Slot |->
                        CASE i \in KernSlot -> KernTable(i)
                          [] i = Last       -> KernPd
                          [] OTHER          -> 0]
                  [] OTHER         -> Empty]
    /\ cr3 = KernPd
    /\ p = 1
    /\ space = [q \in Proc |-> None]
    /\ inUse = {}
    /\ job = [t \in AnyThread |-> NoJob]

\* The frames below the kernel last: none of its own was handed out. Nothing
\* in excep_handle sees to that, and the first fault that takes one writes
\* over the kernel's directory; the model is bounded there, after that fault.
BelowKernel == p =< KernStart

Running(t)  == BelowKernel /\ cur = t

-----------------------------------------------------------------------------
(* Translation                                                             *)

\* The frame an address goes to in the space of directory pd, 0 if none.
Walk(pd, a) == IF mem[pd][a[1]] = 0 THEN 0 ELSE mem[mem[pd][a[1]]][a[2]]

SlipToPhys(a) == Walk(KernPd, a)

\* vm_tophys, which goes through the tables of the loaded space.
ToPhys(a) == Walk(cr3, a)

\* What an access by the running thread reaches: a program is refused the
\* kernel's part and the last entry, which lack the user bit.
Reached(a) == ToPhys(a) # 0 /\ (cur \in Thread => a[1] \in UserSlot)

\* VM_PAGING_GET_PD, the address of the directory that is loaded.
SelfAddr == <<Last, Last>>

\* vm_switch_to: nothing if the address has no frame.
SwitchTo(a) == cr3' = IF ToPhys(a) = 0 THEN cr3 ELSE ToPhys(a)

-----------------------------------------------------------------------------
(* Page faults                                                             *)

SlipInternal(a) == a[1] # Last /\ mem[KernPd][a[1]] = 0

\* vm_pf_resolvable: a missing table ...
Internal(a) == a[1] # Last /\ mem[cr3][a[1]] = 0

SlipExternal(a) == cur = Ksetup /\ a[1] # Last /\ ~ Internal(a) /\ ToPhys(a) = 0

\* ... or a missing page, wherever it is. Nothing is done about an access that
\* is refused, or that goes through the last entry.
External(a) == a[1] # Last /\ ~ Internal(a) /\ ToPhys(a) = 0

\* vm_pf_fix: frame p becomes a table, which is cleared ...
MapTable(a) == mem' = [mem EXCEPT ![cr3][a[1]] = p, ![p] = Empty]

\* ... or the page itself, which is not.
MapPage(a) == mem' = [mem EXCEPT ![mem[cr3][a[1]]][a[2]] = p]

SlipNextFrame(a) == p' = IF Internal(a) THEN p ELSE p + 1

\* One frame less after every fault, whether it was resolved or not.
NextFrame(a) == p' = p + 1

\* excep_handle; the access is then made again.
Fault(t) ==
    /\ Running(t)
    /\ job[t] # NoJob
    /\ LET a == job[t].addr IN
       /\ ~ Reached(a)
       /\ \/ Internal(a) /\ MapTable(a)
          \/ External(a) /\ MapPage(a)
          \/ ~ Internal(a) /\ ~ External(a) /\ UNCHANGED mem
       /\ NextFrame(a)
    /\ job' = [job EXCEPT ![t].faults = IF @ = ManyFaults THEN @ ELSE @ + 1]
    /\ UNCHANGED <<cur, cr3, space, inUse>>

\* The access goes through, when there was no more to it.
Access(t) ==
    /\ Running(t)
    /\ job[t] # NoJob
    /\ job[t].op = "touch"
    /\ Reached(job[t].addr)
    /\ job' = [job EXCEPT ![t] = NoJob]
    /\ UNCHANGED <<cur, mem, cr3, p, space, inUse>>

-----------------------------------------------------------------------------
(* What programs do                                                        *)

Touch(t, a) ==
    /\ Running(t)
    /\ job[t] = NoJob
    /\ job' = [job EXCEPT ![t] = Touching(a)]
    /\ UNCHANGED <<cur, mem, cr3, p, space, inUse>>

\* The clock does not tick while the kernel is at work: main() does it all
\* before it opens the timer's line.
MayLeave == job[Ksetup] = NoJob

\* clock_handler, syscall_send and syscall_receive switch to a thread in the
\* space of its process, whatever the one that ran was at.
Switch(t) ==
    /\ BelowKernel
    /\ MayLeave
    /\ cur # t
    /\ space[Owner[t]] # None
    /\ cur' = t
    /\ SwitchTo(space[Owner[t]])
    /\ UNCHANGED <<mem, p, space, inUse, job>>

\* ... or to ksetup_th, which stays in the space that is loaded.
SwitchToKsetup ==
    /\ BelowKernel
    /\ cur # Ksetup
    /\ cur' = Ksetup
    /\ UNCHANGED <<mem, cr3, p, space, inUse, job>>

-----------------------------------------------------------------------------
(* What the kernel does in ksetup_th                                       *)

KernelIdle == Running(Ksetup) /\ job[Ksetup] = NoJob

KernelJob(j) == job' = [job EXCEPT ![Ksetup] = j]

\* vm_pool_alloc: which of its pages the pool gives makes no difference.
PoolPage == CHOOSE a \in KernAddr \ inUse : TRUE

TakePage ==
    /\ KernAddr \ inUse # {}
    /\ inUse' = inUse \cup {PoolPage}

\* ctx_setup clears a new thread's stack in the space that is loaded.
TouchStack(a) ==
    /\ KernelIdle
    /\ KernelJob(Touching(a))
    /\ UNCHANGED <<cur, mem, cr3, p, space, inUse>>

\* vm_cache_grow: the kernel writes to a page it took from the pool.
TouchHeap ==
    /\ KernelIdle
    /\ TakePage
    /\ KernelJob(Touching(PoolPage))
    /\ UNCHANGED <<cur, mem, cr3, p, space>>

\* proc_create takes a page for a directory, and vm_sync writes to it.
Create(q) ==
    /\ KernelIdle
    /\ space[q] = None
    /\ TakePage
    /\ KernelJob([op |-> "sync", addr |-> PoolPage, faults |-> 0, proc |-> q])
    /\ UNCHANGED <<cur, mem, cr3, p, space>>

SlipSynced(f) == [i \in Slot |-> IF i \in UserSlot THEN 0 ELSE mem[KernPd][i]]

\* The directory vm_sync writes at an address that has frame f.
Synced(f) == [i \in Slot |->
    CASE i \in KernSlot -> mem[KernPd][i]
      [] i = Last       -> f
      [] OTHER          -> 0]

Sync ==
    /\ Running(Ksetup)
    /\ job[Ksetup] # NoJob
    /\ LET j == job[Ksetup]
           f == ToPhys(j.addr) IN
       /\ j.op = "sync"
       /\ f # 0
       /\ mem' = [mem EXCEPT ![f] = Synced(f)]
       /\ space' = [space EXCEPT ![j.proc] = j.addr]
    /\ KernelJob(NoJob)
    /\ UNCHANGED <<cur, cr3, p, inUse>>

\* proc_memcopy, in the space of q.
Copy(q, a) ==
    /\ KernelIdle
    /\ space[q] # None
    /\ SwitchTo(space[q])
    /\ KernelJob(IF ToPhys(space[q]) = 0 THEN NoJob
                 ELSE [op |-> "copy", addr |-> a, faults |-> 0])
    /\ UNCHANGED <<cur, mem, p, space, inUse>>

\* ... which then switches to where vm_get_pd said the directory was: that
\* is the address of any directory, in its own space, so of q's by now.
CopyEnds ==
    /\ Running(Ksetup)
    /\ job[Ksetup] # NoJob
    /\ job[Ksetup].op = "copy"
    /\ Reached(job[Ksetup].addr)
    /\ SwitchTo(SelfAddr)
    /\ KernelJob(NoJob)
    /\ UNCHANGED <<cur, mem, p, space, inUse>>

\* proc_destroy ends q's threads and gives the directory's page back to the
\* pool; its tables and pages stay behind. Nobody destroys the space that is
\* loaded.
Destroy(q) ==
    /\ KernelIdle
    /\ space[q] # None
    /\ ToPhys(space[q]) # cr3
    /\ space' = [space EXCEPT ![q] = None]
    /\ inUse' = inUse \ {space[q]}
    /\ job' = [t \in AnyThread |-> IF t \in Thread /\ Owner[t] = q THEN NoJob ELSE job[t]]
    /\ UNCHANGED <<cur, mem, cr3, p>>

Next ==
    \/ \E t \in AnyThread : Fault(t) \/ Access(t)
    \/ \E t \in Thread : Switch(t) \/ \E a \in Touched : Touch(t, a)
    \/ SwitchToKsetup \/ TouchHeap \/ Sync \/ CopyEnds
    \/ \E a \in Touched \cap UserAddr : TouchStack(a) \/ \E q \in Proc : Copy(q, a)
    \/ \E q \in Proc : Create(q) \/ Destroy(q)

\* An access that faulted is made again, at once or when its thread runs
\* next: the clock comes round to every thread, and a tick is long enough for
\* a fault or an access.
Retry(t) == Fault(t) \/ Access(t)

Spec == Init /\ [][Next]_vars
             /\ \A t \in Thread : SF_vars(Switch(t)) /\ SF_vars(Retry(t))
             /\ WF_vars(Retry(Ksetup)) /\ WF_vars(Sync) /\ WF_vars(CopyEnds)

-----------------------------------------------------------------------------
(* Properties                                                              *)

\* The directories: the kernel's, and that of each process.
PdOf(q) == Walk(KernPd, space[q])
Live    == {q \in Proc : space[q] # None}
Pds     == {KernPd} \cup {PdOf(q) : q \in Live}

\* Every space has the kernel's tables and finds its own directory in its
\* last entry.
KernelShared == \A d \in Pds :
    /\ d # 0
    /\ mem[d][Last] = d
    /\ \A i \in KernSlot : mem[d][i] = KernTable(i)

\* One of the spaces is loaded, for a program that of its process.
OwnSpace ==
    /\ cr3 \in Pds
    /\ cur \in Thread => Owner[cur] \in Live /\ cr3 = PdOf(Owner[cur])

\* The kernel's half is the same in all spaces: what is mapped there while one
\* of them is loaded is there in the others, and a program runs in the space
\* of its process, wherever the switch to it was made.
SpacesAgree == BelowKernel => KernelShared /\ OwnSpace

\* The entries that are in use: those of the kernel's tables, and of each
\* space the program's part of the directory and the tables it points to.
At(e)      == mem[e[1]][e[2]]
UserTables == {At(e) : e \in Pds \X UserSlot} \ {0}
Entries    == (KernTables \X Slot) \cup (Pds \X UserSlot) \cup (UserTables \X Slot)

\* A frame that an entry in use points to, as a directory, as a table or as a
\* page, was handed out before and has no other entry pointing to it.
OneUse == \A e \in Entries : At(e) # 0 =>
    /\ At(e) < p
    /\ \A g \in Entries : At(g) = At(e) => g = e

\* No frame is used twice, as long as those below the kernel last.
FramesApart == BelowKernel => OneUse

\* A page that is mapped stays where it is while its space lives, whatever
\* spaces are made, filled and switched between, and wherever an access is
\* interrupted: programs keep their memory.
PagesStay == [][BelowKernel' =>
    \A d \in Pds \cap Pds' : \A a \in UserAddr \cup KernAddr :
        Walk(d, a) # 0 => Walk(d, a)' = Walk(d, a)]_vars

\* The accesses that faults can help: those of the kernel, and those of the
\* programs to their own part.
Resolvable(t) == job[t] # NoJob /\ (t = Ksetup \/ job[t].addr \in UserAddr)

\* An access takes two faults at most, one for the table and one for the page,
\* whoever runs, faults and maps pages between the fault and the next try.
TwoFaults == BelowKernel =>
    \A t \in AnyThread : Resolvable(t) => job[t].faults =< 2

\* A program's access to its own part goes through, however often it is
\* switched away from, as long as there is memory below the kernel. If there
\* is not, it was not this access that used it up: the faults of others can,
\* since one that cannot be resolved comes again for ever.
AccessEnds == \A t \in Thread :
    Resolvable(t) ~> (job[t] = NoJob \/ (~ BelowKernel /\ job[t].faults =< 2))
=============================================================================
