# RhinOS in TLA+

RhinOS is a small 32-bit x86 microkernel: threads and processes, a
round-robin scheduler driven by the timer, and synchronous messages (`send`,
`receive`, `notify`) through `int 50`. These modules model its kernel as it is
written under `src/`, from the memory map the bootloader reports to the last
message of its test programs, check it with TLC on small instances, and prove
with TLAPS, for every instance, what the IPC core and its test programs, the
lists, threads and processes, the allocator, the address spaces, the memory map
and the pager, the interrupt masks, the walk over a line's handlers and the
interrupt entry promise.

## 1. Inventory

| Component (source) | State | Operations | Interacts through | What makes it correct | Modules |
|---|---|---|---|---|---|
| Circular lists (`include/llist.h`) | `next`, `prev` in the items, a head variable | add at tail, remove, walk | every queue below | each list stays the ring of what was put in it | `LList`, `Queues`; partly: two macros have no user |
| Scheduler (`sched.c`) | `cur_th`, `sched_ready`, `sched_blocked` | enqueue, dequeue, elect | lists; called by clock and IPC | a thread is in the one list its state names; the head of the ready queue exists; ready threads run | `Ipc`; partly: two queues nobody enters |
| System calls and IPC (`syscall.c`, `ipc.h`) | `ipc.state`, `send_to`, `recv_from`, `wait_list`, saved registers | dispatch, send, receive, notify, deadlock check, three searches | scheduler, threads, processes | no missed rendezvous, no message lost or misdelivered, no circle of senders, results to the caller | `Ipc`, `Rendezvous` |
| Clock (`clock.c`) | ticks | handler: elect and switch | IRQ 0 | any thread may be preempted between two instructions | `Ipc` |
| User programs (`srv/`, `lib/ipc/ipc.s`) | program counter, message buffer | the calls of `user_recv`, `user_send` | `int 50` | each request is answered, by its own answer | `Service`, `OneWay` |
| Threads (`thread.c`) | struct thread, `ksetup_th` | create, destroy, switch | slab, pool, scheduler, contexts | no list keeps a thread that was freed; a thread runs in its own space with its own registers | `Lifecycle`, `Entry`, `Ipc` |
| Processes (`proc.c`) | process table, thread list, wait list, address space | create, destroy, join, part, find, memcopy | slab, pool, paging, threads | no structure or page is lost on any path; a pid finds its process | `Lifecycle`, `Paging` |
| Boot sequence (`main.c`) | – | set-up calls in order, then idle as `ksetup_th` | all | what it leaves is a state the handlers expect | partly: `Init` of `Ipc`, `Boot`, `Entry` |
| Virtual page pool (`vm_pool.c`) | a stack of page addresses | set up, pop, push | slab, threads, processes | no page twice, page 0 never given out | `VmPool` |
| Slab allocator (`vm_slab.c`) | caches, slabs in three lists, bufctls | create, destroy, alloc, free, grow | pool | no object or page lost or given out twice | `VmSlab`, `Allocator` |
| Memory map (`arch/x86/e820.c`) | `mmap`, interval tree | copy, sort, insert, convert, truncate | boot info, pager | ordered, disjoint; at every address the type of the first of the sorted regions that cover it | `E820` |
| Physical pager (`pager0.c`) | bitmap | set up, alloc, free | memory map | no page of the kernel or of a hole in use is given out, none twice | `Boot` |
| Early set-up (`setup.c`, `vm_segment.c`, `krt.s`) | module list, placement | move modules, place tables | bootloader, pager | no boot module is overwritten before it is used | `Boot`, `Entry`, `Segments`; partly: console and early port set-up left out |
| IRQ dispatch (`irq.c`) | handlers per line | add, remove, enable, disable, dispatch | lists, PIC, clock | every handler of a line runs once; the walk ends | `Irq` |
| Interrupt controller and timer (`pic.c`, `pit.c`) | mask registers | mask, unmask, program | IRQ dispatch | a line is open when the last call says so, which the slave's never are | `Irq`; partly: the other port writes are never read back |
| Paging and faults (`vm_paging.c`, `exceptions.c`) | directories, tables, the fault counter | create, clone, sync, map, resolve a fault | every access, `proc_memcopy` | spaces share the kernel's half and nothing else; an access that may be made goes through after two faults at most | `Paging`; partly: permission bits by rule, no 4 MB pages |
| Interrupt entry, contexts (`interrupt.c`, `int.s`, `context.c`) | saved contexts, tss, the kernel's stack | gates, save, switch, restore | all handlers | a handler sees its cause; a thread goes on where it was | `Entry` |
| Serial, port, memory primitives | – | output, copies | – | a copy moves what it says | partly: `x86_mem_copy` in `Boot` |

**How they interact.** An interrupt goes through `Entry` (save the context,
call the handler, restore a context), through `Irq` for a device or `Ipc` for a
system call; the handler moves threads between the lists of `Queues` and
switches, which in `Paging` loads another space and in `Entry` another context.
Threads and processes come from caches (`VmSlab`) and pages (`VmPool`); every
first touch of memory is a fault (`Paging`). `Boot` leaves the memory
all of this lives in.

**Hard behaviours.** The timer interrupts a program between any two
instructions, so calls of different threads come in any order; a handler
runs with interrupts off. Set-up code runs with interrupts on: a handler may
come between two statements of a list macro or between the read and the write
of a mask. Blocking calls end in a switch, and the same handler's remaining
statements then run with another `cur_th`. A thread's links are shared by all
lists, its state is spread over four fields changed by different files, and
`send_to` and `recv_from` are never cleared. The CPU leaves a different frame
for ring 0 and ring 3. A fault repairs one level of the tables at a time and
the access is tried again, perhaps after a switch to another space, whose programs fault too. Sequential parts have their own: counters against
lists (slab), byte indices and 32-bit addresses (e820, pager), allocations that
fail half way through a creation (proc). `PROJECT.json` lists each hazard at its
line with the properties that watch it.

## 2. Modules

    Queues --+-- Ipc --+-- Service --+-- MCService
             |         |             +-- IpcProof      (Ipc ---> Rendezvous, INSTANCE)
             |         +-- OneWay -- MCOneWay
             |         +-- MCIpc
             +-- Lifecycle -- LifecycleProof
             +-- VmPool -- VmSlab -- VmSlabProof     (VmSlab ---> Allocator, INSTANCE)
             +-- QueueLemmas (used by IpcProof, LListProof, LifecycleProof, VmSlabProof,
                              BootProof, InterruptProof)

    LList -- LListProof      Paging --+-- MCPaging      E820 -- Boot --+-- MCBoot
    Irq --+                           +-- PagingProof                  +-- BootProof
    Segments -- Entry --+-- InterruptProof

**Ipc.** One action per way a kernel entry can end: `Clock`; `SendDeliver`,
`SendQueue`, `SendDeadlock`, `SendOverflow`; `ReceiveTake`, `ReceiveBlock`;
`NotifyWake`, `NotifyQueued`, `NotifyNobody`, `NotifyAny`; `Reject`. Each is
the whole handler of `syscall_handle` or `clock_handler`, with the election and
switch it ends in. Every gate is an interrupt gate and nothing in a handler
enables interrupts, so a handler is one atomic step. The variables carry the names of
the fields in the code; `src`, `msg` and `ret` are ESI, EBX/ECX/EDX and EAX of
a saved context. The running thread stays in the ready queue, as in the code:
`sched_running` is never used. The recursion of `syscall_deadlock` is modelled
by what it reaches: `Visited` is the set of processes it comes to,
`ChainClosed` that it finds a way back to the sender, `ChainLoops` that it
meets a cycle elsewhere and never returns. `fault` marks the three ways in
which a call takes the kernel out of the states the model describes; nothing
happens after that.

There are three specifications, for three kinds of programs: `Spec` lets every program make every call
with every argument; `CourteousSpec` leaves out the three that lead to a fault
(no send to one's own process, no notify of `IPC_ANY`, no notify of a process
that has a sender in the caller's wait list); `TrioSpec` (in `MCIpc`) bounds that for three
processes: a receive is from anyone or from one process, and calls that only fail are left out.
The last two of those rules exclude a NULL dereference and a list corruption, so that `NoFault` there is
about the third fault only, the recursion of the deadlock check that does not end, which more than a send to oneself could cause.

**Rendezvous** is the abstract specification of the primitives: no queues, no
scheduler; a thread is free, sending, receiving or being served. `Ipc`
implements it under the mapping at the end of `Ipc` (property `KeepsPromise`).

**Service** puts the three programs `main()` starts on top of `Ipc`. A
wrapper's load of the registers is part of the step that makes the call, and its
store of the answer part of the next step of that program, since a call that
blocks is left only when the thread runs again. **OneWay** is the same for one-way
traffic: sources that send, a sink that receives and notifies.

**Lifecycle** is `proc.c` and `thread.c`: structures of three caches and the
pages of the pool, moved between free, thread list, process table and the
scheduler's queues by creation, destruction, joining and parting, while the
threads run, block (in `blocked` or a process's wait list) and wake. Nothing in the
kernel calls the destructors yet, and they check little, so a caller keeps three
rules, named at the top of the module: the running thread, and the head of
a wait list, are not destroyed; a thread leaves its process before it is
destroyed alone and stays in it otherwise; nobody waits for a process that is destroyed.
`VM_POOL_ERROR` is 1: a creation that finds the pool empty goes on with it as
an address, the checks for 0 are never taken, and the destruction's
`vm_pool_free` refuses it because it is not aligned; `EverythingAccounted` shows
that this loses no page. A structure is assumed to start with an empty wait list
the first time (`proc_create` never clears it); that it is empty again each time it is
reused follows from the third rule. `recv_from` may go on naming a process that
was destroyed and whose structure now is another's: it is compared, never
followed, and `Ipc` has no destruction.

**Irq** is `irq.c` and the masks of `pic.c`. Statements of the list macros and
the read and the write of a mask are steps of their own when the kernel's own
thread makes them, since interrupts are on; a handler makes its changes
at once, between the kernel's read and write of a mask too. `walk` is where `irq_handle_flih` stands.
Drivers keep three rules: a handler leaves its own node linked, changes nothing when it
interrupts a change of a list, and the head of a line changes only while the line is masked
(as it is when the first handler is added: `irq_add_flih` enables it last). Without the last one TLC
finds a walk that follows `Null`. Handlers open lines only by adding to them, and none masks one.
`lost` holds the lines that a handler opened while the kernel was between the read and the write of the
same chip's mask: the write puts the old bit back (`pic.c:229`). `MasksFollowCalls` says that this is the only way in which a
line of the master and the calls for it come apart. It says nothing of the slave, whose bits
`pic_enable_irq` shifts out of the byte that it writes (`pic.c:230`): run `masks` shows that.

**Paging** is `vm_paging.c`, `exceptions.c` and the callers in `proc.c`, frame
by frame: an address space is a directory frame reached through its own last
entry. `Fault` is `excep_handle` for vector 14, which maps either a table or a
page, and leaves the access to be made again: a first touch of a region takes two
faults. `Sync` is `vm_sync`, by which `proc_create` writes the kernel's half of a new
directory. An access by a program to the kernel's part, or through the self-map, is refused for want
of the user bit; such a fault is not resolvable, but `excep_handle` does not look: it takes a page all the same, and the access
comes again, for ever. `Touched` has what the programs access, wild addresses among it.
`job` is where each thread stands in an access. `Switch` may come between a fault and the next try, or between the
two faults of an access; only the kernel's own work, in `ksetup_th`, is not interrupted, since `main()` does it before it
opens the timer's line (`main.c:198-208`). The fault counter starts at page 1 and goes up at each
fault. It has no bound in the code, and none in `Fault`: when it has come to `KernStart`
the next fault writes over the kernel's directory, and the model ends behind that fault. So the
invariants speak of the states before (`BelowKernel`). That the counter also passes the hole
below 1 MB is left out, and so is the identity mapping of the kernel's image, to which nothing here goes. `proc_memcopy` does
not switch back to the caller's space, since `vm_get_pd` gives it the address of the self-map; `Copy`
follows the code: the caller goes on in the other space until the next switch.

**Entry** is `int.s`, `interrupt.c` and `context.c`, register by register for
the ones messages use and one they do not: what the processor pushes from ring 3
(at the end of a context) and from ring 0 (on the kernel's stack, from
where `ctx_postsave` copies it), the fake error code, the switch that moves
`cur_th` and `tss.esp0`, and `iretd` with or without a stack change.
Handlers do not fault here, and exceptions other than 14 halt, as they do in the code;
`int n` through a gate of DPL 0 is a #GP and halts. Two things the module describes but no
property is about: the `add esp, 8` after a single push (`int.s:195`) makes the
call of the restore write one word above the interrupt stack; and a fault inside a handler would
start again at the top of the one interrupt stack (`int.s:319`).
**Segments** has the descriptors of `vm_segment.c` and the selectors of
`x86_const.h` that `Entry` runs with; a 32-bit word is its two halves there, since the size 0
of both spaces stands for 4 GB.

**LList** has the list macros on `next` and `prev`, with the history `order` of
what each list ought to hold, including a removal given the head of the wrong
list, which `syscall_notify` performs. **Queues** has the same operations on
sequences, as `Ipc`, `Lifecycle` and `VmSlab` use them: adding is `Append`,
removing `Without`, and a walk that takes out several `Keeping`, a recursive
function rather than an operator so that proofs can use it.

**VmPool, VmSlab.** The page stack, and over it the slab allocator: an object
is a page and the number of its bufctl, a cache is an object of the static
`cache_cache`. Creating a cache is one
allocation from `cache_cache`. `held` is a history variable: what callers were given.
**Allocator** is the abstract specification of it all, by `held` alone: an object is given and
taken back; creating and destroying a cache is the same, done to `cache_cache`. The slabs, counters, lists and pages
of `VmSlab` decide which object that is and whether it may be; that they decide as `Allocator` allows is
`AllocatesApart`.

**E820.** A step is one round of the loop of `e820_partition`, one call of a
recursive function, or one pass over the map; the recursion is in the state and
not in operators. `ranges` has the pending calls of the sort, with
indices modulo 256 as the code's `u8_t` has them, `cursor` the `i` and `j` of the
partition that runs, `calls` the pending calls of `e820_tree_insert` or
`e820_tree_convert`, the next one first. **Boot** goes on from there:
`setup_x86` moves the boot modules down behind the kernel, one a step, adds
up in `mem` the lengths of the regions, in 32 bits, and
places bitmap, page stack and tables; `pager0_setup` enters the regions, one a
step; then pages are taken and returned. The bitmap
is not cleared, so `Leftover` holds what memory may have had in it.

Operators that begin with `Slip` are not part of the model. Each is the
definition after it with one plausible mistake; `PROJECT.json` ("mutants") names
the property that fails when it takes that definition's place.

## 3. Runs

| Run | Checks | On | States |
|---|---|---|---|
| `ipc_pair` | `TypeOK`, `QueuesMatchStates`, `RunningIsReady`, `NoMissedRendezvous`, `RunsInItsSpace`, `BlockedRegistersKept` | `Spec`: two processes, one of two threads, every call | 330 361 |
| `courteous` | `NoFault`, `SendGraphAcyclic`, `KeepsPromise` (refinement), `ReadyRuns` (liveness) | three processes of one thread under `TrioSpec` | 60 464 |
| `service` | `NeverRefused`, `RepliesToItsOwn`, `ServesOneAtATime`, `EveryRequestAnswered`, `ServerComesBack` | the server and two clients, two messages | 17 808 |
| `llist` | `Rings` | four items, two lists | 8 516 |
| `lifecycle` | `EverythingAccounted`, `NothingDangling`, `PidFindsProcess` | two processes, threads and wrappers, one page, pids 1..4 in a table of 2 | 297 000 |
| `irq` | `MasksFollowCalls`, `WalkEnds`, `EachRunsOnce` | two lines of the master, three nodes | 276 014 |
| `paging` | `SpacesAgree`, `FramesApart`, `TwoFaults`, `PagesStay`, `AccessEnds` | two processes with a thread each, one of which makes a wild access; tables of three entries, five frames below the kernel | 258 968 |
| `entry` | `HandlerSeesCause`, `ResumesWhereInterrupted` | two user threads, two register values, six vectors, two error codes | 301 345 |
| `vm_slab` | `SlabsFiled`, `ObjectsAccounted`, `PagesAccounted`, `FitNeverFaults`, `AllocatesApart` (refinement) | six pages, sizes that divide the page and sizes that do not | 40 495 |
| `boot` | `SortPermutes`, `InOrderDisjoint`, `FirstEntryWins`, `NoneAbove4GB`, `ModulesIntact`, `PagesAccountedFor` | maps of up to three regions, some of four and five; two modules | 128 809 |
| `one_way` | refutes `QueuesSurvive` | two sources and a sink | – |
| `masks` | refutes `EnabledLinesPass` | two lines of the master and one of the slave | – |

`one_way` refutes what the comment of `syscall_notify` tells a receiver to do:
notify each sender after receiving. The receive already released the sender; if
that sender has queued again by the time of the notify, the notify finds it in the
wait list and unlinks it through `sched_blocked`: the wait list keeps, as its
head, a thread of the ready queue. No call in it is illegal. The model has two sources; one is enough.

`masks` refutes the comments of `pic.c` ("Enable n th IRQ line", "IRQ : 0 -> 15", lines 213 and 219) and `irq.c:83`:
after `irq_enable(8)`, line 8 is still masked. With lines of the master alone TLC refutes the same
property in a longer trace, by the update that `lost` is about; no comment denies that one.

**What the code does beside its comments.** Met while modelling, in the models
as they are in the code:

* A thread that sends to its own process makes a cycle that the walk of another
  sender never leaves (`syscall.c:460`): `SendOverflow`.
* The deadlock check follows only senders whose message is still pending. A's message
  is delivered to B, A stays blocked until it is notified, and B's send to A passes
  the check: both wait for ever (`syscall.c:449`). `SendGraphAcyclic` is about pending messages.
* Nothing returns `IPC_DEADLOCK`, although `ipc.h:49` lists it (a refused send
  returns `IPC_FAILURE`, `syscall.c:236`); a sender that was queued is released by the
  receive itself (`syscall.c:341`), not by the notify its comment mentions (`syscall.c:285`).
* A slab whose object size divides the room of a page counts one object more than it has
  (`vm_slab.c:450`); when the last one is asked for, the allocator
  follows an empty list. `sizeof(struct slab)` leaves 4078 bytes and
  the bufctl takes 12, so the sizes concerned are 2027 and 4066: none of today's
  caches, and `FitNeverFaults` shows that other sizes are safe.
* When the last region's type is larger than all before it, its place in the sort is
  index 0, the left part becomes 0..255 and the sort leaves the map (`e820.c:353`). A range of two is
  never sorted, so that an available region may come before a reserved one and win where they overlap.
* `x86_mem_copy` moves whole words: up to three bytes at the end of a boot module, or of
  what `proc_memcopy` copies, stay behind (`x86_lib.s:103`). The model takes `Word` as two units,
  and `ModulesIntact` speaks of whole words: it does not see the loss.
* Available memory that is cut at 4 GB makes the 32-bit loop of the pager endless (`FillHangs`);
  a reserved region that ends there is skipped; available memory above becomes
  reserved with an address cast to 32 bits, and marks low pages used.
  `PagesAccountedFor` is therefore stated for maps that end below 4 GB (`LowMemory`).
* Nothing writes the bit of a page that is in no region (`pager0.c:118`), and the bitmap starts as memory was:
  a page of the kernel that the map leaves out may be given out. `PagesAccountedFor`
  says of the kernel's pages only what holds when the map reports them (`KernelReported`), and nothing
  of pages that a region covers in part.
* The pager's bound on a byte index lets one byte behind the bitmap be read and set
  (`pager0.c:137`); it lies in the pages reserved behind it, and the search looks at its first bit.
  A failing allocation returns 0, which is also a page address (`pager0.c:208`) – of the page that is never free.
* `vm_pool_setup` takes the kernel's pages out of the pool, not those of the boot
  modules (`vm_pool.c:114`); the pool hands out from the top, 256 MB away from them.

**Bounds.** Three threads are the smallest number for each question of IPC: a
thread that acts, its partner, and a third that can come between, in the same process
(`ipc_pair`, where a search has two threads to choose from) or in one of its own
(`courteous`, `service`, where a chain has two edges and a wait list two senders). One message value is
enough where registers only have to be told apart by their sender; `service` uses
two, to tell a client's answers apart. `LList` needs three items for an item
with two different neighbours and one more for a second list; `Irq`, where every
line of the master works alike, three nodes on one line or spread over two; the slave's lines have the same lists. `Lifecycle` has
one page less than processes so that the pool runs out, and pids that collide in
the table with a structure reused under the next pid; `MaxPid` bounds the only counter.
In `Paging` three entries are a kernel one, a user one and the self-map; five frames (1 to 5)
let two spaces have a directory each and one of them a table and a page, or spend some of them on a wild access, and run out in
the middle of any of that. The count of faults of an access stops at `ManyFaults`, one more than `TwoFaults` allows. In `Entry` one vector of each kind is raised: with a gate and a fake error code,
with a code, without a gate (15), two lines of the timer's chip, the system call.
`VmSlab` has pages for two slabs of a cache and one more cache, and objects for slabs
that are free, partly used and full; of its three sizes a page holds two,
is counted to hold two and holds one, and holds one. A page holds one `struct vm_cache`, so that there are few enough states to compare
each step with all that `Allocator` allows. In `E820` and `Boot` an address is a unit of memory,
`Limit` stands for 4 GB and `MmapMax` for the 128 entries of the pool: with three regions
there is every way two regions can meet and a third can fall between them; the maps of four
and five are there for the left half of a partition, and to run out of entries and
of tree nodes. The modules of `Boot` lie in place, apart, out of order and in each other's way.

**Deadlock** is checked except where the system really may stop: after a fault of `Ipc` or of the
allocator, when `Entry` halts (`while(1)`), when `Paging` has taken the kernel's own frame, and when `Boot` fails or hangs. TLC's symmetry is not used.

**Fairness.** `Ipc`: `WF(Clock)`, since the timer keeps interrupting and user code at
privilege level 3 cannot mask it; nothing is assumed of programs.
`Service` adds strong fairness of each program's next call: there is no loop
between two calls, and a tick is long enough for a thread elected again and
again to reach the next one. Weak fairness would not do, as the step is
disabled whenever another thread runs. `Irq`: `WF(FlihReturns)`, a handler that
runs with interrupts off returns. `Paging`: weak fairness of the kernel's fault, access, and
the two statements that follow: the processor goes on executing. For each program's thread strong
fairness of being switched to and of its next try: the clock goes round the ready
threads, here those that run in a space that exists, and a tick is long enough for one fault or one access, not for both.
`AccessEnds` has to allow for the end of the memory: a thread whose wild access faults for ever uses it up.

## 4. Proofs

All theorems hold for every value of the constants, from the named assumptions in
the modules: `ksetup_th` is no user thread, pid 0 is no process, the thread
lists partition the threads, `NULL` is no item, a page table has at least two
entries, the address of `cache_cache`, which is static, is no object of a page, and so on.
TLC evaluates each assumption in the run of its module. These constrain a
component more than its types do. Facts of the code: `ServiceAssumption`
(each program `main()` starts is the only thread of its process, `main.c:108-195`), `PoolAssumption`
(page 0 is not reserved: the kernel is linked above it),
`SlabAssumption` (a bufctl and the room of a page have a size; nothing is said of the objects' sizes
but that they are not 0), the part of `E820Assumption` that says that array indices fit in a `u8_t`, and the part of `BootAssumption` that
says that the kernel starts, the tables end and 4 GB is at a page's boundary. Facts about the bootloader, which is
outside `src/`: no region is empty (`E820Assumption`), and each boot module is loaded below 4 GB to a place of
its own (`ModListsAssumption`). Of the regions nothing else is assumed: they may overlap, be out of
order, reach beyond 4 GB, and be as many as the bootloader likes.

**`QueueLemmas`**: what `Append`, `Without`, `Tail`, `Reverse`, concatenation, a
rotation and `Keeping` do to the elements of a sequence and to its being free of
repetitions, and the same for families of sequences of which no two share an
element (`Apart`). `Induction` and `Recursion` there make up for the library's induction theorems, which
take an operator as a parameter: the first is about sets of numbers, from the library's `WFMin`, and by the second a recursive
function on `0..n` is what its equation says. So facts about
`Keeping` and about the loop of `vm_pool_setup` (`Filled`) are proved for every length.

**`IpcProof`**: the inductive invariant is
`IInv == TypeOK /\ QueuesMatchStates /\ RunningIsReady`. None of the three is
inductive alone: the election takes the head of the ready queue, which is a
thread only if the queue is not empty; that rests on `ksetup_th` being ready and
on ready threads being queued; that a handler removes its caller from the right
list rests on the caller being ready. `TypeCorrect`, `QueuesCorrect`
and `RunningCorrect` follow: `Spec`, with every call a program can make, keeps
all five conjuncts of `QueuesMatchStates` until a fault ends the model. There is one lemma per
action that changes a queue, and `QuietCall`/`FaultyCall` for the rest. From `IInv`:

* `RegistersCorrect` (`BlockedRegistersKept`): a result goes to the
  context of the caller, which ran before the switch, and `SendDeliver` is the only action
  that writes registers other than the caller's; `Receivers` only has
  threads whose IPC state is exactly RECEIVING.
* `SpaceCorrect` (`RunsInItsSpace`): every change of `cur` is an election, and an
  election loads the space of what it elects unless that is `ksetup_th`.
* `RendezvousCorrect` (`NoMissedRendezvous`): by `MissedInStates` the wait lists
  can be read off the thread states; a pair that misses each other must then
  arise in `SendQueue` or `ReceiveBlock`, whose guards are that the search for
  the other found nobody.

Under `CourteousSpec`, with `CInv`: in a wait list are senders whose
`send_to` names its process, pending messages form no circle, there is no fault.

* `PromiseKept` (`KeepsPromise`): `Ipc` implements `Rendezvous`. Each handler maps to one
  step of it, or to none (the clock, a refused call), from `IInv` and the rules.
* `ChainsCorrect` (`SendGraphAcyclic`) and `FaultsNever` (`NoFault`): `Visited` is a least closed set, so
  what the check of a new edge walks over is all that can be reached from its target; if the sender is
  not there, the edge closes no circle, however long the chains. No induction on paths is needed: a set closed
  under the old edges that leaves out the sender is closed under the new ones.

The programs of `main()` (`Service`), for any number of clients and data, with
`SInv`: it says of each program, by where it is in its loop, in which ways its thread
may stand in the kernel. A client is about to ask, has asked and is queued, has been heard and waits to be notified,
was notified, waits for the answer, or has it (`Idle` ... `Answered`); the server waits for
anyone, or holds the message of one client, which is then heard and nothing else (`ServerPhase`).

* `ProgramsCourteous`: these programs keep the three rules, so `ServiceFaultsNever` and
  `ServiceKeepsPromise` follow from what is proved of `CourteousSpec`. It needs `SInv`: that the server notifies nobody in its own wait list
  is a fact about how far its client has come.
* `RefusedNever` (`NeverRefused`): the server's reply passes the deadlock check because its client sends
  to nobody, a request because the server does not.
* `RepliesCorrect` (`RepliesToItsOwn`) and `ServesCorrect` (`ServesOneAtATime`): read off the phases.

**`LifecycleProof`**: `IInv` ties five things together, and the three properties are read off it. A thread
is in the lists once, in one of the kind its state names (`ThreadsListed`); a wrapper in
use is in the list of one process, and the thread it leads to points back at that process (`WrappersListed`);
a process is in the table's list for its number, and numbers are not used twice (`ProcsListed`); a page is free
or one live process's (`SpacesApart`). The rules of the callers are used where the code relies on them: that the structure of
a process that was destroyed has an empty wait list, which `proc_create` never clears, is part of `ThreadsListed` and
holds because nobody waits for a process that is destroyed. The destruction of a process
with all its threads is one step, by `Unlinks` (what a removal through the head of list `l` takes out of every list)
applied twice.

**`VmSlabProof`**: in `IInv` a slab is `Sound`: its bufctls are those of 1..`Made` that are not given out,
without repetition, and its counter is ahead of them by `Capacity - Made`, what
the division counted and the loop did not make. Only so is `SlabsFiled` inductive, as the code moves slabs by the counter and takes
objects from the bufctls. `CachesListed` says that a cache other than `cache_cache` is in use exactly when it is an object that
`cache_cache` has given out: without it a slab of caches could be returned with a live cache in it.
`PagesReturn` needs `NullStays` (`NullPageKept`): the last page of the pool is never popped, so the push of a destroyed cache's
pages puts them above it; and `FaultsOnlyUnfit` needs `Made > 0` of every slab, which a grown slab has because
the model faults otherwise. `AllocatorKept` (`AllocatesApart`) shows that each action of `VmSlab` is one of `Allocator` or
none: what a slab has to give is not held (`Sound`), its page is no other cache's (`PagesKept`), and a cache whose partial and full
lists are empty has nothing out, since every slab it has counts as many free objects as a page holds.

**`LListProof`**: `RingsCorrect`, by `LInv == TypeOK /\ Disjoint /\ Rings`. That
lists share no item (`Disjoint`) is what keeps a removal from one list
away from the rings of the others, and what makes a removal through a foreign
head harmless when the item is not a first one. This is the fact `Ipc` uses when it models the
queues as sequences, and the reason why it treats `NotifyQueued` as a fault.

**`PagingProof`**: `SpacesCorrect`, `FramesCorrect`, `FaultsCorrect` (`TwoFaults`) and `PagesCorrect`, for any number of
processes and threads, any addresses they access and any sizes, by
`IInv == TypeOK /\ KernelShared /\ OwnSpace /\ OneUse /\ FaultsCounted`, which holds as long as `BelowKernel`.
`KernelShared` and `OneUse` need each other: a fault in one space
writes a frame, and only because no frame is in two places does it change no other
space; that the walk from the kernel's directory and from the loaded one agree
on kernel addresses is `KernelShared`. `FaultsCounted` says of every access under way that the faults it took and those it
still takes in the space of its thread (`Missing`) are two at most: the thread's own fault moves one from the second to
the first, and what others map or load in between takes away nothing that was mapped (`MappingsKept`). It needs `OwnSpace`, as the
fault works on the loaded space and the count on the thread's own. `FaultStep`, `TableStep` and `PageStep`
are the three outcomes of a fault.

**`BootProof`**: `BootInvariant`, for every map and every list of modules, of
`BootInv == MapInv /\ ModsInv /\ PagesInv`. What TLC checks for maps of up to five regions holds for
maps of any length, and the recursion of the code needs no induction on depth, as its pending calls are state.

* The sort (`SortOK`): the array is a bijection of what was reported (`Permuted`); the pending ranges lie apart
  and in order, but for one that wraps to 255 (`RangesOK`); two entries are in order unless a pending range holds
  both (`OrderOK`); what the two indices have gone past is on its side of the pivot (`CursorOK`). `SortIsPermutation`
  (`SortPermutes`) follows.
* The tree (`TreeOK`, `InsertsOK`): each node has a zone, the addresses that may come in its subtree, so that
  an address lies in one node or in one place where a node is missing. A pending insertion is
  for addresses of its entry's that belong where it points (`CallOK`), a node's type is that of the first entry that covers
  what it holds (`TypesOK`), and what the pending calls do not cover is in the tree already.
  `FirstEntryDecides` (`FirstEntryWins`) follows.
* The conversion (`ConvertOK`): what is written lies below what the pending calls are for, and those lie in order.
  `MapInOrder` (`InOrderDisjoint`) and, after the pass that truncates, `MapBelow4GB` (`NoneAbove4GB`) follow.
* The modules (`ModsInv`): those moved lie below the first free address (`Moved`); one that waits
  is whole, or begins below it and will be refused (`Waiting`). `ModulesKept` (`ModulesIntact`) follows.
* The pager (`PagesInv`): a page within a region already entered has the bit the region's type, the kernel and
  the callers give it (`Settled`), which only holds because the regions are disjoint (`CleanMap`) and the kernel's pages are
  whole ones (`Multiple`). `EveryPageAccounted` (`PagesAccountedFor`) follows.

**`InterruptProof`** has three parts. The masks: `MasksCorrect`, by `IrqInv`, which adds to `MasksFollowCalls` that what a call
under way has read of the master's mask is what the chip still holds, but for the lines in `lost`
(`ChangeOK`, `Agrees`), and that the slave's is still what `pic_setup` made it.

The walk over a line's handlers: `WalkCorrect` (`EachRunsOnce`), for any number of lines and handlers, by `RingInv`. A line
is a ring (`Held`) or on the way to one: `HalfFirst`, `HalfLast` and `HalfRemove` say how
`next`, `prev` and the head stand before each statement of the macro. `Way` is the ring that a walk meets
meanwhile, since `next` leads to an added node only after the third statement and past a removed one after the first;
`Walked`, of that ring, says that the handlers up to the current one ran once and those behind it not yet. That
a half-made first addition, or the removal of a head, is never met rests on the mask of the line
(`ChangeApart`, `WalkOK`), hence on `IrqInv`.

The entry: `CauseCorrect` (`HandlerSeesCause`) and `ResumesCorrect`
(`ResumesWhereInterrupted`). The invariant follows a thread through the machine by phase: at
`Booting` there is no context yet; `Running`, `tss.esp0` is at the running thread's context and what is
in it does not matter; `Mode` ties the ring to the thread, so that each frame is unfolded as it
was pushed; `AllSuspended`, every context but that of the running thread restores to what that thread was doing.

`DescriptorsCorrect`: for every base, size and
level, the fields that `create_seg_desc` takes a word apart into read back as that word, with the size in
pages from 1 MB on; `SegmentsLoad`: with `Mode`, whatever `restore_ctx` goes back to has selectors of descriptors of their own
level that span all of memory, so that `iretd` does not fault.

Every invariant and action property of a run but the two refuted ones is a theorem. Checked by TLC only is liveness
(`ReadyRuns`, `EveryRequestAnswered`, `ServerComesBack`, `WalkEnds`, `AccessEnds`), which the
prover cannot reason about under fairness.

## 5. What is not modelled

Each component is modelled in the part that has state and decisions. Left out:

* In `Ipc` no thread or process is created or destroyed: `main()` creates them all before
  the first tick, and nothing calls `thread_destroy` or `proc_destroy` later. `Lifecycle`
  has creation and destruction without messages.
* `main()` jumps to its idle loop at the first call that fails; the states it leaves then,
  with some processes missing, are not followed. The clock has not been started in them, so that
  nothing runs that was created.
* Copying a message is a single assignment of registers, as in `syscall_copymsg`; there are no
  other payloads.
* In `VmSlab`, `Lifecycle` and the pager of `Boot` callers behave (no double free, no use after
  destroy). In `E820` regions are not empty and do not wrap around 64 bits, and the
  field `size` of an entry is left out: nothing reads it after the copy.
* In `Paging`, permission bits other than as the rule for programs' accesses, the 4 MB pages no caller asks for, and the walks of other page
  directories, which are by their result; in `Lifecycle`, running out of structures, which
  gives the caller NULL before anything changed.
* The attribute bits of descriptors nobody makes; `pit.c` and the rest of `pic.c` write ports that are
  never read back; `kern/khead.s` is not built (`kern/Makefile`); serial output, string and
  single-instruction helpers have no state the kernel reads; `LLIST_MERGE` and `LLIST_GETTAIL`
  have no user; `sched_running` and `sched_dead` are never entered.
* The GRUB and build files hold no behaviour of the kernel.

## 6. Plan

Done, in order: `Queues`/`Ipc`, `Rendezvous`, `Service`, `OneWay`, `LList`, `VmPool`/`VmSlab`,
`E820`, `Irq`, `Paging`, `Lifecycle`, `Entry`, `Boot`, `Segments`, and the proofs: `IpcProof` (its core, then the
rendezvous, then the programs), `LListProof`, `PagingProof`, `LifecycleProof`, `VmSlabProof`,
`InterruptProof` (masks, entry, then the walk), `BootProof`; then `Allocator`.

What would come next:

1. `Lifecycle` on top of `Allocator`: it takes its three caches as sets of free structures, as
   `AllocatorKept` justifies, but the two are not composed.
2. Nested interrupts in `Entry`, once a handler may fault: at present the interrupt stack is one.
