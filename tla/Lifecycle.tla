----------------------------- MODULE Lifecycle -----------------------------
(***************************************************************************)
(* kern/proc.c and kern/thread.c: processes and threads made and           *)
(* destroyed, from the structures of three caches and the pages of the     *)
(* pool, while the threads there are run, block and wake up.               *)
(*                                                                         *)
(* Nobody calls the functions that destroy yet, and they check little. A   *)
(* caller keeps three rules: the thread that runs is not destroyed, nor is *)
(* the head of a wait list; a thread leaves its process before it is       *)
(* destroyed by itself, and stays in it otherwise; nobody waits for a      *)
(* process that is destroyed.                                              *)
(***************************************************************************)
EXTENDS Queues, FiniteSets

CONSTANTS
    Proc, Thread, Wrapper,  \* the structures of the three caches
    Page,                   \* the pages of the pool the caches do not take
    Ksetup,                 \* ksetup_th, of no cache and no process
    None,
    TableLen,               \* PROC_TABLELEN
    MaxPid                  \* bounds pid_seed, which counts the processes made

ASSUME LifecycleAssumption ==
    /\ TableLen \in Nat \ {0} /\ MaxPid \in Nat
    /\ Ksetup \notin Thread
    /\ None \notin Proc \cup Thread \cup Wrapper \cup Page
    /\ "VM_POOL_ERROR" \notin Page \cup {None}
    /\ {"ready", "blocked"} \cap Proc = {}

VARIABLES
    spare,     \* the free structures of each cache
    pool,      \* the free pages
    addrspace, pid, thread_list,  \* of each process
    thread,    \* of each wrapper
    proc, state,  \* of each thread
    lists,     \* the scheduler's queues and each process's wait_list
    proc_table, pid_seed, cur_th

procs == <<addrspace, pid, thread_list, proc_table, pid_seed>>
vars  == <<spare, pool, procs, thread, proc, state, lists, cur_th>>

Hash == 0..(TableLen - 1)

\* VM_POOL_ERROR, which is 1 and so neither a page nor NULL.
PoolError == "VM_POOL_ERROR"

\* sched_setup, and the wait lists of processes before there is one.
NoQueues == [l \in {"ready", "blocked"} \cup Proc |-> <<>>]

\* What thread_setup and proc_setup leave: the thread that runs them.
Init ==
    /\ spare = [proc |-> Proc, thread |-> Thread, wrapper |-> Wrapper]
    /\ pool = Page
    /\ addrspace = [q \in Proc |-> None]
    /\ pid = [q \in Proc |-> 0]
    /\ thread_list = [q \in Proc |-> <<>>]
    /\ thread = [w \in Wrapper |-> None]
    /\ proc = [t \in Thread |-> None]
    /\ state = [t \in Thread |-> "none"]
    /\ lists = Enqueued(NoQueues, "ready", Ksetup)
    /\ proc_table = [h \in Hash |-> <<>>]
    /\ pid_seed = 1
    /\ cur_th = Ksetup

-----------------------------------------------------------------------------
(* Processes                                                               *)

HashId(n) == n % TableLen

\* vm_pool_alloc: a page, or the error when there is none.
PoolAlloc(a) == IF pool = {} THEN a = PoolError ELSE a \in pool

\* vm_pool_free takes a page, and refuses the error, which is not aligned.
Pushed(a) == {a} \ {PoolError}

\* proc_create, when there is a structure for it. Only an address 0 counts
\* as a failure of the pool, and only wait_list is left as it was.
ProcCreate ==
    /\ pid_seed <= MaxPid
    /\ \E q \in spare.proc, a \in pool \cup {PoolError} :
        /\ PoolAlloc(a)
        /\ spare' = [spare EXCEPT !.proc = @ \ {q}]
        /\ pool' = pool \ {a}
        /\ addrspace' = [addrspace EXCEPT ![q] = a]
        /\ thread_list' = [thread_list EXCEPT ![q] = <<>>]
        /\ pid' = [pid EXCEPT ![q] = pid_seed]
        /\ pid_seed' = pid_seed + 1
        /\ proc_table' = Enqueued(proc_table, HashId(pid_seed), q)
    /\ UNCHANGED <<thread, proc, state, lists, cur_th>>

Live    == Proc \ spare.proc
Threads(q) == {thread[w] : w \in Range(thread_list[q])}

\* LLIST_REMOVE of threads ts given the head of list l, in whatever list they
\* are: one that heads another list is left there.
Unlinked(L, l, ts) == [k \in DOMAIN L |->
    Keeping(L[k], {t \in Range(L[k]) : t \notin ts \/ (k # l /\ t = Head(L[k]))})]

SlipThreadsGone(ts) == lists' = Unlinked(lists, "ready", ts)

\* The queue thread_destroy takes a thread out of depends on its state.
ThreadsGone(ts) ==
    lists' = LET ready == {t \in ts : state[t] = "ready"} IN
             Unlinked(Unlinked(lists, "ready", ready), "blocked", ts \ ready)

\* The rules of the callers.
Disposable(ts) ==
    /\ cur_th \notin ts
    /\ \A q \in Proc : lists[q] # <<>> => Head(lists[q]) \notin ts

Deserted(q) ==
    /\ lists[q] = <<>>
    /\ \A t \in Thread \ spare.thread : proc[t] = q => t \in Threads(q)

SlipLeavesTable(q) ==
    proc_table' = Dropped(proc_table, 0, q)

LeavesTable(q) ==
    proc_table' = Dropped(proc_table, HashId(pid[q]), q)

\* proc_destroy: its threads, wrapper by wrapper, its page, itself.
ProcDestroy(q) ==
    /\ q \in Live
    /\ Disposable(Threads(q)) /\ Deserted(q)
    /\ ThreadsGone(Threads(q))
    /\ spare' = [proc    |-> spare.proc \cup {q},
                 thread  |-> spare.thread \cup Threads(q),
                 wrapper |-> spare.wrapper \cup Range(thread_list[q])]
    /\ thread_list' = [thread_list EXCEPT ![q] = <<>>]
    /\ pool' = pool \cup Pushed(addrspace[q])
    /\ LeavesTable(q)
    /\ UNCHANGED <<addrspace, pid, pid_seed, thread, proc, state, cur_th>>

SlipPointsBack(q, t) == proc' = IF proc[t] = None THEN [proc EXCEPT ![t] = q] ELSE proc

PointsBack(q, t) == proc' = [proc EXCEPT ![t] = q]

\* proc_add_thread, when there is a wrapper for it.
AddThread(q, t) ==
    /\ q \in Live /\ t \notin spare.thread
    /\ \A r \in Live : t \notin Threads(r)
    /\ \E w \in spare.wrapper :
        /\ spare' = [spare EXCEPT !.wrapper = @ \ {w}]
        /\ thread' = [thread EXCEPT ![w] = t]
        /\ thread_list' = Enqueued(thread_list, q, w)
    /\ PointsBack(q, t)
    /\ UNCHANGED <<pool, addrspace, pid, proc_table, pid_seed, state, lists, cur_th>>

\* proc_remove_thread, of a thread of the process; th->proc stays.
RemoveThread(q, t) ==
    /\ q \in Live
    /\ \E w \in Range(thread_list[q]) :
        /\ thread[w] = t
        /\ thread_list' = Dropped(thread_list, q, w)
        /\ spare' = [spare EXCEPT !.wrapper = @ \cup {w}]
    /\ UNCHANGED <<pool, addrspace, pid, proc_table, pid_seed, thread, proc, state, lists, cur_th>>

-----------------------------------------------------------------------------
(* Threads                                                                 *)

\* sched_enqueue: the thread is last in its queue, and its state says which.
SchedEnqueue(L, l, t) ==
    /\ lists' = Enqueued(L, l, t)
    /\ state' = [state EXCEPT ![t] = l]

\* thread_create, when there is a structure for it.
ThreadCreate ==
    /\ \E t \in spare.thread :
        /\ spare' = [spare EXCEPT !.thread = @ \ {t}]
        /\ SchedEnqueue(lists, "ready", t)
        /\ proc' = [proc EXCEPT ![t] = None]
    /\ UNCHANGED <<pool, procs, thread, cur_th>>

\* thread_destroy, of a thread that is in no process any more.
ThreadDestroy(t) ==
    /\ t \in Thread \ spare.thread
    /\ Disposable({t})
    /\ \A q \in Live : t \notin Threads(q)
    /\ ThreadsGone({t})
    /\ spare' = [spare EXCEPT !.thread = @ \cup {t}]
    /\ UNCHANGED <<pool, procs, thread, proc, state, cur_th>>

\* sched_elect and thread_switch_to, given the ready queue.
Elect(L) ==
    /\ cur_th' = Head(L["ready"])
    /\ lists' = [L EXCEPT !["ready"] = Append(Tail(@), Head(@))]

\* clock_handler.
Clock ==
    /\ Elect(lists)
    /\ UNCHANGED <<spare, pool, procs, thread, proc, state>>

\* syscall_receive, or syscall_send to a thread that waits: the caller blocks
\* in the queue; or syscall_send to one that does not: in a wait list.
Block(l) ==
    /\ cur_th # Ksetup /\ proc[cur_th] # None
    /\ l \in {"blocked"} \cup Live
    /\ LET left == Dropped(lists, "ready", cur_th) IN
       Elect(Enqueued(left, l, cur_th))
    /\ state' = [state EXCEPT ![cur_th] = "blocked"]
    /\ UNCHANGED <<spare, pool, procs, thread, proc>>

\* syscall_send or syscall_notify to a thread in the blocked queue, or
\* syscall_receive from one in a wait list.
Wake(t, l) ==
    /\ l # "ready"
    /\ t \in Range(lists[l])
    /\ SchedEnqueue(Dropped(lists, l, t), "ready", t)
    /\ UNCHANGED <<spare, pool, procs, thread, proc, cur_th>>

Next ==
    \/ ProcCreate \/ ThreadCreate \/ Clock
    \/ \E q \in Proc : ProcDestroy(q)
    \/ \E t \in Thread : ThreadDestroy(t)
    \/ \E q \in Proc, t \in Thread : AddThread(q, t) \/ RemoveThread(q, t)
    \/ \E l \in DOMAIN lists : Block(l) \/ \E t \in Thread : Wake(t, l)

Spec == Init /\ [][Next]_vars

-----------------------------------------------------------------------------
(* Properties                                                              *)

\* The occurrences of x in sequences ss, a function.
Places(ss, x) == UNION {{k} \X {i \in DOMAIN ss[k] : ss[k][i] = x} : k \in DOMAIN ss}

\* Each structure and each page is either free or reachable in one place: a
\* process in the table, a wrapper in the list of a living process, a thread
\* in a queue or in the wait list of a living process, a page as a space.
\* Nothing is lost by any order of calls, and nothing used after it was freed.
EverythingAccounted ==
    /\ \A q \in Proc : Cardinality(Places(proc_table, q)) = IF q \in Live THEN 1 ELSE 0
    /\ \A w \in Wrapper : Cardinality(Places([q \in Live |-> thread_list[q]], w))
                            = IF w \in spare.wrapper THEN 0 ELSE 1
    /\ \A t \in Thread : Cardinality(Places(lists, t)) = IF t \in spare.thread THEN 0 ELSE 1
    /\ \A q \in spare.proc : lists[q] = <<>>
    /\ \A a \in Page : Cardinality({q \in Live : addrspace[q] = a}) = IF a \in pool THEN 0 ELSE 1

\* Pointers lead to living structures: a wrapper in use to a thread, which
\* points back at the process, a thread to its process, cur_th to a thread.
NothingDangling ==
    /\ \A q \in Live : \A t \in Threads(q) : t \in Thread \ spare.thread /\ proc[t] = q
    /\ \A t \in Thread \ spare.thread : proc[t] \in Live \cup {None}
    /\ cur_th \notin spare.thread

\* proc_pid: the first process with that number in its list of the table.
ProcPid(n) ==
    LET found == Keeping(proc_table[HashId(n)], {q \in Proc : pid[q] = n})
    IN  IF found = <<>> THEN None ELSE Head(found)

\* A number finds the process that was given it as long as it lives, and
\* nobody afterwards, also when its place in the table and its structure were
\* used by others in between.
PidFindsProcess == \A n \in 1..MaxPid :
    ProcPid(n) = IF \E q \in Live : pid[q] = n
                 THEN CHOOSE q \in Live : pid[q] = n ELSE None
=============================================================================
