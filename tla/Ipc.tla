-------------------------------- MODULE Ipc --------------------------------
(***************************************************************************)
(* The scheduler and the IPC primitives of RhinOS (kern/sched.c,           *)
(* kern/syscall.c, kern/clock.c, thread_switch_to of kern/thread.c).       *)
(*                                                                         *)
(* A kernel entry (the clock interrupt, or int 50 for a system call) goes  *)
(* through an interrupt gate, so a handler runs to its end with interrupts *)
(* off: each handler, with the election it ends in, is one action here.    *)
(* The running thread stays in the ready queue and keeps the state READY.  *)
(*                                                                         *)
(* The circular lists are sequences here (LList models them as rings), and *)
(* `fault' records that the kernel has left the states this module         *)
(* describes: "list" when a thread was unlinked through the head of a list *)
(* it is not in, "stack" when the send chain it walks has a cycle, "null"  *)
(* when it dereferences the NULL process that stands for IPC_ANY.          *)
(*                                                                         *)
(* An operator whose name begins with "Slip" is no part of the model: it   *)
(* is the definition that follows it with a plausible mistake in it, which *)
(* PROJECT.json puts in its place to see a property fail.                  *)
(***************************************************************************)
EXTENDS Integers, Queues

CONSTANTS
    Thread,      \* the threads of user processes
    Ksetup,      \* ksetup_th: the flow main() is left in, idling for ever
    Proc,        \* the processes, also standing for their pids
    ProcOf,      \* th->proc
    ThreadList,  \* proc->thread_list
    BootOrder,   \* the order of the thread_create calls
    Msg,         \* contents of EBX, ECX, EDX
    None         \* NULL; also pid 0, IPC_ANY

ASSUME ThreadsAssumption ==
    /\ Ksetup \notin Thread
    /\ None \notin Proc
    /\ ProcOf \in [Thread -> Proc]

ASSUME ListsAssumption ==
    /\ BootOrder \in Seq(Thread)
    /\ IsInjective(BootOrder) /\ Range(BootOrder) = Thread
    /\ ThreadList \in [Proc -> Seq(Thread)]
    /\ \A p \in Proc : /\ IsInjective(ThreadList[p])
                       /\ Range(ThreadList[p]) = {t \in Thread : ProcOf[t] = p}

VARIABLES
    cur,        \* cur_th
    state,      \* th->state
    ipcState,   \* th->ipc.state, as the set of its bits
    sendTo,     \* th->ipc.send_to
    recvFrom,   \* th->ipc.recv_from
    ready,      \* sched_ready
    blocked,    \* sched_blocked
    waitList,   \* proc->wait_list
    addrSpace,  \* the loaded address space (cr3)
    src,        \* ESI in the saved context: who the message is from
    msg,        \* EBX, ECX, EDX in the saved context: the message
    ret,        \* EAX in the saved context: the result of the call
    fault

sched == <<cur, ready, addrSpace>>
links == <<sendTo, recvFrom>>
regs  == <<src, msg>>
vars  == <<cur, state, ipcState, sendTo, recvFrom, ready, blocked, waitList,
           addrSpace, src, msg, ret, fault>>

AnyThread == Thread \cup {Ksetup}
IpcBits   == {"SENDING", "RECEIVING"}
Result    == {"SUCCESS", "FAILURE", "DEADLOCK"}

(***************************************************************************)
(* After main(): every thread was created ready, behind ksetup_th, with    *)
(* a zeroed structure, and the timer is about to tick.                     *)
(***************************************************************************)
Init ==
    /\ cur = Ksetup
    /\ state = [t \in AnyThread |-> "READY"]
    /\ ipcState = [t \in Thread |-> {}]
    /\ sendTo = [t \in Thread |-> None]
    /\ recvFrom = [t \in Thread |-> None]
    /\ ready = <<Ksetup>> \o BootOrder
    /\ blocked = <<>>
    /\ waitList = [p \in Proc |-> <<>>]
    /\ addrSpace = None
    /\ src = [t \in Thread |-> None]
    /\ msg \in [Thread -> Msg]
    /\ ret = [t \in Thread |-> "SUCCESS"]
    /\ fault = "none"

-----------------------------------------------------------------------------
(* Queues and searches                                                     *)

SlipElectNoRotation(q) ==
    /\ cur' = Head(q)
    /\ ready' = q
    /\ addrSpace' = IF Head(q) = Ksetup THEN addrSpace ELSE ProcOf[Head(q)]

SlipElectFromKsetup(q) ==
    /\ cur' = Head(q)
    /\ ready' = Append(Tail(q), Head(q))
    /\ addrSpace' = IF Ksetup \in {cur, Head(q)} THEN addrSpace ELSE ProcOf[Head(q)]

\* sched_elect on ready queue q, then the switch to the elected thread;
\* ksetup_th has no process and runs in whatever space is loaded.
Elect(q) ==
    /\ cur' = Head(q)
    /\ ready' = Append(Tail(q), Head(q))
    /\ addrSpace' = IF Head(q) = Ksetup THEN addrSpace ELSE ProcOf[Head(q)]

SlipReceiversNotAny(p, from) ==
    {t \in Range(ThreadList[p]) : ipcState[t] = {"RECEIVING"} /\ recvFrom[t] = from}

SlipReceiversOfAnyone(p, from) ==
    {t \in Range(ThreadList[p]) : ipcState[t] = {"RECEIVING"}}

SlipReceiversStale(p, from) ==
    {t \in Range(ThreadList[p]) : state[t] = "BLOCKED" /\ recvFrom[t] \in {from, None}}

\* Threads of p that may be handed a message of process `from'.
Receivers(p, from) ==
    {t \in Range(ThreadList[p]) : /\ ipcState[t] = {"RECEIVING"}
                                  /\ recvFrom[t] \in {from, None}}

\* Threads in the wait list of p whose message a receive from `from' accepts.
WaitingSenders(p, from) ==
    {t \in Range(waitList[p]) : from \in {None, ProcOf[t]}}

SlipBlockedSendersReady(p, from) ==
    {t \in Range(ThreadList[from]) : sendTo[t] = p /\ ipcState[t] # {"RECEIVING"}}

\* Threads of `from' a notification of p takes for blocked in a send to p.
BlockedSenders(p, from) ==
    {t \in Range(ThreadList[from]) : /\ sendTo[t] = p
                                     /\ state[t] = "BLOCKED"
                                     /\ ipcState[t] # {"RECEIVING"}}

\* The processes some thread of p is sending to.
SendsTo(p) ==
    {sendTo[t] : t \in {u \in Range(ThreadList[p]) : ipcState[u] = {"SENDING"}}}

\* The processes syscall_deadlock visits from `target' on: it follows every
\* edge of the send chain except those that lead back to the sender.
Visited(sender, target) ==
    LET next == [p \in Proc |-> SendsTo(p) \ {sender}]
    IN  {q \in Proc : \A S \in SUBSET Proc :
            target \in S /\ (\A p \in S : next[p] \subseteq S) => q \in S}

\* syscall_deadlock finds a thread sending to the sender.
ChainClosed(sender, target) ==
    \E p \in Proc : sender \in SendsTo(p) /\ p \in Visited(sender, target)

\* syscall_deadlock recurses through a cycle that avoids the sender.
ChainLoops(sender, target) ==
    \E p \in Proc : \E q \in SendsTo(p) \ {sender} :
        p \in Visited(sender, q) /\ p \in Visited(sender, target)

-----------------------------------------------------------------------------
(* Clock interrupt                                                         *)

Clock ==
    /\ fault = "none"
    /\ Elect(ready)
    /\ UNCHANGED <<state, ipcState, links, blocked, waitList, regs, ret, fault>>

-----------------------------------------------------------------------------
(* System calls of the running thread                                      *)

\* main() calls nothing once the clock runs.
Calling == fault = "none" /\ cur # Ksetup

SlipEnterThread(m) ==
    /\ src' = [src EXCEPT ![cur] = cur]
    /\ msg' = [msg EXCEPT ![cur] = m]

\* syscall_handle puts the caller's pid in its source register; the message
\* registers hold what the caller left there.
Enter(m) ==
    /\ src' = [src EXCEPT ![cur] = ProcOf[cur]]
    /\ msg' = [msg EXCEPT ![cur] = m]

\* ... and writes the result in the context of the thread that called, which
\* may not be the current one any more.
Return(r) == ret' = [ret EXCEPT ![cur] = r]

\* An unknown pid, an unknown call number, a send to IPC_ANY.
Reject(m) ==
    /\ Calling
    /\ Enter(m)
    /\ UNCHANGED <<sched, state, ipcState, links, blocked, waitList, fault>>
    /\ Return("FAILURE")

SendDeadlock(p, m) ==
    /\ Calling
    /\ ChainClosed(ProcOf[cur], p)
    /\ Enter(m)
    /\ UNCHANGED <<sched, state, ipcState, links, blocked, waitList, fault>>
    /\ Return("FAILURE")

\* Where both a way back to the sender and a cycle can be reached, the order
\* of the thread lists decides which is met first: both are allowed here.
SendOverflow(p) ==
    /\ Calling
    /\ ChainLoops(ProcOf[cur], p)
    /\ fault' = "stack"
    /\ UNCHANGED <<sched, state, ipcState, links, blocked, waitList, regs, ret>>

SlipPassesUnchecked(p) == Calling

SlipPassesDirectOnly(p) == ProcOf[cur] \notin SendsTo(p)

PassesDeadlock(p) ==
    /\ ~ ChainClosed(ProcOf[cur], p)
    /\ ~ ChainLoops(ProcOf[cur], p)

SendDeliver(p, m) == \E r \in Thread :
    /\ Calling
    /\ PassesDeadlock(p)
    /\ IsFirst(r, ThreadList[p], Receivers(p, ProcOf[cur]))
    /\ src' = [src EXCEPT ![cur] = ProcOf[cur], ![r] = ProcOf[cur]]
    /\ msg' = [msg EXCEPT ![cur] = m, ![r] = m]
    /\ ipcState' = [ipcState EXCEPT ![r] = @ \ {"RECEIVING"},
                                    ![cur] = @ \ {"SENDING"}]
    /\ sendTo' = [sendTo EXCEPT ![cur] = p]
    /\ state' = [state EXCEPT ![r] = "READY", ![cur] = "BLOCKED"]
    /\ blocked' = Append(Without(blocked, r), cur)
    /\ Elect(Without(Append(ready, r), cur))
    /\ UNCHANGED <<recvFrom, waitList, fault>>
    /\ Return("SUCCESS")

SendQueue(p, m) ==
    /\ Calling
    /\ PassesDeadlock(p)
    /\ Receivers(p, ProcOf[cur]) = {}
    /\ Enter(m)
    /\ ipcState' = [ipcState EXCEPT ![cur] = @ \cup {"SENDING"}]
    /\ sendTo' = [sendTo EXCEPT ![cur] = p]
    /\ state' = [state EXCEPT ![cur] = "BLOCKED"]
    /\ waitList' = [waitList EXCEPT ![p] = Append(@, cur)]
    /\ Elect(Without(ready, cur))
    /\ UNCHANGED <<recvFrom, blocked, fault>>
    /\ Return("SUCCESS")

ReceiveTake(p) == \E s \in Thread :
    /\ Calling
    /\ LET me == ProcOf[cur] IN
       /\ IsFirst(s, waitList[me], WaitingSenders(me, p))
       /\ waitList' = [waitList EXCEPT ![me] = Without(@, s)]
    /\ src' = [src EXCEPT ![cur] = src[s]]
    /\ msg' = [msg EXCEPT ![cur] = msg[s]]
    /\ ipcState' = [ipcState EXCEPT ![s] = @ \ {"SENDING"},
                                    ![cur] = @ \ {"RECEIVING"}]
    /\ recvFrom' = [recvFrom EXCEPT ![cur] = p]
    /\ state' = [state EXCEPT ![s] = "READY"]
    /\ ready' = Append(ready, s)
    /\ UNCHANGED <<cur, addrSpace, sendTo, blocked, fault>>
    /\ Return("SUCCESS")

ReceiveBlock(p, m) ==
    /\ Calling
    /\ WaitingSenders(ProcOf[cur], p) = {}
    /\ Enter(m)
    /\ ipcState' = [ipcState EXCEPT ![cur] = @ \cup {"RECEIVING"}]
    /\ recvFrom' = [recvFrom EXCEPT ![cur] = p]
    /\ state' = [state EXCEPT ![cur] = "BLOCKED"]
    /\ blocked' = Append(blocked, cur)
    /\ Elect(Without(ready, cur))
    /\ UNCHANGED <<sendTo, waitList, fault>>
    /\ Return("SUCCESS")

\* The thread found is unlinked as if it were in the blocked queue. One that
\* is further down the caller's wait list leaves that list, unheard.
NotifyWake(p, m) == \E t \in Thread :
    /\ Calling
    /\ LET me == ProcOf[cur] IN
       /\ IsFirst(t, ThreadList[p], BlockedSenders(me, p))
       /\ t \in Range(waitList[me]) => t # Head(waitList[me])
       /\ waitList' = [waitList EXCEPT ![me] = Without(@, t)]
    /\ Enter(m)
    /\ ipcState' = [ipcState EXCEPT ![t] = @ \ {"SENDING"}]
    /\ state' = [state EXCEPT ![t] = "READY"]
    /\ blocked' = Without(blocked, t)
    /\ ready' = Append(ready, t)
    /\ UNCHANGED <<cur, addrSpace, links, fault>>
    /\ Return("SUCCESS")

\* One that is the head of the caller's wait list stays its head while its
\* links are reused for the ready queue.
NotifyQueued(p) == \E t \in Thread :
    /\ Calling
    /\ LET me == ProcOf[cur] IN
       /\ IsFirst(t, ThreadList[p], BlockedSenders(me, p))
       /\ t \in Range(waitList[me])
       /\ t = Head(waitList[me])
    /\ fault' = "list"
    /\ UNCHANGED <<sched, state, ipcState, links, blocked, waitList, regs, ret>>

NotifyNobody(p, m) ==
    /\ Calling
    /\ BlockedSenders(ProcOf[cur], p) = {}
    /\ Enter(m)
    /\ UNCHANGED <<sched, state, ipcState, links, blocked, waitList, fault>>
    /\ Return("SUCCESS")

\* syscall_find_blocked_sender reads pfrom->thread_list through NULL.
NotifyAny ==
    /\ Calling
    /\ fault' = "null"
    /\ UNCHANGED <<sched, state, ipcState, links, blocked, waitList, regs, ret>>

-----------------------------------------------------------------------------
Send(p, m) ==
    SendOverflow(p) \/ SendDeadlock(p, m) \/ SendDeliver(p, m) \/ SendQueue(p, m)

Receive(p, m) == ReceiveTake(p) \/ ReceiveBlock(p, m)

Notify(p, m) == NotifyQueued(p) \/ NotifyWake(p, m) \/ NotifyNobody(p, m)

\* Any program in user space: every call with every argument.
Next ==
    \/ Clock
    \/ \E m \in Msg :
        \/ Reject(m)
        \/ \E p \in Proc : Send(p, m) \/ Notify(p, m)
        \/ \E p \in Proc \cup {None} : Receive(p, m)
    \/ NotifyAny

\* pit.c and pic.c keep the timer interrupt coming and user code cannot mask
\* it: the clock ticks for ever.
Fairness == WF_vars(Clock)

Spec == Init /\ [][Next]_vars /\ Fairness

\* Programs that keep to three rules the kernel does not enforce: no send to
\* one's own process, no notify of IPC_ANY, and no notify of a process that
\* has a sender in the caller's wait list.
MaySend(p)   == Calling /\ p # ProcOf[cur]
MayNotify(p) == Calling /\ \A t \in Range(waitList[ProcOf[cur]]) : ProcOf[t] # p

CourteousNext ==
    \/ Clock
    \/ \E m \in Msg :
        \/ Reject(m)
        \/ \E p \in Proc : \/ MaySend(p) /\ Send(p, m)
                           \/ MayNotify(p) /\ Notify(p, m)
        \/ \E p \in Proc \cup {None} : Receive(p, m)

CourteousSpec == Init /\ [][CourteousNext]_vars /\ Fairness

-----------------------------------------------------------------------------
(* Properties                                                              *)

\* Every variable keeps to the values its C type is used for.
TypeOK ==
    /\ cur \in AnyThread
    /\ state \in [AnyThread -> {"READY", "BLOCKED"}]
    /\ ipcState \in [Thread -> SUBSET IpcBits]
    /\ sendTo \in [Thread -> Proc \cup {None}]
    /\ recvFrom \in [Thread -> Proc \cup {None}]
    /\ ready \in Seq(AnyThread)
    /\ blocked \in Seq(Thread)
    /\ waitList \in [Proc -> Seq(Thread)]
    /\ addrSpace \in Proc \cup {None}
    /\ src \in [Thread -> Proc \cup {None}]
    /\ msg \in [Thread -> Msg]
    /\ ret \in [Thread -> Result]
    /\ fault \in {"none", "list", "stack", "null"}

\* A thread is an element of exactly one list, the one its state, its IPC
\* state and its send_to name: its prev and next are shared by all of them.
\* No thread is ever sending and receiving at once, and one that runs does
\* neither.
NoDuplicates == /\ IsInjective(ready)
                /\ IsInjective(blocked)
                /\ \A p \in Proc : IsInjective(waitList[p])

ReadyQueued   == Range(ready) = {t \in AnyThread : state[t] = "READY"}

BlockedQueued == Range(blocked) = {t \in Thread : /\ state[t] = "BLOCKED"
                                                  /\ ipcState[t] # {"SENDING"}}

SendersQueued == \A p \in Proc :
    Range(waitList[p]) = {t \in Thread : /\ state[t] = "BLOCKED"
                                         /\ ipcState[t] = {"SENDING"}
                                         /\ sendTo[t] = p}

OneThingAtATime == \A t \in Thread :
    /\ ipcState[t] \in {{}, {"SENDING"}, {"RECEIVING"}}
    /\ state[t] = "READY" => ipcState[t] = {}

QueuesMatchStates ==
    NoDuplicates /\ ReadyQueued /\ BlockedQueued /\ SendersQueued /\ OneThingAtATime

\* sched_elect never finds the ready queue empty, since ksetup_th cannot
\* block, and the running thread is always ready: the handlers never switch
\* away from a thread they have not put in another list, nor to one that is.
RunningIsReady == state[Ksetup] = "READY" /\ state[cur] = "READY"

\* The walks of sched_elect and of syscall_* end, and what they read is sane.
NoFault == fault = "none"

\* No sender sits in a wait list while a thread of that process is blocked
\* receiving from it or from anyone: neither call looks again once it blocks.
NoMissedRendezvous ==
    \A r \in Thread :
        ipcState[r] = {"RECEIVING"} =>
            \A s \in Range(waitList[ProcOf[r]]) :
                recvFrom[r] \notin {None, ProcOf[s]}

\* The send chains that syscall_deadlock follows have no cycle, so that its
\* recursion ends.
SendGraphAcyclic ==
    \A p \in Proc : \A q \in SendsTo(p) : p \notin Visited(None, q)

\* A user thread runs in the address space of its own process, whichever
\* handler switched to it.
RunsInItsSpace == cur # Ksetup => addrSpace = ProcOf[cur]

\* The registers of a thread that does not run are left alone, but for the
\* message it is handed when its wait for one ends. That keeps the result its
\* own call left there, whichever handlers woke it and switched to it since.
BlockedRegistersKept ==
    [][\A t \in Thread \ {cur} :
            <<src[t], msg[t], ret[t]>>' # <<src[t], msg[t], ret[t]>> =>
                ipcState[t] = {"RECEIVING"} /\ ipcState'[t] = {} /\ ret'[t] = ret[t]]_vars

\* Whoever is ready will run, ksetup_th included, if the clock ticks on.
ReadyRuns == \A t \in AnyThread : state[t] = "READY" ~> cur = t

-----------------------------------------------------------------------------
(* The IPC primitives keep the promise of Rendezvous                       *)

Phase(t) ==
    CASE state[t] = "READY"            -> "free"
      [] ipcState[t] = {"SENDING"}     -> "sending"
      [] ipcState[t] = {"RECEIVING"}   -> "receiving"
      [] OTHER                         -> "served"

Peer(t) ==
    CASE Phase(t) = "free"      -> None
      [] Phase(t) = "receiving" -> recvFrom[t]
      [] OTHER                  -> sendTo[t]

Promise == INSTANCE Rendezvous WITH
    phase <- [t \in Thread |-> Phase(t)],
    peer  <- [t \in Thread |-> Peer(t)],
    page  <- [t \in Thread |-> [from |-> src[t], text |-> msg[t]]]

\* Messages are handed over once, from a sender to a thread that waits for
\* them, and a sender is let go only when its message was taken.
KeepsPromise == Promise!Spec
=============================================================================
