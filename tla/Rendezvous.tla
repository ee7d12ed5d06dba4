----------------------------- MODULE Rendezvous -----------------------------
(***************************************************************************)
(* What the IPC primitives promise, without queues, contexts or a          *)
(* scheduler: a message is posted, it is handed over once, whole and to a  *)
(* thread that asked for it, and its sender stays blocked until then or    *)
(* until the process that was served lets it go.                           *)
(***************************************************************************)
CONSTANTS Thread, Proc, ProcOf, Msg, None

VARIABLES
    phase,  \* what a thread is engaged in
    peer,   \* the process it is engaged with (None: any, or none)
    page    \* its message registers: a message and the process it is from

vars == <<phase, peer, page>>

Phase  == {"free", "sending", "receiving", "served"}
Letter == [from : Proc \cup {None}, text : Msg]

Init ==
    /\ phase = [t \in Thread |-> "free"]
    /\ peer = [t \in Thread |-> None]
    /\ page \in [Thread -> {l \in Letter : l.from = None}]

Own(t, m) == [from |-> ProcOf[t], text |-> m]

\* Thread r waits for a message that process p may send it.
Awaits(r, p) == phase[r] = "receiving" /\ peer[r] \in {None, p}

\* Thread s has posted a message for process p.
Posted(s, p) == phase[s] = "sending" /\ peer[s] = p

\* A thread prepares a message of its own.
Write(t, m) ==
    /\ phase[t] = "free"
    /\ page' = [page EXCEPT ![t] = Own(t, m)]
    /\ UNCHANGED <<phase, peer>>

\* Nobody in p awaits the message: it stays with its sender.
Post(t, p, m) ==
    /\ phase[t] = "free"
    /\ \A r \in Thread : ProcOf[r] = p => ~ Awaits(r, ProcOf[t])
    /\ phase' = [phase EXCEPT ![t] = "sending"]
    /\ peer' = [peer EXCEPT ![t] = p]
    /\ page' = [page EXCEPT ![t] = Own(t, m)]

\* Thread r awaits it: it is handed over and the sender is being served.
HandOver(t, r, m) ==
    /\ phase[t] = "free"
    /\ Awaits(r, ProcOf[t])
    /\ phase' = [phase EXCEPT ![t] = "served", ![r] = "free"]
    /\ peer' = [peer EXCEPT ![t] = ProcOf[r], ![r] = None]
    /\ page' = [page EXCEPT ![t] = Own(t, m), ![r] = Own(t, m)]

\* A posted message is collected: its sender goes on at once.
Collect(r, s, p) ==
    /\ phase[r] = "free"
    /\ Posted(s, ProcOf[r])
    /\ p \in {None, ProcOf[s]}
    /\ phase' = [phase EXCEPT ![s] = "free"]
    /\ peer' = [peer EXCEPT ![s] = None]
    /\ page' = [page EXCEPT ![r] = page[s]]

\* No message that would do was posted.
Await(r, p, m) ==
    /\ phase[r] = "free"
    /\ \A s \in Thread : p \in {None, ProcOf[s]} => ~ Posted(s, ProcOf[r])
    /\ phase' = [phase EXCEPT ![r] = "receiving"]
    /\ peer' = [peer EXCEPT ![r] = p]
    /\ page' = [page EXCEPT ![r] = Own(r, m)]

\* A thread of the process that was served lets the sender go.
Release(t, s, m) ==
    /\ phase[t] = "free"
    /\ phase[s] = "served" /\ peer[s] = ProcOf[t]
    /\ phase' = [phase EXCEPT ![s] = "free"]
    /\ peer' = [peer EXCEPT ![s] = None]
    /\ page' = [page EXCEPT ![t] = Own(t, m)]

Next == \E t \in Thread :
    \/ \E m \in Msg :
        \/ Write(t, m)
        \/ \E p \in Proc : Post(t, p, m)
        \/ \E r \in Thread : HandOver(t, r, m)
        \/ \E p \in Proc \cup {None} : Await(t, p, m)
        \/ \E s \in Thread : Release(t, s, m)
    \/ \E s \in Thread, p \in Proc \cup {None} : Collect(t, s, p)

Spec == Init /\ [][Next]_vars
=============================================================================
