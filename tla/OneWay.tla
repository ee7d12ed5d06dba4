------------------------------- MODULE OneWay -------------------------------
(***************************************************************************)
(* One-way traffic by the rules of the comments: sources call ipc_send in  *)
(* a loop, and a sink receives each message and notifies its sender that   *)
(* it was processed (kern/syscall.c:391), which is all a sink can do.      *)
(***************************************************************************)
EXTENDS Ipc

CONSTANT Sink  \* a thread

VARIABLE taken  \* the sink has received a message and is about to notify

OneWayInit == Init /\ taken = FALSE

OneWayNext == \E m \in Msg :
    \/ Clock /\ UNCHANGED taken
    \/ cur \notin {Sink, Ksetup} /\ Send(ProcOf[Sink], m) /\ UNCHANGED taken
    \/ cur = Sink /\ ~ taken /\ Receive(None, m) /\ taken' = TRUE
    \/ cur = Sink /\ taken /\ Notify(src[Sink], m) /\ taken' = FALSE

OneWaySpec == OneWayInit /\ [][OneWayNext]_<<vars, taken>>

\* The queues survive it.
QueuesSurvive == fault # "list"
=============================================================================
