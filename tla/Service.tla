------------------------------ MODULE Service ------------------------------
(***************************************************************************)
(* The programs that main() starts, on the kernel of module Ipc: one       *)
(* server (srv/user_recv.c) and clients that call it (srv/user_send.c),    *)
(* through the wrappers of lib/ipc/ipc.s. A wrapper loads the message from *)
(* the caller's buffer before int 50, or stores it there afterwards; a     *)
(* call that blocks is left when its thread runs again, so what a program  *)
(* does after a call is the start of its next step.                        *)
(***************************************************************************)
EXTENDS Ipc

CONSTANT Server  \* the thread of the process the clients send to

\* main() puts one thread in each process it creates (main.c:108-195).
ASSUME ServiceAssumption ==
    /\ Server \in Thread
    /\ \A t, u \in Thread : ProcOf[t] = ProcOf[u] => t = u

VARIABLES
    pc,   \* the call a program is about to make
    buf   \* its struct ipc_message

allVars == <<vars, pc, buf>>

Client == Thread \ {Server}
Buffer == [from : Proc \cup {None}, data : Msg]

\* The buffers are on the stack and are not initialised.
ServiceInit ==
    /\ Init
    /\ pc = [t \in Thread |-> IF t = Server THEN "receive" ELSE "send"]
    /\ buf \in [Thread -> {b \in Buffer : b.from = None}]

SlipStoredSenderOnly(t) == [from |-> src[t], data |-> buf[t].data]

\* ipc_receive stores the registers in the buffer once its int 50 is over.
Stored(t) == [from |-> src[t], data |-> msg[t]]

Goto(t, l) == pc' = [pc EXCEPT ![t] = l]

\* Thread t runs, and its last call succeeded: where the programs test the
\* result, a failure takes them out of their loop for ever.
Runs(t, l)    == cur = t /\ pc[t] = l
Succeeded(t)  == ret[t] = "SUCCESS"

-----------------------------------------------------------------------------
(* user_recv.c: receive from anyone, notify the sender, send it the reply  *)

ServerReceive(t) ==
    /\ Runs(t, "receive")
    /\ \E m \in Msg : Receive(None, m)
    /\ Goto(t, "notify")
    /\ UNCHANGED buf

SlipServerNotifyNobody(t) ==
    /\ Runs(t, "notify") /\ Succeeded(t)
    /\ buf' = [buf EXCEPT ![t] = Stored(t)]
    /\ Goto(t, "reply")
    /\ UNCHANGED vars

ServerNotify(t) ==
    /\ Runs(t, "notify") /\ Succeeded(t)
    /\ \E m \in Msg : Notify(src[t], m)
    /\ buf' = [buf EXCEPT ![t] = Stored(t)]
    /\ Goto(t, "reply")

\* The result of neither call is looked at.
ServerReply(t) ==
    /\ Runs(t, "reply")
    /\ Send(buf[t].from, buf[t].data)
    /\ Goto(t, "receive")
    /\ UNCHANGED buf

-----------------------------------------------------------------------------
(* user_send.c: ipc_sendrec in a loop, which is a send, a receive from the *)
(* same process and a notify of it, as long as each call succeeds          *)

SlipClientSendOnly(t) ==
    /\ Runs(t, "send") /\ Succeeded(t)
    /\ Send(ProcOf[Server], buf[t].data)
    /\ Goto(t, "send")
    /\ UNCHANGED buf

ClientSend(t) ==
    /\ Runs(t, "send") /\ Succeeded(t)
    /\ Send(ProcOf[Server], buf[t].data)
    /\ Goto(t, "receive")
    /\ UNCHANGED buf

ClientReceive(t) ==
    /\ Runs(t, "receive") /\ Succeeded(t)
    /\ \E m \in Msg : Receive(ProcOf[Server], m)
    /\ Goto(t, "notify")
    /\ UNCHANGED buf

ClientNotify(t) ==
    /\ Runs(t, "notify") /\ Succeeded(t)
    /\ \E m \in Msg : Notify(ProcOf[Server], m)
    /\ buf' = [buf EXCEPT ![t] = Stored(t)]
    /\ Goto(t, "send")

-----------------------------------------------------------------------------
ServerStep(t) == ServerReceive(t) \/ ServerNotify(t) \/ ServerReply(t)
ClientStep(t) == ClientSend(t) \/ ClientReceive(t) \/ ClientNotify(t)

ServiceNext ==
    \/ Clock /\ UNCHANGED <<pc, buf>>
    \/ ServerStep(Server)
    \/ \E t \in Client : ClientStep(t)

\* The clock ticks, and a tick is long enough for a thread that is elected
\* time and again to reach its next call: there is no loop between two calls.
ServiceFairness ==
    /\ WF_allVars(Clock /\ UNCHANGED <<pc, buf>>)
    /\ SF_allVars(ServerStep(Server))
    /\ \A t \in Client : SF_allVars(ClientStep(t))

ServiceSpec == ServiceInit /\ [][ServiceNext]_allVars /\ ServiceFairness

-----------------------------------------------------------------------------
(* Properties                                                              *)

\* No call of these programs is refused, by the deadlock check above all:
\* the server replies to clients that may be sending to it again.
NeverRefused == \A t \in Thread : ret[t] = "SUCCESS"

\* What a client finds in its registers once it is past ipc_receive is the
\* server's answer to its own request: the same data, and from the server.
RepliesToItsOwn ==
    \A t \in Client :
        pc[t] = "notify" /\ state[t] = "READY" =>
            src[t] = ProcOf[Server] /\ msg[t] = buf[t].data

\* The server answers a client that is past its send and awaits the answer:
\* a notify or a reply never goes to a client that asks something else.
ServesOneAtATime ==
    pc[Server] = "reply" =>
        \A t \in Client :
            ProcOf[t] = buf[Server].from =>
                pc[t] \in {"receive", "notify"} /\ buf[t].data = buf[Server].data

\* Every request is answered, whatever the other clients do.
EveryRequestAnswered ==
    \A t \in Client : pc[t] = "send" ~> (pc[t] = "notify" /\ state[t] = "READY")

\* The server is never left blocked in a reply nobody fetches.
ServerComesBack == pc[Server] = "reply" ~> pc[Server] = "notify"
=============================================================================
