------------------------------- MODULE MCIpc -------------------------------
(* Small systems for TLC to explore module Ipc on.                         *)
EXTENDS Ipc

CONSTANTS ta, tb, tc, pa, pb, pc

\* Three processes of one thread each, as main() creates.
OneEachProcOf == (ta :> pa) @@ (tb :> pb) @@ (tc :> pc)
OneEachLists  == (pa :> <<ta>>) @@ (pb :> <<tb>>) @@ (pc :> <<tc>>)
OneEachBoot   == <<ta, tb, tc>>

\* A process of two threads and one of a single thread.
PairProcOf == (ta :> pa) @@ (tb :> pa) @@ (tc :> pb)
PairLists  == (pa :> <<tb, ta>>) @@ (pb :> <<tc>>)
PairBoot   == <<ta, tb, tc>>

\* Courteous programs that receive from anyone or from one of the processes:
\* the bound that keeps three processes and every send chain among them within
\* reach. Calls that only fail are left out.
TrioNext ==
    \/ Clock
    \/ \E m \in Msg :
        \/ \E p \in Proc : \/ MaySend(p) /\ Send(p, m)
                           \/ MayNotify(p) /\ Notify(p, m)
        \/ \E p \in {None, pa} : Receive(p, m)

TrioSpec == Init /\ [][TrioNext]_vars /\ Fairness
=============================================================================
