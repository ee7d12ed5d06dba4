----------------------------- MODULE MCService -----------------------------
(* The three programs main() starts, as TLC explores module Service on.    *)
EXTENDS Service

CONSTANTS ta, tb, tc, pa, pb, pc_

BootProcOf == (ta :> pa) @@ (tb :> pb) @@ (tc :> pc_)
BootLists  == (pa :> <<ta>>) @@ (pb :> <<tb>>) @@ (pc_ :> <<tc>>)
BootThreads == <<ta, tb, tc>>
=============================================================================
