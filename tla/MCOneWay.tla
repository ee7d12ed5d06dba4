----------------------------- MODULE MCOneWay -----------------------------
(* A sink and two sources.                                                 *)
EXTENDS OneWay

CONSTANTS ta, tb, tc, pa, pb, pc

EachProcOf == (ta :> pa) @@ (tb :> pb) @@ (tc :> pc)
EachList   == (pa :> <<ta>>) @@ (pb :> <<tb>>) @@ (pc :> <<tc>>)
EachBoot   == <<ta, tb, tc>>
=============================================================================
