------------------------------ MODULE MCPaging ------------------------------
(* A small machine for TLC to explore module Paging on.                    *)
EXTENDS Paging, TLC

CONSTANTS t1, t2, q1, q2

MCOwner == (t1 :> q1) @@ (t2 :> q2)

\* A page of the program, and an address that goes through the entry of the
\* directory that points to itself: missing or refused, never to be resolved.
MCTouched == {<<1, 0>>, <<2, 1>>}
=============================================================================
