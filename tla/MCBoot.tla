------------------------------- MODULE MCBoot -------------------------------
(***************************************************************************)
(* Memory maps and module lists small enough for TLC. The first maps are   *)
(* all those of up to three regions at the end of 32-bit addresses, that   *)
(* touch, overlap, contain one another or pass it, in every order; the     *)
(* others reach over all of memory.                                        *)
(***************************************************************************)
EXTENDS Boot

Regions == {Region(a, l, t) : a \in {43, 45, 47}, l \in {1, 3}, t \in {Available, Reserved}}

\* Four regions that need more nodes than there are, and five: one too many.
Longer == {<<Region(2, 1, 2), Region(4, 1, 2), Region(0, 1, 2), Region(0, 6, 1)>>,
           <<Region(2, 1, 1), Region(4, 1, 2), Region(6, 1, 1), Region(8, 1, 2)>>,
           [k \in 1..5 |-> Region(k, 1, Available)]}

\* Maps of four entries over three regions, where the sort has work to do.
Four == [1..4 -> {Region(0, 3, 1), Region(2, 3, 2), Region(4, 1, 1), Region(1, 1, 2)}]

\* Reserved parts and a hole; the same ending in a reserved part, which the
\* sort does not survive; memory in two parts; overlapping and unaligned
\* parts; all of memory; memory above 4 GB; a reserved region across it.
Whole == {<<Region(6, 2, 2), Region(44, 2, 2), Region(0, 6, 1), Region(8, 32, 1)>>,
          <<Region(0, 6, 1), Region(6, 2, 2), Region(8, 32, 1), Region(44, 4, 2)>>,
          <<Region(0, 4, 1), Region(8, 36, 1)>>,
          <<Region(33, 6, 2), Region(0, 44, 1)>>,
          <<Region(40, 4, 2), Region(0, 47, 1)>>,
          <<Region(8, 40, 1)>>,
          <<Region(0, 40, 1), Region(48, 8, 1)>>,
          <<Region(36, 16, 2), Region(0, 36, 1)>>}

MCMaps == UNION {[1..n -> Regions] : n \in 1..3} \cup Four \cup Longer \cup Whole

Mod(s, e) == [start |-> s, end |-> e]

\* In place; higher and of odd length; in the wrong order; one that the first
\* one's move would overwrite; a list of one.
MCModLists == {<<Mod(12, 16), Mod(16, 19)>>, <<Mod(14, 19), Mod(22, 27)>>,
               <<Mod(28, 32), Mod(20, 24)>>, <<Mod(20, 26), Mod(16, 19)>>, <<Mod(12, 16)>>}
=============================================================================
