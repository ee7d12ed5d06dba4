-------------------------------- MODULE E820 --------------------------------
(***************************************************************************)
(* kern/arch/x86/e820.c: the memory map the bootloader reports is copied,  *)
(* sorted by decreasing type, turned into a tree of disjoint intervals, in *)
(* which the entry that was inserted first wins, and read back in order.   *)
(*                                                                         *)
(* The code is sequential: a step is one round of the partition loop, one  *)
(* call of a recursive function, or one pass over the map; the calls that  *)
(* are still to come are part of the state. Addresses are in units that    *)
(* are large enough for TLC; Limit stands for 4 GB.                        *)
(***************************************************************************)
EXTENDS Integers, SequencesExt, FiniteSetsExt

CONSTANTS
    Maps,      \* the maps a bootloader may report, as sequences of regions
    Lowers, Uppers,            \* mem_lower and mem_upper, where it reports none
    LowStart, RomStart, RomSize, HighStart,  \* the regions this is made into
    MmapMax,   \* MULTIBOOT_MMAP_MAX, the size of mmap and of tree_pool
    Limit

ASSUME E820Assumption ==
    /\ MmapMax \in 1..254
    /\ Limit \in Nat \ {0}
    /\ Maps \subseteq Seq([addr : Nat, len : Nat \ {0}, type : Nat])
    /\ Lowers \subseteq Nat /\ Uppers \subseteq Nat
    /\ LowStart \in Nat /\ RomStart \in Nat /\ RomSize \in Nat \ {0} /\ HighStart \in Nat

Available == 1
Reserved  == 2
Null      == 0

VARIABLES
    phase,
    given,   \* the regions reported
    mmap,    \* the static array, from index 0
    ranges,  \* the calls of e820_qsort that are pending
    cursor,  \* i and j of e820_partition, while its loop runs
    tree,    \* the part of tree_pool in use; its first node is the root
    calls,   \* the calls of e820_tree_insert, or _convert, that are pending
    index,   \* the next entry of mmap to be inserted, or to be written back
    sorted,  \* the array that was inserted in the tree (history)
    fault    \* an access outside mmap: "copy" or "sort"

vars == <<phase, given, mmap, ranges, cursor, tree, calls, index, sorted, fault>>

Region(a, l, t) == [addr |-> a, len |-> l, type |-> t]

Init ==
    /\ phase = "boot"
    /\ given = <<>> /\ mmap = <<>>
    /\ ranges = <<>> /\ cursor = <<>>
    /\ tree = <<>> /\ calls = <<>>
    /\ index = 0
    /\ sorted = <<>>
    /\ fault = "none"

-----------------------------------------------------------------------------
(* Copying                                                                 *)

FromZero(s) == [i \in 0..(Len(s) - 1) |-> s[i + 1]]

Copy(regions) ==
    /\ phase = "boot"
    /\ given' = regions
    /\ mmap' = FromZero(regions)
    /\ ranges' = <<<<0, (Len(regions) - 1) % 256>>>>
    /\ phase' = "sort"
    /\ UNCHANGED <<cursor, tree, calls, index, sorted, fault>>

Relocate(m) == Len(m) <= MmapMax /\ Copy(m)

\* An entry is written before its index is checked, and the check lets one
\* more pass.
RelocateOverruns(m) ==
    /\ phase = "boot"
    /\ Len(m) > MmapMax
    /\ phase' = "failed" /\ fault' = "copy"
    /\ UNCHANGED <<given, mmap, ranges, cursor, tree, calls, index, sorted>>

\* Without a memory map: two amounts, and the ROM area between them.
RelocateLegacy(lower, upper) ==
    /\ lower # 0 /\ upper # 0
    /\ Copy(<<Region(LowStart, lower, Available),
              Region(RomStart, RomSize, Reserved),
              Region(HighStart, upper, Available)>>)

-----------------------------------------------------------------------------
(* Sorting                                                                 *)

\* SWAP exchanges by XOR, which clears an entry exchanged with itself.
Swap(t, i, j) ==
    IF i = j THEN [t EXCEPT ![i] = Region(0, 0, 0)]
    ELSE [t EXCEPT ![i] = t[j], ![j] = t[i]]

Sorting == phase = "sort" /\ ranges # <<>>
Start   == Head(ranges)[1]
End     == Head(ranges)[2]

\* e820_qsort leaves a range of one or two entries as it is.
SortNothing ==
    /\ Sorting /\ Start + 1 >= End
    /\ ranges' = Tail(ranges)
    /\ UNCHANGED <<phase, given, mmap, cursor, tree, calls, index, sorted, fault>>

PartitionStarts ==
    /\ Sorting /\ cursor = <<>>
    /\ Start + 1 < End /\ End \in DOMAIN mmap
    /\ cursor' = <<Start, End - 1>>
    /\ UNCHANGED <<phase, given, mmap, ranges, tree, calls, index, sorted, fault>>

SortOverruns ==
    /\ Sorting /\ cursor = <<>>
    /\ Start + 1 < End /\ End \notin DOMAIN mmap
    /\ phase' = "failed" /\ fault' = "sort"
    /\ UNCHANGED <<given, mmap, ranges, cursor, tree, calls, index, sorted>>

\* From i up to a type below that of the pivot t[e], and from j down to one
\* that is not.
Up(t, i, e)      == Min({k \in i..e : k = e \/ t[k].type < t[e].type})
Down(t, s, j, e) == Max({k \in s..j : k = s \/ t[k].type >= t[e].type})

\* A round of the loop of e820_partition, until i and j meet.
Sweep ==
    /\ Sorting /\ cursor # <<>>
    /\ cursor[1] < cursor[2]
    /\ LET up   == Up(mmap, cursor[1], End)
           down == Down(mmap, Start, cursor[2], End)
       IN  /\ mmap' = IF up < down THEN Swap(mmap, up, down) ELSE mmap
           /\ cursor' = <<up, down>>
    /\ UNCHANGED <<phase, given, ranges, tree, calls, index, sorted, fault>>

SlipPlaced(t, n, e) == Swap(t, n, e)

\* The pivot t[e] goes where the sweep ended.
Placed(t, n, e) == IF n = e THEN t ELSE Swap(t, n, e)

\* Indices are bytes: before a pivot at index 0 comes index 255.
Subranges(s, n, e) == <<<<s, (n - 1) % 256>>, <<n + 1, e>>>>

PartitionEnds ==
    /\ Sorting /\ cursor # <<>>
    /\ cursor[1] >= cursor[2]
    /\ mmap' = Placed(mmap, cursor[1], End)
    /\ ranges' = Subranges(Start, cursor[1], End) \o Tail(ranges)
    /\ cursor' = <<>>
    /\ UNCHANGED <<phase, given, tree, calls, index, sorted, fault>>

-----------------------------------------------------------------------------
(* The interval tree                                                       *)

Leaf(lo, hi, ty) == [min |-> lo, max |-> hi, type |-> ty, left |-> Null, right |-> Null]

SlipPiece(lo, hi, node) ==
    [left  |-> [some |-> lo < node.min,
                lo |-> lo, hi |-> IF node.min > hi THEN hi ELSE node.min - 1],
     right |-> [some |-> hi > node.max /\ ~ lo < node.min,
                lo |-> IF node.max < lo THEN lo ELSE node.max + 1, hi |-> hi]]

SlipOverlap(lo, hi, node) ==
    [left  |-> [some |-> lo < node.min,
                lo |-> lo, hi |-> IF node.min > hi THEN hi ELSE node.min - 1],
     right |-> [some |-> hi > node.max,
                lo |-> IF node.max < lo THEN lo ELSE node.max, hi |-> hi]]

\* What remains of lo..hi on either side of a node.
Piece(lo, hi, node) ==
    [left  |-> [some |-> lo < node.min,
                lo |-> lo, hi |-> IF node.min > hi THEN hi ELSE node.min - 1],
     right |-> [some |-> hi > node.max,
                lo |-> IF node.max < lo THEN lo ELSE node.max + 1, hi |-> hi]]

Building == phase = "sort" /\ ranges = <<>>

\* A call of e820_tree_insert: what it inserts, and where it is told to put
\* it, the left or the right of a node or the variable that holds the root.
Call(n, side, piece, ty) ==
    [node |-> n, side |-> side, lo |-> piece.lo, hi |-> piece.hi, type |-> ty]

\* The loop of e820_setup over the sorted map.
Insert ==
    /\ Building /\ calls = <<>> /\ index \in DOMAIN mmap
    /\ LET r == mmap[index]
       IN  calls' = <<Call(Null, "left", [lo |-> r.addr, hi |-> r.addr + r.len - 1], r.type)>>
    /\ index' = index + 1
    /\ UNCHANGED <<phase, given, mmap, ranges, cursor, tree, sorted, fault>>

\* The node a call finds where it is to put one.
Found(c) == IF c.node # Null THEN tree[c.node][c.side]
            ELSE IF tree = <<>> THEN Null ELSE 1

\* The calls for what remains on one side of node m.
Remaining(m, side, piece, ty) ==
    IF piece.some THEN <<Call(m, side, piece, ty)>> ELSE <<>>

InsertAround ==
    /\ Building /\ calls # <<>> /\ Found(Head(calls)) # Null
    /\ LET c   == Head(calls)
           m   == Found(c)
           cut == Piece(c.lo, c.hi, tree[m])
       IN  calls' = Remaining(m, "left", cut.left, c.type)
                    \o Remaining(m, "right", cut.right, c.type) \o Tail(calls)
    /\ UNCHANGED <<phase, given, mmap, ranges, cursor, tree, index, sorted, fault>>

InsertLeaf ==
    /\ Building /\ calls # <<>> /\ Found(Head(calls)) = Null
    /\ Len(tree) < MmapMax
    /\ LET c == Head(calls)
           linked == IF c.node = Null THEN tree
                     ELSE [tree EXCEPT ![c.node][c.side] = Len(tree) + 1]
       IN  tree' = Append(linked, Leaf(c.lo, c.hi, c.type))
    /\ calls' = Tail(calls)
    /\ UNCHANGED <<phase, given, mmap, ranges, cursor, index, sorted, fault>>

\* tree_pool has no node left.
InsertFails ==
    /\ Building /\ calls # <<>> /\ Found(Head(calls)) = Null
    /\ Len(tree) >= MmapMax
    /\ phase' = "failed"
    /\ UNCHANGED <<given, mmap, ranges, cursor, tree, calls, index, sorted, fault>>

-----------------------------------------------------------------------------
(* The clean map                                                           *)

\* What is pending of e820_tree_convert: all of a subtree, or its root alone.
Subtree(n) == IF n = Null THEN <<>> ELSE <<[node |-> n, whole |-> TRUE]>>
Own(n)     == <<[node |-> n, whole |-> FALSE]>>

\* What the map holds now is not read again.
ConvertStarts ==
    /\ Building /\ calls = <<>> /\ index \notin DOMAIN mmap
    /\ tree # <<>>
    /\ sorted' = mmap /\ mmap' = <<>>
    /\ index' = 0
    /\ calls' = Subtree(1)
    /\ phase' = "convert"
    /\ UNCHANGED <<given, ranges, cursor, tree, fault>>

\* The left son, the node, the right son.
ConvertAround ==
    /\ phase = "convert" /\ calls # <<>> /\ Head(calls).whole
    /\ LET n == Head(calls).node
       IN  calls' = Subtree(tree[n].left) \o Own(n) \o Subtree(tree[n].right) \o Tail(calls)
    /\ UNCHANGED <<phase, given, mmap, ranges, cursor, tree, index, sorted, fault>>

Entry(n) == Region(n.min, n.max - n.min + 1, n.type)

\* The entry after those of the nodes further left.
ConvertWrite ==
    /\ phase = "convert" /\ calls # <<>> /\ ~ Head(calls).whole
    /\ mmap' = [i \in 0..index |-> IF i = index THEN Entry(tree[Head(calls).node])
                                   ELSE mmap[i]]
    /\ index' = index + 1
    /\ calls' = Tail(calls)
    /\ UNCHANGED <<phase, given, ranges, cursor, tree, sorted, fault>>

Converted == phase = "convert" /\ calls = <<>>

SlipTruncated(r) ==
    IF r.type = Available /\ r.addr >= Limit THEN [r EXCEPT !.type = Reserved]
    ELSE IF r.type = Available /\ r.addr + r.len >= Limit THEN [r EXCEPT !.len = Limit - r.addr]
    ELSE r

\* Available memory above 4 GB becomes reserved, or is cut off: the cut
\* leaves the last byte below 4 GB out.
Truncated(r) ==
    IF r.type = Available /\ r.addr >= Limit THEN [r EXCEPT !.type = Reserved]
    ELSE IF r.type = Available /\ r.addr + r.len >= Limit
         THEN [r EXCEPT !.len = Limit - 1 - r.addr]
    ELSE r

Truncate ==
    /\ Converted
    /\ mmap' = [i \in DOMAIN mmap |-> Truncated(mmap[i])]
    /\ phase' = "done"
    /\ UNCHANGED <<given, ranges, cursor, tree, calls, index, sorted, fault>>

Next ==
    \/ \E m \in Maps : Relocate(m) \/ RelocateOverruns(m)
    \/ \E l \in Lowers, u \in Uppers : RelocateLegacy(l, u)
    \/ SortNothing \/ SortOverruns \/ PartitionStarts \/ Sweep \/ PartitionEnds
    \/ Insert \/ InsertAround \/ InsertLeaf \/ InsertFails
    \/ ConvertStarts \/ ConvertAround \/ ConvertWrite \/ Truncate

Spec == Init /\ [][Next]_vars

-----------------------------------------------------------------------------
(* Properties                                                              *)

Entries == {mmap[i] : i \in DOMAIN mmap}
Covers(r, a) == r.addr <= a /\ a < r.addr + r.len

\* The exchanges of the sort, done by XOR on the fields in place, lose no
\* reported region and duplicate none (e820_partition); and once e820_qsort
\* has returned, types decrease between any two entries that are not
\* neighbours: what it leaves unsorted, because a range of two is not looked
\* at, is never further apart than that.
SortPermutes ==
    phase = "sort" =>
        /\ \A r \in Range(given) \cup Entries :
              Cardinality({i \in DOMAIN mmap : mmap[i] = r})
                  = Cardinality({i \in DOMAIN given : given[i] = r})
        /\ ranges = <<>> =>
              \A i, j \in DOMAIN mmap : i + 2 <= j => mmap[i].type >= mmap[j].type

\* The map made from the tree is sorted by address and its regions do not
\* overlap, however those reported did: the pager walks it in this order.
InOrderDisjoint ==
    Converted \/ phase = "done" =>
        \A i, j \in DOMAIN mmap : i < j => mmap[i].addr + mmap[i].len <= mmap[j].addr

\* The tree neither drops nor invents an address, and gives each one the type
\* of the first entry of the sorted array that covers it: a reserved region
\* that was sorted before an available one is never handed to the pager.
FirstEntryWins ==
    Converted =>
        \A a \in UNION {r.addr..(r.addr + r.len) :
                         r \in Entries \cup {sorted[i] : i \in DOMAIN sorted}} :
            LET by == {i \in DOMAIN sorted : Covers(sorted[i], a)}
                to == {i \in DOMAIN mmap : Covers(mmap[i], a)}
            IN  /\ by = {} <=> to = {}
                /\ by # {} => \A i \in to : mmap[i].type = sorted[Min(by)].type

\* Nothing the pager may take ends above 4 GB, where its 32-bit sum of an
\* address and a length would wrap (pager0_setup, kern/pager0.c:104).
NoneAbove4GB ==
    phase = "done" =>
        \A r \in Entries : r.type = Available => r.addr + r.len < Limit
=============================================================================
