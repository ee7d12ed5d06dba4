-------------------------------- MODULE Boot --------------------------------
(***************************************************************************)
(* arch/x86/setup.c and kern/pager0.c, on the memory map of module E820:   *)
(* the boot modules are moved down behind the kernel, the bitmap, the page *)
(* stack and the paging tables are placed behind them, and the pager fills *)
(* its bitmap from the map and gives out pages. pager0_alloc and           *)
(* pager0_free have no caller yet: a page is returned once, by its owner.  *)
(*                                                                         *)
(* Limit stands for 4 GB, where 32-bit addresses wrap; a page, a word and  *)
(* a byte of the bitmap are a few units.                                   *)
(***************************************************************************)
EXTENDS E820

CONSTANTS
    Page, Word,           \* units in a page, and in what rep movsd moves at once
    ByteBits,             \* pages in a byte of the bitmap
    KernStart, KernEnd,   \* the kernel's image
    ModLists,             \* the module lists a bootloader may report
    ModCount,             \* MULTIBOOT_MODS_COUNT
    PoolPages,            \* the kernel's virtual pages, one word each in the stack
    TableSize,            \* the page directory and the kernel's tables
    Leftover              \* the states memory may have left in the bitmap

ASSUME BootAssumption ==
    /\ Page \in Nat \ {0} /\ Word \in 1..Page /\ ByteBits \in Nat \ {0}
    /\ KernStart \in Nat /\ KernEnd \in Nat /\ PoolPages \in Nat /\ TableSize \in Nat
    /\ Limit % Page = 0 /\ KernStart % Page = 0 /\ TableSize % Page = 0
    /\ Leftover \subseteq {"USED", "FREE"}

\* The bootloader loads each module to a place of its own below 4 GB.
ASSUME ModListsAssumption ==
    \A list \in ModLists :
        /\ list \in Seq([start : Nat, end : Nat])
        /\ \A i \in DOMAIN list : list[i].start <= list[i].end /\ list[i].end <= Limit
        /\ \A i, j \in DOMAIN list :
             i # j => list[i].end <= list[j].start \/ list[j].end <= list[i].start

VARIABLES
    stage,    \* "map", "modules", "sum", "place", "fill", "ready", "failed", "hung"
    mods,     \* mods_list
    memory,   \* what is where: a module and its unit, or nothing
    limit,    \* the first free address
    next,     \* the next module to move, or map entry to count or to enter
    mem,      \* the amount of memory
    boot,     \* bitmap, bitmap_size and start
    bits,     \* the bitmap, by page
    taken     \* the pages given out (history)

bootVars == <<stage, mods, memory, limit, next, mem, boot, bits, taken>>
allVars  == <<vars, bootVars>>

Nothing == <<0, 0>>
AlignSup(a) == ((a + Page - 1) \div Page) * Page

BootInit ==
    /\ Init
    /\ stage = "map"
    /\ mods = <<>>
    /\ memory = <<>>
    /\ limit = AlignSup(KernEnd)
    /\ next = 1
    /\ mem = 0
    /\ boot = [bitmap |-> 0, size |-> 0, start |-> 0]
    /\ bits = <<>>
    /\ taken = {}

\* Memory as the bootloader leaves it, unit k of module i holding <<i, k>>.
Loaded(list) ==
    [a \in 0..(Limit - 1) |->
        IF \E i \in DOMAIN list : list[i].start <= a /\ a < list[i].end
        THEN LET i == CHOOSE i \in DOMAIN list : list[i].start <= a /\ a < list[i].end
             IN  <<i, a - list[i].start>>
        ELSE Nothing]

-----------------------------------------------------------------------------
(* setup_x86                                                               *)

MapFails ==
    /\ stage = "map" /\ phase = "failed"
    /\ stage' = "failed"
    /\ UNCHANGED <<vars, mods, memory, limit, next, mem, boot, bits, taken>>

ModsReported(list) ==
    /\ stage = "map" /\ phase = "done"
    /\ mods' = list
    /\ memory' = Loaded(list)
    /\ stage' = IF Len(list) = ModCount THEN "modules" ELSE "failed"
    /\ UNCHANGED <<vars, limit, next, mem, boot, bits, taken>>

\* x86_mem_copy, upwards and by whole words: the units that remain stay.
MemCopy(m, from, to, len) ==
    [a \in DOMAIN m |->
        IF to <= a /\ a < to + (len \div Word) * Word THEN m[from + (a - to)] ELSE m[a]]

\* The first address behind a module that was moved to limit.
Advance(mod) == limit + AlignSup(mod.end - mod.start)

SlipMovable(mod) == TRUE

\* A module is only moved downwards.
Movable(mod) == mod.start >= limit

MoveModule == LET mod == mods[next] IN
    /\ stage = "modules" /\ next \in DOMAIN mods
    /\ Movable(mod)
    /\ memory' = MemCopy(memory, mod.start, limit, mod.end - mod.start)
    /\ mods' = [mods EXCEPT ![next] = [start |-> limit, end |-> limit + mod.end - mod.start]]
    /\ limit' = Advance(mod)
    /\ next' = next + 1
    /\ UNCHANGED <<vars, stage, mem, boot, bits, taken>>

ModuleOverlaps ==
    /\ stage = "modules" /\ next \in DOMAIN mods
    /\ ~ Movable(mods[next])
    /\ stage' = "failed"
    /\ UNCHANGED <<vars, mods, memory, limit, next, mem, boot, bits, taken>>

ModulesMoved ==
    /\ stage = "modules" /\ next \notin DOMAIN mods
    /\ next' = 0
    /\ stage' = "sum"
    /\ UNCHANGED <<vars, mods, memory, limit, mem, boot, bits, taken>>

\* The lengths of all regions, reserved ones too, in 32 bits.
AddLength ==
    /\ stage = "sum" /\ next \in DOMAIN mmap
    /\ mem' = (mem + mmap[next].len) % Limit
    /\ next' = next + 1
    /\ UNCHANGED <<vars, stage, mods, memory, limit, boot, bits, taken>>

\* The pages set aside for size units.
Rounded(size) == ((size \div Page) + 1) * Page

\* The bitmap, the page stack and, in vm_paging_setup, the tables follow the
\* modules; all three are written in the course of the set-up.
Place ==
    /\ stage = "sum" /\ next \notin DOMAIN mmap
    /\ LET size  == (mem \div Page) \div ByteBits
           start == limit + Rounded(size) + Rounded(PoolPages * Word) + TableSize
       IN  /\ boot' = [bitmap |-> limit, size |-> size, start |-> start]
           /\ memory' = [a \in DOMAIN memory |->
                            IF limit <= a /\ a < start THEN Nothing ELSE memory[a]]
           /\ limit' = start
    /\ stage' = "place"
    /\ UNCHANGED <<vars, mods, next, mem, bits, taken>>

-----------------------------------------------------------------------------
(* pager0_setup                                                            *)

\* Getting and setting a state goes one byte beyond bitmap_size.
InBitmap(p) == p \div ByteBits <= boot.size

\* The bitmap is not cleared.
PagerStarts(state) ==
    /\ stage = "place"
    /\ bits' = [p \in 0..(Limit \div Page + ByteBits) |-> state]
    /\ next' = 0
    /\ stage' = "fill"
    /\ UNCHANGED <<vars, mods, memory, limit, mem, boot, taken>>

First(r) == r.addr % Limit
Past(r)  == (r.addr + r.len) % Limit

\* The addresses the loop over region r visits, up to the wrap.
Visited(r) == {j \in First(r)..(Past(r) - 1) : (j - First(r)) % Page = 0}

\* After the last of them comes an address that is again below the end.
Endless(r) == Visited(r) # {} /\ Max(Visited(r)) + Page - Limit \in 0..(Past(r) - 1)

SlipInUse(j) == (j > KernStart /\ j < boot.start) \/ j = 0

InUse(j) == (j >= KernStart /\ j < boot.start) \/ j = 0

\* The state the loop leaves page p in.
Entered(r, p) ==
    IF \E j \in Visited(r) : j \div Page = p /\ InBitmap(p)
    THEN IF r.type = Available /\ ~ \E j \in Visited(r) : j \div Page = p /\ InUse(j)
         THEN "FREE" ELSE "USED"
    ELSE bits[p]

FillRegion ==
    /\ stage = "fill" /\ next \in DOMAIN mmap
    /\ ~ Endless(mmap[next])
    /\ bits' = [p \in DOMAIN bits |-> Entered(mmap[next], p)]
    /\ next' = next + 1
    /\ UNCHANGED <<vars, stage, mods, memory, limit, mem, boot, taken>>

FillHangs ==
    /\ stage = "fill" /\ next \in DOMAIN mmap
    /\ Endless(mmap[next])
    /\ stage' = "hung"
    /\ UNCHANGED <<vars, mods, memory, limit, next, mem, boot, bits, taken>>

FillEnds ==
    /\ stage = "fill" /\ next \notin DOMAIN mmap
    /\ stage' = "ready"
    /\ UNCHANGED <<vars, mods, memory, limit, next, mem, boot, bits, taken>>

-----------------------------------------------------------------------------
(* pager0_alloc, pager0_free                                               *)

FreePages == {p \in 0..(boot.size * ByteBits) : bits[p] = "FREE"}

AfterAlloc(p) == [bits EXCEPT ![p] = "USED"]

\* The page found is returned as its address: 0 means that there is none,
\* and is what the caller sees of page 0 too.
Alloc ==
    /\ stage = "ready" /\ FreePages # {}
    /\ LET p == Min(FreePages)
       IN  /\ bits' = AfterAlloc(p)
           /\ taken' = taken \cup ({p} \ {0})
    /\ UNCHANGED <<vars, stage, mods, memory, limit, next, mem, boot>>

Free(p) ==
    /\ stage = "ready" /\ p \in taken
    /\ InBitmap(p) /\ bits[p] = "USED"
    /\ bits' = [bits EXCEPT ![p] = "FREE"]
    /\ taken' = taken \ {p}
    /\ UNCHANGED <<vars, stage, mods, memory, limit, next, mem, boot>>

BootNext ==
    \/ Next /\ UNCHANGED bootVars
    \/ MapFails
    \/ \E list \in ModLists : ModsReported(list)
    \/ MoveModule \/ ModuleOverlaps \/ ModulesMoved
    \/ AddLength \/ Place
    \/ \E state \in Leftover : PagerStarts(state)
    \/ FillRegion \/ FillHangs \/ FillEnds
    \/ Alloc \/ \E p \in DOMAIN bits : Free(p)

BootSpec == BootInit /\ [][BootNext]_allVars

-----------------------------------------------------------------------------
(* Properties                                                              *)

\* However the modules lie and whatever order they are listed in, moving one
\* overwrites no other that is still to be moved, and what is placed behind
\* them none at all: every whole word of every module is found where
\* mods_list says (setup.c:118-141). The units of a last, partial word are
\* lost, unless the module was in place.
ModulesIntact ==
    stage \in {"place", "fill", "ready"} =>
        \A i \in DOMAIN mods :
            \A k \in 0..(((mods[i].end - mods[i].start) \div Word) * Word - 1) :
                memory[mods[i].start + k] = <<i, k>>

Within(p, r)   == r.addr <= p * Page /\ (p + 1) * Page <= r.addr + r.len
PageInUse(p)   == p = 0 \/ (KernStart <= p * Page /\ p * Page < boot.start)
LowMemory      == \A r \in Entries : r.addr + r.len < Limit
KernelReported == \A p \in DOMAIN bits :
                      PageInUse(p) => p = 0 \/ \E r \in Entries : Within(p, r)

\* From the map the bootloader reported to the page that is given out: where
\* no region reaches 4 GB, a page that lies in a reserved region is never
\* given out, nor one that holds the kernel, its modules or its tables if the
\* map reports them (a page in no region keeps the state memory held, used or
\* not), and one that is available and no part of those is free until it is
\* taken, and then again when it is returned (pager0.c:91-236).
PagesAccountedFor ==
    stage = "ready" /\ LowMemory =>
        /\ KernelReported => \A p \in taken : ~ PageInUse(p)
        /\ \A p \in taken : ~ \E r \in Entries : r.type = Reserved /\ Within(p, r)
        /\ \A p \in DOMAIN bits : \A r \in Entries :
              InBitmap(p) /\ Within(p, r) /\ r.type = Available /\ ~ PageInUse(p)
                  => (bits[p] = "FREE" <=> p \notin taken)
=============================================================================
