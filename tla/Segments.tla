------------------------------ MODULE Segments ------------------------------
(***************************************************************************)
(* arch/x86/vm_segment.c: the descriptors of the two flat spaces, one for  *)
(* the kernel and one for programs, and the selectors of x86_const.h that  *)
(* go with them. A 32-bit word is [hi, lo], its two halves; a byte whose   *)
(* bits are or-ed together is the sum of those bits, which are apart.      *)
(***************************************************************************)
EXTENDS Integers

Half == {h \in Nat : h < 65536}
Word32 == [hi : Half, lo : Half]

\* X86_CONST_KERN_CS_SELECTOR and the others.
KernCs == 8
KernDs == 16
UserCs == 27
UserDs == 35

\* size--
Decremented(w) ==
    IF w.lo > 0
    THEN [hi |-> w.hi, lo |-> w.lo - 1]
    ELSE [hi |-> (w.hi + 65535) % 65536, lo |-> 65535]

\* create_seg_desc, with what its callers add: granularity and limit_low hold
\* the last address of the segment in bytes, or in pages where it does not
\* fit 20 bits.
SegDesc(base, size, width, attributes) ==
    LET last  == Decremented(size)
        large == last.hi >= 16
    IN  [limit_low   |-> IF large THEN (last.hi * 16 + last.lo \div 4096) % 65536 ELSE last.lo,
         base_low    |-> base.lo,
         base_middle |-> base.hi % 256,
         attributes  |-> attributes,
         granularity |-> width + IF large THEN 128 + last.hi \div 4096 ELSE last.hi,
         base_high   |-> base.hi \div 256]

\* create_code_seg, create_data_seg and create_tss_seg: present, of level dpl,
\* 32 bits wide; executable and readable, writable, or a task's.
CodeSeg(base, size, dpl) == SegDesc(base, size, 64, dpl * 32 + 128 + 16 + 10)
DataSeg(base, size, dpl) == SegDesc(base, size, 64, dpl * 32 + 128 + 16 + 2)
TssSeg(base, size, dpl)  == SegDesc(base, size, 0, dpl * 32 + 128 + 9)

Zero == [hi |-> 0, lo |-> 0]

\* vm_segment_setup, with the task state segment, of size bytes, at tss.
Gdt(tss, size) ==
    [i \in 1..5 |-> CASE i = 1 -> CodeSeg(Zero, Zero, 0)
                      [] i = 2 -> DataSeg(Zero, Zero, 0)
                      [] i = 3 -> CodeSeg(Zero, Zero, 3)
                      [] i = 4 -> DataSeg(Zero, Zero, 3)
                      [] i = 5 -> TssSeg(tss, size, 0)]

-----------------------------------------------------------------------------
(* How the processor reads a descriptor                                    *)

BaseOf(d) == [hi |-> d.base_high * 256 + d.base_middle, lo |-> d.base_low]

\* The last offset: granularity has the upper four bits of the limit, and
\* whether it counts pages.
LastOf(d) ==
    LET upper == d.granularity % 16
    IN  IF d.granularity \div 128 = 1
        THEN [hi |-> upper * 4096 + d.limit_low \div 16, lo |-> (d.limit_low % 16) * 4096 + 4095]
        ELSE [hi |-> upper, lo |-> d.limit_low]

Present(d)    == d.attributes \div 128 = 1
LevelOf(d)    == (d.attributes \div 32) % 4
Executable(d) == (d.attributes \div 8) % 4 = 3
Writable(d)   == (d.attributes \div 8) % 4 = 2 /\ (d.attributes \div 2) % 2 = 1

\* Code can run from cs on the stack of ss: the descriptors are of that kind
\* and of the level the selectors ask for, and reach over all of memory.
Runnable(gdt, cs, ss) ==
    /\ {cs \div 8, ss \div 8} \subseteq DOMAIN gdt
    /\ Executable(gdt[cs \div 8]) /\ Writable(gdt[ss \div 8])
    /\ cs % 4 = ss % 4
    /\ \A s \in {cs, ss} : LET d == gdt[s \div 8] IN
          /\ Present(d) /\ LevelOf(d) = s % 4
          /\ BaseOf(d) = Zero /\ LastOf(d) = [hi |-> 65535, lo |-> 65535]
=============================================================================
