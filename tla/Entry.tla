------------------------------- MODULE Entry -------------------------------
(***************************************************************************)
(* arch/x86/int.s, interrupt.c and context.c: how the processor leaves a   *)
(* thread for a handler and comes back to one. From ring 3 it pushes what  *)
(* it was doing at tss.esp0, which is the end of a thread's context; from  *)
(* ring 0 on the stack that was in use, that of ksetup_th, from where      *)
(* ctx_postsave copies it. Addresses are in words.                         *)
(*                                                                         *)
(* All gates are interrupt gates: a handler runs with interrupts off, and  *)
(* it does not fault, since the kernel memory it touches was touched       *)
(* before. A register is eax and esi, which messages use, or ebp; what the *)
(* processor itself does is that of an i386.                               *)
(***************************************************************************)
EXTENDS Segments, SequencesExt

CONSTANTS
    User,    \* the user threads
    KSetup,  \* ksetup_th, the only thread that runs in the kernel
    None,
    Val,     \* what a register may hold
    Vector,  \* the interrupt vectors that are raised
    Code     \* the error codes the processor pushes

ASSUME EntryAssumption ==
    /\ KSetup \notin User /\ None \notin User \cup {KSetup}
    /\ Val \subseteq 0..7 /\ 0 \in Val
    /\ Vector \subseteq 0..255 /\ Code \subseteq Nat

VARIABLES
    phase,    \* "boot", "run" a thread, "handle" an interrupt, or "halted"
    cpu,      \* the registers
    curTh,    \* cur_th
    esp0,     \* the thread at the end of whose context tss.esp0 is
    ctx,      \* the context of each thread
    kstack,   \* what was pushed on the stack of ksetup_th, and below where
    cause,    \* the vector, error code and thread that were interrupted
    created,  \* the user threads there are
    open,     \* whether an interrupt line is unmasked
    saved     \* what each thread was doing when it last ran (history)

vars == <<phase, cpu, curTh, esp0, ctx, kstack, cause, created, open, saved>>

Thread == User \cup {KSetup}

IF_ == 512        \* the interrupt flag, 1 << INTFLAG_SHIFT
Fake == 4076      \* FAKE_ERROR
Syscall == 50
PageFault == 14

\* Where code and stacks are.
Eip(p)   == 100 + p
Stack(p) == 200 + p

\* struct x86_context, cleared.
NoContext == [seg |-> <<0, 0>>, ebp |-> 0, esi |-> 0, eax |-> 0, ret |-> 0, err |-> 0,
              eip |-> 0, cs |-> 0, flags |-> 0, esp |-> 0, ss |-> 0]

\* What _start leaves, on the kernel's segments and stack.
Start == [seg |-> <<KernDs, KernDs>>, ebp |-> 0, esi |-> 0, eax |-> 0,
          eip |-> Eip(0), cs |-> KernCs, flags |-> 0, esp |-> Stack(7), ss |-> KernDs]

Init ==
    /\ phase = "boot" /\ cpu = Start
    /\ curTh = None /\ esp0 = None
    /\ ctx = [t \in Thread |-> NoContext]
    /\ kstack = [top |-> 0, words |-> <<>>]
    /\ cause = [vector |-> -1, code |-> 0, th |-> None]
    /\ created = {} /\ open = FALSE
    /\ saved = [t \in Thread |-> Start]

-----------------------------------------------------------------------------
(* The descriptor table (interrupt_setup, create_int_gate)                 *)

HasGate(v) == v \in 0..14 \cup 16..18 \cup 32..47 \cup {Syscall}
Dpl(v)     == IF v = Syscall THEN 3 ELSE 0

SlipFakes == {0, 1, 2, 3, 4, 5, 6, 7, 9, 14, 16, 18} \cup 32..47 \cup {Syscall}

\* The entry points that push an error code, since the processor does not.
Fakes == {0, 1, 2, 3, 4, 5, 6, 7, 9, 16, 18} \cup 32..47 \cup {Syscall}

\* The exceptions for which it does.
HasCode == {8, 10, 11, 12, 13, PageFault, 17}

\* All that is pushed from the interrupt to the first line of save_ctx, last
\* its return address, which is that of the entry point of v.
Pushed(v, code) ==
    (IF cpu.cs = UserCs THEN <<cpu.ss, cpu.esp>> ELSE <<>>)
    \o <<cpu.flags, cpu.cs, cpu.eip>>
    \o (IF v \in HasCode THEN <<code>> ELSE <<>>)
    \o (IF v \in Fakes THEN <<Fake>> ELSE <<>>)
    \o <<v>>

-----------------------------------------------------------------------------
(* Saving                                                                  *)

\* The fields of a context from its end downwards, as they are pushed.
Slot == <<"ss", "esp", "flags", "cs", "eip", "err", "ret">>

\* Context c when words are pushed from its end.
Filled(c, words) ==
    [f \in DOMAIN c |->
        IF \E k \in DOMAIN words \cap DOMAIN Slot : Slot[k] = f
        THEN words[CHOOSE k \in DOMAIN Slot : Slot[k] = f]
        ELSE c[f]]

\* ctx_postsave: word holds what is on the stack from saveEsp upwards.
Postsave(c, saveEsp, word) ==
    IF c.ss % 256 = KernDs
    THEN [c EXCEPT !.ret = word[0], !.err = word[1], !.eip = word[2],
                   !.cs = word[3], !.flags = word[4], !.esp = saveEsp, !.ss = KernDs]
    ELSE c

\* The words of s from the one pushed last.
FromTop(s) == [i \in 0..(Len(s) - 1) |-> s[Len(s) - i]]

\* save_ctx: the general registers go to the context of cur_th.
SaveCtx(c, words) ==
    Postsave([c EXCEPT !.seg = cpu.seg, !.ebp = cpu.ebp, !.esi = cpu.esi, !.eax = cpu.eax],
             cpu.esp - Len(words), FromTop(words))

\* The processor takes vector v.
Enter(v, code) == LET words == Pushed(v, code) IN
    /\ phase = "run"
    /\ IF cpu.cs = UserCs
       THEN /\ ctx' = LET pushed == [ctx EXCEPT ![esp0] = Filled(@, words)]
                      IN  [pushed EXCEPT ![curTh] = SaveCtx(@, words)]
            /\ UNCHANGED kstack
       ELSE /\ ctx' = [ctx EXCEPT ![curTh] = SaveCtx(@, words)]
            /\ kstack' = [top |-> cpu.esp, words |-> words]
    /\ cause' = [vector |-> v, code |-> IF v \in HasCode THEN code ELSE Fake, th |-> curTh]
    /\ saved' = [saved EXCEPT ![curTh] = cpu]
    /\ cpu' = [Start EXCEPT !.seg[1] = cpu.seg[1]]
    /\ phase' = "handle"
    /\ UNCHANGED <<curTh, esp0, created, open>>

Interrupt(v) == v \in 32..47 /\ open /\ cpu.flags = IF_ /\ Enter(v, Fake)

\* The kernel itself faults only for pages.
Exception(v, code) ==
    /\ v \in 0..18 /\ HasGate(v)
    /\ cpu.cs = KernCs => v = PageFault
    /\ Enter(v, code)

\* A program executes int v: a gate it may not use is a protection fault, and
\* one that is absent a fault too.
SoftInt(v) ==
    /\ cpu.cs = UserCs
    /\ IF ~ HasGate(v) THEN Enter(11, 8 * v + 2)
       ELSE IF Dpl(v) < 3 THEN Enter(13, 8 * v + 2)
       ELSE Enter(v, Fake)

-----------------------------------------------------------------------------
(* Handling                                                                *)

\* excep_handle stops at every exception but page faults.
Halt ==
    /\ phase = "handle"
    /\ cause.vector < 32 /\ cause.vector # PageFault
    /\ phase' = "halted"
    /\ UNCHANGED <<cpu, curTh, esp0, ctx, kstack, cause, created, open, saved>>

SlipPrepareSwitch(t) == curTh

\* ctx_prepare_switch.
PrepareSwitch(t) == t

\* thread_switch_to, for the clock and for blocking system calls.
SwitchTo(t) ==
    /\ phase = "handle" /\ cause.vector \in {32, Syscall}
    /\ t \in created \cup {KSetup}
    /\ curTh' = t /\ esp0' = PrepareSwitch(t)
    /\ UNCHANGED <<phase, cpu, ctx, kstack, cause, created, open, saved>>

\* ctx_get_register and ctx_set_register.
GetRegister(t, r) == ctx[t][r]

SetRegister(t, r, value) ==
    /\ phase = "handle" /\ cause.vector = Syscall
    /\ t \in created
    /\ ctx' = [ctx EXCEPT ![t][r] = value]
    /\ saved' = [saved EXCEPT ![t][r] = value]
    /\ UNCHANGED <<phase, cpu, curTh, esp0, kstack, cause, created, open>>

\* A result or a message, which comes out of the sender's registers.
Deliver(t, r) ==
    \E value \in Val \cup {GetRegister(u, r) : u \in created} : SetRegister(t, r, value)

\* What restore_ctx finds in the context of cur_th or, where that one was
\* interrupted in the kernel, on the stack.
Restored ==
    LET c == ctx[curTh]
        word(a) == kstack.words[kstack.top - a]
        inKernel == c.cs = KernCs
    IN  [seg   |-> c.seg, ebp |-> c.ebp, esi |-> c.esi, eax |-> c.eax,
         eip   |-> IF inKernel THEN word(c.esp + 2) ELSE c.eip,
         cs    |-> IF inKernel THEN word(c.esp + 3) ELSE c.cs,
         flags |-> IF inKernel THEN word(c.esp + 4) ELSE c.flags,
         esp   |-> IF inKernel THEN c.esp + 5 ELSE c.esp,
         ss    |-> IF inKernel THEN cpu.ss ELSE c.ss]

\* restore_ctx ends in iretd.
Leave ==
    /\ phase = "handle"
    /\ cause.vector >= 32 \/ cause.vector = PageFault
    /\ cpu' = Restored
    /\ phase' = "run"
    /\ cause' = [vector |-> -1, code |-> 0, th |-> None]
    /\ UNCHANGED <<curTh, esp0, ctx, kstack, created, open, saved>>

-----------------------------------------------------------------------------
(* Threads                                                                 *)

\* main enables interrupts, all masked still, and thread_setup gives them a
\* context to save into.
ThreadSetup ==
    /\ phase = "boot"
    /\ cpu' = [cpu EXCEPT !.flags = IF_]
    /\ ctx' = [ctx EXCEPT ![KSetup].ss = KernDs]
    /\ curTh' = KSetup
    /\ phase' = "run"
    /\ UNCHANGED <<esp0, kstack, cause, created, open, saved>>

\* ctx_setup, on a structure thread_create has cleared.
CtxSetup == [NoContext EXCEPT
    !.seg = <<0, UserDs>>, !.cs = UserCs, !.ss = UserDs, !.err = Fake,
    !.flags = IF_, !.eip = Eip(0), !.esp = Stack(0)]

ThreadCreate(t) ==
    /\ phase = "run" /\ cpu.cs = KernCs /\ ~ open
    /\ t \notin created
    /\ ctx' = [ctx EXCEPT ![t] = CtxSetup]
    /\ saved' = [saved EXCEPT ![t] = [f \in DOMAIN cpu |-> CtxSetup[f]]]
    /\ created' = created \cup {t}
    /\ UNCHANGED <<phase, cpu, curTh, esp0, kstack, cause, open>>

\* clock_setup unmasks the first interrupt line, after the last thread is made.
ClockSetup ==
    /\ phase = "run" /\ cpu.cs = KernCs /\ ~ open
    /\ open' = TRUE
    /\ UNCHANGED <<phase, cpu, curTh, esp0, ctx, kstack, cause, created, saved>>

\* The thread that runs goes on: its program counter and stack move.
Execute(a, s, p) ==
    /\ phase = "run"
    /\ cpu' = [cpu EXCEPT !.eax = a, !.esi = s, !.ebp = p, !.eip = Eip(p),
                          !.esp = IF cpu.cs = KernCs THEN Stack(7 + p) ELSE Stack(p)]
    /\ UNCHANGED <<phase, curTh, esp0, ctx, kstack, cause, created, open, saved>>

Next ==
    \/ ThreadSetup \/ ClockSetup
    \/ \E t \in User : ThreadCreate(t)
    \/ \E a, s, p \in Val : Execute(a, s, p)
    \/ \E v \in Vector : Interrupt(v) \/ SoftInt(v)
    \/ \E v \in Vector, code \in Code : Exception(v, code)
    \/ \E t \in Thread : SwitchTo(t)
    \/ \E t \in User, r \in {"eax", "esi"} : Deliver(t, r)
    \/ Halt \/ Leave

Spec == Init /\ [][Next]_vars

-----------------------------------------------------------------------------
(* Properties                                                              *)

\* The handler finds in the context of the thread that was interrupted the
\* error code it was interrupted with, and where: vm_pf_resolvable decides by
\* that code, and it may have been pushed by the processor or by the stub, in
\* the context itself or on the kernel's stack (int.s, context.c:108-126).
HandlerSeesCause ==
    phase = "handle" =>
        /\ ctx[cause.th].err = cause.code
        /\ ctx[cause.th].ret = cause.vector
        /\ \A f \in {"eip", "cs", "flags"} : ctx[cause.th][f] = saved[cause.th][f]

\* Whichever thread restore_ctx goes back to, in the kernel or not, it finds
\* every register as it left it, but those a message was put into meanwhile;
\* a new thread starts as ctx_setup made it.
ResumesWhereInterrupted == [][Leave => cpu' = saved[curTh]]_vars
=============================================================================
