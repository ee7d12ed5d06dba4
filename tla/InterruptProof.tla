--------------------------- MODULE InterruptProof ---------------------------
(***************************************************************************)
(* Proofs about Entry: for any threads, vectors and error codes, a handler *)
(* finds what it was called for in the context of the thread interrupted,  *)
(* and a thread that is gone back to goes on where it was. And about Irq:  *)
(* for any lines and any number of handlers, the mask of the master        *)
(* follows the calls but for those made between the read and the write of  *)
(* another; and a walk of a line runs each handler that stays in it once,  *)
(* although it meets lists that are half changed and handlers that change  *)
(* them.                                                                   *)
(***************************************************************************)
EXTENDS Entry, Irq, QueueLemmas

Seg == Int \X Int

Registers == [seg : Seg, ebp : Int, esi : Int, eax : Int, eip : Int, cs : Int,
              flags : Int, esp : Int, ss : Int]

Context == [seg : Seg, ebp : Int, esi : Int, eax : Int, ret : Int, err : Int, eip : Int,
            cs : Int, flags : Int, esp : Int, ss : Int]

TypeOK ==
    /\ phase \in {"boot", "run", "handle", "halted"}
    /\ cpu \in Registers
    /\ created \subseteq User
    /\ ctx \in [Thread -> Context]
    /\ saved \in [Thread -> Registers]
    /\ kstack \in [top : Int, words : Seq(Int)]

Known == created \cup {KSetup}

\* Before thread_setup nothing is saved, and there is nothing to save.
Booting ==
    phase = "boot" => created = {} /\ cpu.cs = KernCs /\ cpu.ss = KernDs

\* What the processor runs is what cur_th is, and it saves where cur_th is.
Running ==
    phase \in {"run", "handle"} =>
        /\ curTh \in Known
        /\ curTh \in User => esp0 = curTh
        /\ ctx[KSetup].ss = KernDs

Mode ==
    /\ phase = "run" /\ curTh = KSetup => cpu.cs = KernCs /\ cpu.ss = KernDs
    /\ phase = "run" /\ curTh \in User => cpu.cs = UserCs /\ cpu.ss = UserDs
    /\ phase = "handle" => cpu.ss = KernDs

\* The context of a thread that is not running has all it did.
GeneralKept(t) ==
    /\ ctx[t].seg = saved[t].seg /\ ctx[t].ebp = saved[t].ebp
    /\ ctx[t].esi = saved[t].esi /\ ctx[t].eax = saved[t].eax

PlaceKept(t) ==
    /\ ctx[t].eip = saved[t].eip /\ ctx[t].cs = saved[t].cs
    /\ ctx[t].flags = saved[t].flags

UserKept(t) ==
    /\ ctx[t].esp = saved[t].esp /\ ctx[t].ss = saved[t].ss
    /\ ctx[t].cs = UserCs /\ ctx[t].ss = UserDs

KernelKept ==
    LET c == ctx[KSetup]
        word(a) == kstack.words[kstack.top - a]
    IN  /\ c.cs = KernCs
        /\ word(c.esp + 2) = saved[KSetup].eip
        /\ word(c.esp + 3) = saved[KSetup].cs
        /\ word(c.esp + 4) = saved[KSetup].flags
        /\ c.esp + 5 = saved[KSetup].esp
        /\ saved[KSetup].ss = KernDs

Suspended(t) ==
    /\ GeneralKept(t) /\ PlaceKept(t)
    /\ t \in User => UserKept(t)
    /\ t = KSetup => KernelKept

AllSuspended ==
    /\ phase = "run"    => \A t \in Known \ {curTh} : Suspended(t)
    /\ phase = "handle" => \A t \in Known : Suspended(t)

IInv == TypeOK /\ Booting /\ Running /\ Mode /\ AllSuspended /\ HandlerSeesCause

-----------------------------------------------------------------------------
(* What is pushed                                                          *)

Reported(v, code) == IF v \in HasCode THEN code ELSE Fake

LEMMA OneCode ==
    ASSUME NEW v, HasGate(v)
    PROVE  v \in Int /\ (v \in HasCode <=> v \notin Fakes)
BY DEF HasGate, HasCode, Fakes, Syscall, PageFault

\* One word more.
LEMMA OneMore ==
    ASSUME NEW s \in Seq(Int), NEW x \in Int
    PROVE  /\ s \o <<x>> \in Seq(Int)
           /\ Len(s \o <<x>>) = Len(s) + 1
           /\ \A i \in 1..Len(s) : (s \o <<x>>)[i] = s[i]
           /\ (s \o <<x>>)[Len(s) + 1] = x
<1>1. <<x>> \in Seq(Int) /\ Len(<<x>>) = 1 /\ <<x>>[1] = x
  OBVIOUS
<1>2. Len(s) \in Nat
  BY LenProperties
<1>3. /\ s \o <<x>> \in Seq(Int)
      /\ Len(s \o <<x>>) = Len(s) + Len(<<x>>)
      /\ \A i \in 1..(Len(s) + Len(<<x>>)) :
            (s \o <<x>>)[i] = IF i <= Len(s) THEN s[i] ELSE <<x>>[i - Len(s)]
  BY <1>1, ConcatProperties
<1> QED  BY <1>1, <1>2, <1>3

\* The words of an interrupt, with a code that either the processor pushed or
\* the entry point: five, behind the stack that was left, if it was a user's.
LEMMA Pushes ==
    ASSUME NEW v, NEW code \in Int, HasGate(v), cpu \in Registers
    PROVE  LET W == Pushed(v, code)
               n == IF cpu.cs = UserCs THEN 2 ELSE 0
           IN  /\ W \in Seq(Int) /\ Len(W) = n + 5
               /\ n = 2 => W[1] = cpu.ss /\ W[2] = cpu.esp
               /\ W[n + 1] = cpu.flags /\ W[n + 2] = cpu.cs /\ W[n + 3] = cpu.eip
               /\ W[n + 4] = Reported(v, code) /\ W[n + 5] = v
<1> DEFINE n == IF cpu.cs = UserCs THEN 2 ELSE 0
           A == IF cpu.cs = UserCs THEN <<cpu.ss, cpu.esp>> ELSE <<>>
           B == <<cpu.flags, cpu.cs, cpu.eip>>
           C == A \o B
           D == C \o <<Reported(v, code)>>
           W == D \o <<v>>
<1>1. /\ cpu.ss \in Int /\ cpu.esp \in Int /\ cpu.flags \in Int
      /\ cpu.cs \in Int /\ cpu.eip \in Int
      /\ v \in Int /\ Reported(v, code) \in Int
  BY OneCode DEF Registers, Reported, Fake
<1>2. /\ A \in Seq(Int) /\ Len(A) = n
      /\ n = 2 => A[1] = cpu.ss /\ A[2] = cpu.esp
  BY <1>1
<1>3. /\ B \in Seq(Int) /\ Len(B) = 3
      /\ B[1] = cpu.flags /\ B[2] = cpu.cs /\ B[3] = cpu.eip
  BY <1>1
<1>4. /\ C \in Seq(Int) /\ Len(C) = n + 3
      /\ n = 2 => C[1] = cpu.ss /\ C[2] = cpu.esp
      /\ C[n + 1] = cpu.flags /\ C[n + 2] = cpu.cs /\ C[n + 3] = cpu.eip
  <2>1. n \in {0, 2}
    OBVIOUS
  <2> HIDE DEF A, B, n
  <2>2. /\ C \in Seq(Int)
        /\ Len(C) = Len(A) + Len(B)
        /\ \A i \in 1..(Len(A) + Len(B)) :
              C[i] = IF i <= Len(A) THEN A[i] ELSE B[i - Len(A)]
    BY <1>2, <1>3, ConcatProperties
  <2> QED  BY <1>2, <1>3, <2>1, <2>2
<1>5. Pushed(v, code) = W
  <2>1. A \o B \o <<>> = A \o B
    BY <1>4, ConcatEmptySeq
  <2>2. D \o <<>> = D
    BY <1>1, <1>4, OneMore, ConcatEmptySeq
  <2>3. CASE v \in HasCode
    BY <2>2, <2>3, OneCode DEF Pushed, Reported
  <2>4. CASE v \notin HasCode
    BY <2>1, <2>4, OneCode DEF Pushed, Reported
  <2> QED  BY <2>3, <2>4
<1> HIDE DEF A, B, C
<1>6. n \in {0, 2} /\ n = IF cpu.cs = UserCs THEN 2 ELSE 0
  OBVIOUS
<1> HIDE DEF n
<1>7. /\ D \in Seq(Int) /\ Len(D) = n + 4
      /\ \A i \in 1..(n + 3) : D[i] = C[i]
      /\ D[n + 4] = Reported(v, code)
  <2>1. /\ D \in Seq(Int) /\ Len(D) = Len(C) + 1
        /\ \A i \in 1..Len(C) : D[i] = C[i]
        /\ D[Len(C) + 1] = Reported(v, code)
    BY <1>1, <1>4, OneMore
  <2>2. Len(C) + 1 = n + 4 /\ Len(C) = n + 3
    BY <1>4, <1>6
  <2> HIDE DEF D
  <2> QED  BY <2>1, <2>2
<1> HIDE DEF D
<1>8. /\ W \in Seq(Int) /\ Len(W) = n + 5
      /\ \A i \in 1..(n + 4) : W[i] = D[i]
      /\ W[n + 5] = v
  <2>1. /\ W \in Seq(Int) /\ Len(W) = Len(D) + 1
        /\ \A i \in 1..Len(D) : W[i] = D[i]
        /\ W[Len(D) + 1] = v
    BY <1>1, <1>7, OneMore
  <2>2. Len(D) + 1 = n + 5 /\ Len(D) = n + 4
    BY <1>6, <1>7
  <2> HIDE DEF W
  <2> QED  BY <2>1, <2>2
<1> HIDE DEF W
<1>9. /\ n = 2 => W[1] = cpu.ss /\ W[2] = cpu.esp
      /\ W[n + 1] = cpu.flags /\ W[n + 2] = cpu.cs /\ W[n + 3] = cpu.eip
      /\ W[n + 4] = Reported(v, code)
  <2>1. ASSUME NEW i \in 1..(n + 3) PROVE W[i] = C[i]
    <3>1. i \in 1..(n + 4)
      BY <1>6
    <3>2. W[i] = D[i]
      BY <1>8, <3>1
    <3>3. D[i] = C[i]
      BY <1>7
    <3> QED  BY <3>2, <3>3
  <2>2. n + 1 \in 1..(n + 3) /\ n + 2 \in 1..(n + 3) /\ n + 3 \in 1..(n + 3)
        /\ 1 \in 1..(n + 3) /\ 2 \in 1..(n + 3) /\ n + 4 \in 1..(n + 4)
    BY <1>6
  <2> QED  BY <1>4, <1>7, <1>8, <2>1, <2>2
<1> QED  BY <1>5, <1>6, <1>8, <1>9

LEMMA SegKept ==
    ASSUME NEW s \in Seg, NEW x \in Int
    PROVE  [s EXCEPT ![1] = x] \in Seg /\ s[1] \in Int
BY DEF Seg

\* Seven words fill the whole end of a context.
LEMMA FilledFromUser ==
    ASSUME NEW c \in Context, NEW W \in Seq(Int), Len(W) = 7
    PROVE  Filled(c, W) =
             [c EXCEPT !.ss = W[1], !.esp = W[2], !.flags = W[3], !.cs = W[4],
                       !.eip = W[5], !.err = W[6], !.ret = W[7]]
<1>1. DOMAIN c = {"seg", "ebp", "esi", "eax", "ret", "err", "eip", "cs", "flags", "esp", "ss"}
  BY DEF Context
<1>2. DOMAIN Slot \cap DOMAIN W = 1..7 /\ DOMAIN Slot = 1..7
  BY LenProperties DEF Slot
<1>3. 1..7 = {1, 2, 3, 4, 5, 6, 7}
  OBVIOUS
<1>4. /\ Slot[1] = "ss" /\ Slot[2] = "esp" /\ Slot[3] = "flags" /\ Slot[4] = "cs"
      /\ Slot[5] = "eip" /\ Slot[6] = "err" /\ Slot[7] = "ret"
  BY DEF Slot
<1> DEFINE Value(f) == IF \E k \in DOMAIN W \cap DOMAIN Slot : Slot[k] = f
                       THEN W[CHOOSE k \in DOMAIN Slot : Slot[k] = f]
                       ELSE c[f]
<1>5. \A k \in 1..7 : Value(Slot[k]) = W[k]
  <2> SUFFICES ASSUME NEW k \in 1..7
               PROVE  (CHOOSE j \in DOMAIN Slot : Slot[j] = Slot[k]) = k
    BY <1>2
  <2> QED  BY <1>2, <1>3, <1>4
<1>6. \A f \in {"seg", "ebp", "esi", "eax"} : Value(f) = c[f]
  BY <1>2, <1>3, <1>4
<1> HIDE DEF Value
<1>7. Filled(c, W) = [f \in DOMAIN c |-> Value(f)]
  BY DEF Filled, Value
<1>8. /\ Value("ss") = W[1] /\ Value("esp") = W[2] /\ Value("flags") = W[3]
      /\ Value("cs") = W[4] /\ Value("eip") = W[5] /\ Value("err") = W[6]
      /\ Value("ret") = W[7]
  BY <1>3, <1>4, <1>5
<1> DEFINE R == [c EXCEPT !.ss = W[1], !.esp = W[2], !.flags = W[3], !.cs = W[4],
                          !.eip = W[5], !.err = W[6], !.ret = W[7]]
<1>9. /\ DOMAIN R = DOMAIN c /\ R = [f \in DOMAIN R |-> R[f]]
      /\ \A f \in {"seg", "ebp", "esi", "eax"} : R[f] = c[f]
  BY <1>1
<1>10. /\ R.ss = W[1] /\ R.esp = W[2] /\ R.flags = W[3] /\ R.cs = W[4]
       /\ R.eip = W[5] /\ R.err = W[6] /\ R.ret = W[7]
  BY <1>1
<1> HIDE DEF R
<1>11. \A f \in DOMAIN c : Value(f) = R[f]
  BY <1>1, <1>6, <1>8, <1>9, <1>10
<1>12. Filled(c, W) = R
  BY <1>7, <1>9, <1>11
<1> QED  BY <1>12 DEF R

-----------------------------------------------------------------------------
(* Saving                                                                  *)

\* A user's context holds all of what the processor was doing.
LEMMA SavedFromUser ==
    ASSUME NEW c \in Context, NEW v, NEW code \in Int, HasGate(v),
           cpu \in Registers, cpu.cs = UserCs, cpu.ss = UserDs
    PROVE  LET W == Pushed(v, code)
               d == SaveCtx(Filled(c, W), W)
           IN  /\ d \in Context
               /\ d.seg = cpu.seg /\ d.ebp = cpu.ebp /\ d.esi = cpu.esi /\ d.eax = cpu.eax
               /\ d.eip = cpu.eip /\ d.cs = cpu.cs /\ d.flags = cpu.flags
               /\ d.esp = cpu.esp /\ d.ss = cpu.ss
               /\ d.err = Reported(v, code) /\ d.ret = v
<1> DEFINE W == Pushed(v, code)
           e == Filled(c, W)
           d == [e EXCEPT !.seg = cpu.seg, !.ebp = cpu.ebp, !.esi = cpu.esi, !.eax = cpu.eax]
<1>1. /\ W \in Seq(Int) /\ Len(W) = 7
      /\ W[1] = cpu.ss /\ W[2] = cpu.esp /\ W[3] = cpu.flags /\ W[4] = cpu.cs
      /\ W[5] = cpu.eip /\ W[6] = Reported(v, code) /\ W[7] = v
  BY Pushes
<1> HIDE DEF W
<1>2. e = [c EXCEPT !.ss = W[1], !.esp = W[2], !.flags = W[3], !.cs = W[4],
                    !.eip = W[5], !.err = W[6], !.ret = W[7]]
  BY <1>1, FilledFromUser
<1>3. /\ v \in Int /\ Reported(v, code) \in Int
      /\ cpu.seg \in Seg /\ cpu.ebp \in Int /\ cpu.esi \in Int /\ cpu.eax \in Int
      /\ cpu.ss \in Int /\ cpu.esp \in Int /\ cpu.flags \in Int
      /\ cpu.cs \in Int /\ cpu.eip \in Int
  BY OneCode DEF Registers, Reported, Fake
<1>4. /\ e \in Context
      /\ e.eip = cpu.eip /\ e.cs = cpu.cs /\ e.flags = cpu.flags
      /\ e.esp = cpu.esp /\ e.ss = cpu.ss
      /\ e.err = Reported(v, code) /\ e.ret = v
  <2> HIDE DEF e
  <2>1. /\ W[1] \in Int /\ W[2] \in Int /\ W[3] \in Int /\ W[4] \in Int
        /\ W[5] \in Int /\ W[6] \in Int /\ W[7] \in Int
    BY <1>1, <1>3
  <2>2. e \in Context
    BY <1>2, <2>1 DEF Context
  <2>3. /\ e.ss = W[1] /\ e.esp = W[2] /\ e.flags = W[3] /\ e.cs = W[4]
        /\ e.eip = W[5] /\ e.err = W[6] /\ e.ret = W[7]
    BY <1>2 DEF Context
  <2> QED  BY <1>1, <2>2, <2>3
<1> HIDE DEF e
<1>5. /\ d \in Context
      /\ d.seg = cpu.seg /\ d.ebp = cpu.ebp /\ d.esi = cpu.esi /\ d.eax = cpu.eax
      /\ d.eip = cpu.eip /\ d.cs = cpu.cs /\ d.flags = cpu.flags
      /\ d.esp = cpu.esp /\ d.ss = cpu.ss
      /\ d.err = Reported(v, code) /\ d.ret = v
  BY <1>3, <1>4 DEF Context
<1>6. SaveCtx(e, W) = d
  <2>1. d.ss % 256 # KernDs
    BY <1>5 DEF UserDs, KernDs
  <2> QED  BY <2>1 DEF SaveCtx, Postsave
<1> QED  BY <1>5, <1>6 DEF e, W

\* That of ksetup_th is copied from its stack, where it was pushed.
LEMMA SavedFromKernel ==
    ASSUME NEW c \in Context, NEW v, NEW code \in Int, HasGate(v),
           cpu \in Registers, cpu.cs = KernCs, c.ss = KernDs
    PROVE  LET W == Pushed(v, code)
               d == SaveCtx(c, W)
           IN  /\ d \in Context
               /\ W \in Seq(Int)
               /\ d.seg = cpu.seg /\ d.ebp = cpu.ebp /\ d.esi = cpu.esi /\ d.eax = cpu.eax
               /\ d.eip = cpu.eip /\ d.cs = cpu.cs /\ d.flags = cpu.flags
               /\ d.esp = cpu.esp - 5 /\ d.ss = KernDs
               /\ d.err = Reported(v, code) /\ d.ret = v
               /\ W[cpu.esp - (d.esp + 2)] = cpu.eip
               /\ W[cpu.esp - (d.esp + 3)] = cpu.cs
               /\ W[cpu.esp - (d.esp + 4)] = cpu.flags
<1> DEFINE W == Pushed(v, code)
           e == [c EXCEPT !.seg = cpu.seg, !.ebp = cpu.ebp, !.esi = cpu.esi, !.eax = cpu.eax]
           word == FromTop(W)
           d == [e EXCEPT !.ret = word[0], !.err = word[1], !.eip = word[2],
                          !.cs = word[3], !.flags = word[4], !.esp = cpu.esp - Len(W),
                          !.ss = KernDs]
<1>1. /\ W \in Seq(Int) /\ Len(W) = 5
      /\ W[1] = cpu.flags /\ W[2] = cpu.cs /\ W[3] = cpu.eip
      /\ W[4] = Reported(v, code) /\ W[5] = v
  BY Pushes DEF UserCs, KernCs
<1> HIDE DEF W
<1>2. /\ word[0] = v /\ word[1] = Reported(v, code) /\ word[2] = cpu.eip
      /\ word[3] = cpu.cs /\ word[4] = cpu.flags
  <2>1. word = [i \in 0..4 |-> W[5 - i]]
    BY <1>1 DEF FromTop
  <2> QED  BY <1>1, <2>1
<1> HIDE DEF word
<1>3. /\ v \in Int /\ Reported(v, code) \in Int
      /\ cpu.seg \in Seg /\ cpu.ebp \in Int /\ cpu.esi \in Int /\ cpu.eax \in Int
      /\ cpu.esp \in Int /\ cpu.flags \in Int /\ cpu.cs \in Int /\ cpu.eip \in Int
      /\ KernDs \in Int /\ cpu.esp - Len(W) = cpu.esp - 5 /\ cpu.esp - 5 \in Int
  BY <1>1, OneCode DEF Registers, Reported, Fake, KernDs
<1>4. /\ e \in Context
      /\ e.seg = cpu.seg /\ e.ebp = cpu.ebp /\ e.esi = cpu.esi /\ e.eax = cpu.eax
      /\ e.ss = KernDs
  BY <1>3 DEF Context
<1> HIDE DEF e
<1>5. /\ d \in Context
      /\ d.seg = cpu.seg /\ d.ebp = cpu.ebp /\ d.esi = cpu.esi /\ d.eax = cpu.eax
      /\ d.eip = cpu.eip /\ d.cs = cpu.cs /\ d.flags = cpu.flags
      /\ d.esp = cpu.esp - 5 /\ d.ss = KernDs
      /\ d.err = Reported(v, code) /\ d.ret = v
  BY <1>2, <1>3, <1>4 DEF Context
<1>6. SaveCtx(c, W) = d
  <2>1. e.ss % 256 = KernDs
    BY <1>4 DEF KernDs
  <2>2. SaveCtx(c, W) = Postsave(e, cpu.esp - Len(W), word)
    BY DEF SaveCtx, e, word
  <2> QED  BY <2>1, <2>2 DEF Postsave
<1>7. /\ cpu.esp - (cpu.esp - 5 + 2) = 3
      /\ cpu.esp - (cpu.esp - 5 + 3) = 2
      /\ cpu.esp - (cpu.esp - 5 + 4) = 1
  <2>1. ASSUME NEW x \in Int
        PROVE  /\ (x - 5) + 2 = x - 3 /\ x - (x - 3) = 3
               /\ (x - 5) + 3 = x - 2 /\ x - (x - 2) = 2
               /\ (x - 5) + 4 = x - 1 /\ x - (x - 1) = 1
    OBVIOUS
  <2> QED  BY <1>3, <2>1
<1> QED  BY <1>1, <1>5, <1>6, <1>7 DEF W

-----------------------------------------------------------------------------
(* Threads that wait                                                       *)

LEMMA StaysSuspended ==
    ASSUME NEW u, Suspended(u), ctx'[u] = ctx[u], saved'[u] = saved[u],
           u = KSetup => UNCHANGED kstack
    PROVE  Suspended(u)'
BY DEF Suspended, GeneralKept, PlaceKept, UserKept, KernelKept

LEMMA KnownThreads ==
    ASSUME TypeOK
    PROVE  Known \subseteq Thread /\ KSetup \in Known /\ KSetup \notin User
           /\ \A t \in Known : t = KSetup \/ t \in User
BY EntryAssumption DEF TypeOK, Known, Thread

\* An interrupt suspends the thread that ran, and its handler finds the cause.
LEMMA EnterStep ==
    ASSUME IInv, NEW v, NEW code \in Int, HasGate(v), Enter(v, code)
    PROVE  IInv'
<1>1. PICK t \in Known : t = curTh
  BY DEF Enter, IInv, Running
<1>2. t \in Thread /\ (t = KSetup \/ t \in User) /\ KSetup \in Thread /\ KSetup \notin User
  BY KnownThreads DEF IInv
<1>3. /\ phase = "run" /\ phase' = "handle"
      /\ cause' = [vector |-> v, code |-> Reported(v, code), th |-> t]
      /\ saved' = [saved EXCEPT ![t] = cpu]
      /\ cpu' = [Start EXCEPT !.seg[1] = cpu.seg[1]]
      /\ UNCHANGED <<curTh, esp0, created, open>>
  BY <1>1 DEF Enter, Reported
<1>4. /\ cpu' \in Registers /\ cpu'.ss = KernDs /\ cpu'.cs = KernCs
  <2>1. Start.seg \in Seg /\ cpu.seg \in Seg
    BY DEF Start, Seg, KernDs, IInv, TypeOK, Registers
  <2>2. [Start.seg EXCEPT ![1] = cpu.seg[1]] \in Seg
    BY <2>1, SegKept
  <2>3. cpu' = [Start EXCEPT !.seg = [Start.seg EXCEPT ![1] = cpu.seg[1]]]
    BY <1>3
  <2>4. Start \in Registers /\ Start.ss = KernDs /\ Start.cs = KernCs
    BY <2>1 DEF Start, Registers, KernCs, KernDs, Eip, Stack
  <2> QED  BY <2>2, <2>3, <2>4 DEF Registers
<1>5. /\ cpu \in Registers /\ ctx \in [Thread -> Context] /\ ctx[t] \in Context
      /\ saved \in [Thread -> Registers] /\ kstack \in [top : Int, words : Seq(Int)]
  BY <1>2 DEF IInv, TypeOK
<1>6. /\ ctx' \in [Thread -> Context]
      /\ \A u \in Thread \ {t} : ctx'[u] = ctx[u]
      /\ kstack' \in [top : Int, words : Seq(Int)]
      /\ t # KSetup => kstack' = kstack
      /\ ctx'[KSetup].ss = KernDs
      /\ Suspended(t)'
      /\ ctx'[t].err = Reported(v, code) /\ ctx'[t].ret = v
  <2>1. saved'[t] = cpu
    BY <1>2, <1>3, <1>5
  <2>2. CASE t \in User
    <3>1. t = esp0 /\ cpu.cs = UserCs /\ cpu.ss = UserDs /\ ctx[KSetup].ss = KernDs
      BY <1>1, <1>3, <2>2 DEF IInv, Running, Mode
    <3> DEFINE W == Pushed(v, code)
               d == SaveCtx(Filled(ctx[t], W), W)
    <3>2. /\ d \in Context
          /\ d.seg = cpu.seg /\ d.ebp = cpu.ebp /\ d.esi = cpu.esi /\ d.eax = cpu.eax
          /\ d.eip = cpu.eip /\ d.cs = cpu.cs /\ d.flags = cpu.flags
          /\ d.esp = cpu.esp /\ d.ss = cpu.ss
          /\ d.err = Reported(v, code) /\ d.ret = v
      BY <1>5, <3>1, SavedFromUser
    <3>3. ctx' = [ctx EXCEPT ![t] = d] /\ kstack' = kstack
      BY <1>1, <1>2, <1>5, <3>1 DEF Enter
    <3> HIDE DEF d
    <3>4. /\ ctx'[t] = d /\ ctx' \in [Thread -> Context]
          /\ \A u \in Thread \ {t} : ctx'[u] = ctx[u]
      BY <1>2, <1>5, <3>2, <3>3
    <3>5. Suspended(t)'
      BY <1>2, <2>1, <2>2, <3>1, <3>2, <3>4
         DEF Suspended, GeneralKept, PlaceKept, UserKept
    <3> QED  BY <1>2, <1>5, <2>2, <3>1, <3>2, <3>3, <3>4, <3>5
  <2>3. CASE t = KSetup
    <3>1. cpu.cs = KernCs /\ cpu.ss = KernDs /\ ctx[t].ss = KernDs
      BY <1>1, <1>3, <2>3 DEF IInv, Running, Mode
    <3> DEFINE W == Pushed(v, code)
               d == SaveCtx(ctx[t], W)
    <3>2. /\ d \in Context
          /\ W \in Seq(Int)
          /\ d.seg = cpu.seg /\ d.ebp = cpu.ebp /\ d.esi = cpu.esi /\ d.eax = cpu.eax
          /\ d.eip = cpu.eip /\ d.cs = cpu.cs /\ d.flags = cpu.flags
          /\ d.esp = cpu.esp - 5 /\ d.ss = KernDs
          /\ d.err = Reported(v, code) /\ d.ret = v
          /\ W[cpu.esp - (d.esp + 2)] = cpu.eip
          /\ W[cpu.esp - (d.esp + 3)] = cpu.cs
          /\ W[cpu.esp - (d.esp + 4)] = cpu.flags
      BY <1>5, <3>1, SavedFromKernel
    <3>3. ctx' = [ctx EXCEPT ![t] = d] /\ kstack' = [top |-> cpu.esp, words |-> W]
      BY <1>1, <3>1 DEF Enter, KernCs, UserCs
    <3> HIDE DEF d, W
    <3>4. /\ ctx'[t] = d /\ ctx' \in [Thread -> Context]
          /\ \A u \in Thread \ {t} : ctx'[u] = ctx[u]
      BY <1>2, <1>5, <3>2, <3>3
    <3>5. cpu.esp \in Int /\ (cpu.esp - 5) + 5 = cpu.esp
      BY <1>5 DEF Registers
    <3>6. /\ kstack'.top = cpu.esp /\ kstack'.words = W
          /\ kstack' \in [top : Int, words : Seq(Int)]
      BY <3>2, <3>3, <3>5
    <3>7. KernelKept'
      BY <2>1, <2>3, <3>1, <3>2, <3>4, <3>5, <3>6 DEF KernelKept
    <3>8. Suspended(t)'
      BY <1>2, <2>1, <2>3, <3>2, <3>4, <3>7 DEF Suspended, GeneralKept, PlaceKept
    <3> QED  BY <2>3, <3>2, <3>4, <3>6, <3>8
  <2> QED  BY <1>2, <2>2, <2>3
<1>7. TypeOK'
  BY <1>2, <1>3, <1>4, <1>5, <1>6 DEF IInv, TypeOK
<1>8. Running' /\ Booting' /\ Mode'
  BY <1>3, <1>4, <1>6 DEF IInv, Running, Booting, Mode, Known
<1>9. AllSuspended'
  <2> SUFFICES ASSUME NEW u \in Known PROVE Suspended(u)'
    BY <1>3 DEF AllSuspended, Known
  <2>1. CASE u = t
    BY <1>6, <2>1
  <2>2. CASE u # t
    <3>1. u \in Thread /\ Suspended(u)
      BY <1>1, <1>3, <2>2, KnownThreads DEF IInv, AllSuspended
    <3>2. ctx'[u] = ctx[u] /\ saved'[u] = saved[u] /\ (u = KSetup => kstack' = kstack)
      BY <1>3, <1>5, <1>6, <2>2, <3>1
    <3> QED  BY <3>1, <3>2, StaysSuspended
  <2> QED  BY <2>1, <2>2
<1>10. HandlerSeesCause'
  <2>1. PlaceKept(t)'
    BY <1>6 DEF Suspended
  <2> QED  BY <1>3, <1>6, <2>1 DEF HandlerSeesCause, PlaceKept
<1> QED  BY <1>7, <1>8, <1>9, <1>10 DEF IInv

-----------------------------------------------------------------------------
(* Restoring                                                               *)

\* What restore_ctx puts together is what the thread was doing.
LEMMA RestoresAll ==
    ASSUME IInv, phase = "handle"
    PROVE  Restored = saved[curTh]
<1>1. PICK t \in Known : t = curTh
  BY DEF IInv, Running
<1>2. t \in Thread /\ (t = KSetup \/ t \in User)
  BY KnownThreads DEF IInv
<1>3. saved[t] \in Registers /\ Suspended(t)
  BY <1>2 DEF IInv, TypeOK, AllSuspended
<1>4. saved[t] = [seg |-> saved[t].seg, ebp |-> saved[t].ebp, esi |-> saved[t].esi,
                  eax |-> saved[t].eax, eip |-> saved[t].eip, cs |-> saved[t].cs,
                  flags |-> saved[t].flags, esp |-> saved[t].esp, ss |-> saved[t].ss]
  BY <1>3 DEF Registers
<1>5. CASE t \in User
  <2>1. ctx[t].cs # KernCs
    BY <1>3, <1>5 DEF Suspended, UserKept, UserCs, KernCs
  <2> QED  BY <1>1, <1>3, <1>4, <1>5, <2>1
           DEF Restored, Suspended, GeneralKept, PlaceKept, UserKept
<1>6. CASE t = KSetup
  <2>1. cpu.ss = KernDs
    BY DEF IInv, Mode
  <2> QED  BY <1>1, <1>3, <1>4, <1>6, <2>1
           DEF Restored, Suspended, GeneralKept, KernelKept
<1> QED  BY <1>2, <1>5, <1>6

LEMMA LeaveStep == IInv /\ Leave => IInv'
<1> SUFFICES ASSUME IInv, Leave PROVE IInv'
  OBVIOUS
<1>1. PICK t \in Known : t = curTh
  BY DEF Leave, IInv, Running
<1>2. /\ t \in Thread /\ (t = KSetup \/ t \in User) /\ KSetup \notin User
      /\ Suspended(t)
  BY KnownThreads DEF IInv, Leave, AllSuspended
<1>3. /\ phase = "handle" /\ phase' = "run" /\ cpu' = saved[t] /\ cpu' \in Registers
      /\ UNCHANGED <<curTh, esp0, ctx, kstack, created, saved>>
  BY <1>1, <1>2, RestoresAll DEF Leave, IInv, TypeOK
<1>4. /\ t = KSetup => cpu'.cs = KernCs /\ cpu'.ss = KernDs
      /\ t \in User => cpu'.cs = UserCs /\ cpu'.ss = UserDs
  BY <1>2, <1>3 DEF Suspended, PlaceKept, UserKept, KernelKept
<1>5. TypeOK' /\ Booting' /\ Running' /\ Mode' /\ HandlerSeesCause'
  BY <1>1, <1>3, <1>4 DEF IInv, TypeOK, Booting, Running, Mode, Known, HandlerSeesCause
<1>6. AllSuspended'
  BY <1>3, StaysSuspended DEF IInv, AllSuspended, Known
<1> QED  BY <1>5, <1>6 DEF IInv

-----------------------------------------------------------------------------
(* The other steps                                                         *)

\* A switch goes to a thread that waits, and saving will go where it is.
LEMMA SwitchStep ==
    ASSUME IInv, NEW t \in Thread, SwitchTo(t)
    PROVE  IInv'
<1>1. /\ phase = "handle" /\ phase' = "handle" /\ t \in Known
      /\ curTh' = t /\ esp0' = t
      /\ UNCHANGED <<cpu, ctx, kstack, cause, created, open, saved>>
  BY DEF SwitchTo, PrepareSwitch, Known
<1>2. TypeOK' /\ Booting' /\ Running' /\ Mode' /\ HandlerSeesCause'
  BY <1>1 DEF IInv, TypeOK, Booting, Running, Mode, Known, HandlerSeesCause
<1>3. AllSuspended'
  BY <1>1, StaysSuspended DEF IInv, AllSuspended, Known
<1> QED  BY <1>2, <1>3 DEF IInv

\* A message goes to registers only, of a user thread.
LEMMA DeliverStep ==
    ASSUME IInv, NEW t \in User, NEW r \in {"eax", "esi"}, Deliver(t, r)
    PROVE  IInv'
<1>1. PICK value : /\ value \in Val \cup {GetRegister(u, r) : u \in created}
                   /\ SetRegister(t, r, value)
  BY DEF Deliver
<1>2. /\ t \in Thread /\ t # KSetup /\ t \in created
      /\ ctx \in [Thread -> Context] /\ saved \in [Thread -> Registers]
  BY <1>1, EntryAssumption DEF Thread, SetRegister, IInv, TypeOK
<1>3. value \in Int
  <2>1. \A u \in created : ctx[u][r] \in Int
    BY DEF IInv, TypeOK, Thread, Context
  <2> QED  BY <1>1, <2>1, EntryAssumption DEF GetRegister
<1>4. /\ phase = "handle" /\ phase' = "handle"
      /\ ctx' = [ctx EXCEPT ![t] = [ctx[t] EXCEPT ![r] = value]]
      /\ saved' = [saved EXCEPT ![t] = [saved[t] EXCEPT ![r] = value]]
      /\ UNCHANGED <<cpu, curTh, esp0, kstack, cause, created, open>>
  BY <1>1 DEF SetRegister
<1> DEFINE c == [ctx[t] EXCEPT ![r] = value]
           g == [saved[t] EXCEPT ![r] = value]
<1>5. /\ c \in Context /\ g \in Registers
      /\ c.seg = ctx[t].seg /\ c.ebp = ctx[t].ebp /\ c.ret = ctx[t].ret /\ c.err = ctx[t].err
      /\ c.eip = ctx[t].eip /\ c.cs = ctx[t].cs /\ c.flags = ctx[t].flags
      /\ c.esp = ctx[t].esp /\ c.ss = ctx[t].ss
      /\ g.seg = saved[t].seg /\ g.ebp = saved[t].ebp
      /\ g.eip = saved[t].eip /\ g.cs = saved[t].cs /\ g.flags = saved[t].flags
      /\ g.esp = saved[t].esp /\ g.ss = saved[t].ss
  BY <1>2, <1>3 DEF Context, Registers
<1>6. /\ r = "eax" => /\ c.eax = value /\ g.eax = value
                      /\ c.esi = ctx[t].esi /\ g.esi = saved[t].esi
      /\ r = "esi" => /\ c.esi = value /\ g.esi = value
                      /\ c.eax = ctx[t].eax /\ g.eax = saved[t].eax
  BY <1>2, <1>3 DEF Context, Registers
<1> HIDE DEF c, g
<1>7. /\ ctx' \in [Thread -> Context] /\ saved' \in [Thread -> Registers]
      /\ ctx'[t] = c /\ saved'[t] = g
      /\ \A u \in Thread \ {t} : ctx'[u] = ctx[u] /\ saved'[u] = saved[u]
  BY <1>2, <1>4, <1>5 DEF c, g
<1>8. ctx'[KSetup].ss = ctx[KSetup].ss
  BY <1>2, <1>7 DEF Thread
<1>9. TypeOK' /\ Booting' /\ Running' /\ Mode'
  BY <1>4, <1>7, <1>8 DEF IInv, TypeOK, Booting, Running, Mode, Known
<1>10. AllSuspended'
  <2> SUFFICES ASSUME NEW u \in Known PROVE Suspended(u)'
    BY <1>4 DEF AllSuspended, Known
  <2>1. u \in Thread /\ Suspended(u)
    BY <1>4, KnownThreads DEF IInv, AllSuspended
  <2>2. CASE u = t
    <3>1. GeneralKept(u) /\ PlaceKept(u) /\ UserKept(u)
      BY <2>1, <2>2 DEF Suspended
    <3>2. GeneralKept(u)' /\ PlaceKept(u)' /\ UserKept(u)'
      BY <1>5, <1>6, <1>7, <2>2, <3>1 DEF GeneralKept, PlaceKept, UserKept
    <3> QED  BY <1>2, <2>2, <3>2 DEF Suspended
  <2>3. CASE u # t
    BY <1>4, <1>7, <2>1, <2>3, StaysSuspended
  <2> QED  BY <2>2, <2>3
<1>11. HandlerSeesCause'
  <2>1. PICK u : u = cause.th
    OBVIOUS
  <2>2. /\ ctx[u].err = cause.code /\ ctx[u].ret = cause.vector
        /\ ctx[u].eip = saved[u].eip /\ ctx[u].cs = saved[u].cs
        /\ ctx[u].flags = saved[u].flags
    BY <1>4, <2>1 DEF IInv, HandlerSeesCause
  <2>3. /\ ctx'[u].err = ctx[u].err /\ ctx'[u].ret = ctx[u].ret
        /\ ctx'[u].eip = ctx[u].eip /\ ctx'[u].cs = ctx[u].cs
        /\ ctx'[u].flags = ctx[u].flags
        /\ saved'[u].eip = saved[u].eip /\ saved'[u].cs = saved[u].cs
        /\ saved'[u].flags = saved[u].flags
    <3>1. CASE u = t
      BY <1>5, <1>7, <3>1
    <3>2. CASE u # t
      BY <1>2, <1>4, <3>2
    <3> QED  BY <3>1, <3>2
  <2>4. cause' = cause
    BY <1>4
  <2> QED  BY <2>1, <2>2, <2>3, <2>4 DEF HandlerSeesCause
<1> QED  BY <1>9, <1>10, <1>11 DEF IInv

\* thread_setup makes ksetup_th the thread that runs, and no other is there.
LEMMA SetupStep == IInv /\ ThreadSetup => IInv'
<1> SUFFICES ASSUME IInv, ThreadSetup PROVE IInv'
  OBVIOUS
<1>1. /\ phase = "boot" /\ phase' = "run" /\ curTh' = KSetup
      /\ cpu' = [cpu EXCEPT !.flags = IF_]
      /\ ctx' = [ctx EXCEPT ![KSetup].ss = KernDs]
      /\ UNCHANGED <<esp0, kstack, cause, created, open, saved>>
  BY DEF ThreadSetup
<1>2. created = {} /\ cpu.cs = KernCs /\ cpu.ss = KernDs /\ KSetup \notin User
  BY <1>1, EntryAssumption DEF IInv, Booting
<1>3. cpu' \in Registers /\ cpu'.cs = KernCs /\ cpu'.ss = KernDs
  <2>1. cpu \in Registers /\ IF_ \in Int
    BY DEF IInv, TypeOK, IF_
  <2> QED  BY <1>1, <1>2, <2>1 DEF Registers
<1>4. ctx' \in [Thread -> Context] /\ ctx'[KSetup].ss = KernDs
  <2> DEFINE c == [ctx[KSetup] EXCEPT !.ss = KernDs]
  <2>1. ctx \in [Thread -> Context] /\ KSetup \in Thread /\ KernDs \in Int
    BY DEF IInv, TypeOK, Thread, KernDs
  <2>2. c \in Context /\ c.ss = KernDs
    BY <2>1 DEF Context
  <2>3. ctx' = [ctx EXCEPT ![KSetup] = c]
    BY <1>1
  <2> QED  BY <2>1, <2>2, <2>3
<1> QED  BY <1>1, <1>2, <1>3, <1>4
         DEF IInv, TypeOK, Booting, Running, Mode, AllSuspended, HandlerSeesCause, Known

\* A new thread waits where ctx_setup put it.
LEMMA CreateStep ==
    ASSUME IInv, NEW t \in User, ThreadCreate(t)
    PROVE  IInv'
<1>1. /\ phase = "run" /\ phase' = "run" /\ cpu.cs = KernCs /\ t \notin created
      /\ ctx' = [ctx EXCEPT ![t] = CtxSetup]
      /\ saved' = [saved EXCEPT ![t] = [f \in DOMAIN cpu |-> CtxSetup[f]]]
      /\ created' = created \cup {t}
      /\ UNCHANGED <<cpu, curTh, esp0, kstack, cause, open>>
  BY DEF ThreadCreate
<1>2. t \in Thread /\ t # KSetup /\ KSetup \in Thread /\ t # curTh
      /\ cpu \in Registers /\ ctx \in [Thread -> Context] /\ saved \in [Thread -> Registers]
  BY <1>1, EntryAssumption DEF Thread, IInv, TypeOK, Running, Known
<1> DEFINE g == [f \in DOMAIN cpu |-> CtxSetup[f]]
<1>3. CtxSetup \in Context /\ CtxSetup.cs = UserCs /\ CtxSetup.ss = UserDs
  <2>1. /\ <<0, UserDs>> \in Seg /\ Eip(0) \in Int /\ Stack(0) \in Int
        /\ UserCs \in Int /\ UserDs \in Int /\ Fake \in Int /\ IF_ \in Int
    BY DEF Seg, UserCs, UserDs, Fake, IF_, Eip, Stack
  <2>2. NoContext \in Context
    BY DEF NoContext, Context, Seg
  <2> QED  BY <2>1, <2>2 DEF CtxSetup, Context
<1>4. /\ g \in Registers
      /\ g.seg = CtxSetup.seg /\ g.ebp = CtxSetup.ebp /\ g.esi = CtxSetup.esi
      /\ g.eax = CtxSetup.eax /\ g.eip = CtxSetup.eip /\ g.cs = CtxSetup.cs
      /\ g.flags = CtxSetup.flags /\ g.esp = CtxSetup.esp /\ g.ss = CtxSetup.ss
  <2>1. DOMAIN cpu = {"seg", "ebp", "esi", "eax", "eip", "cs", "flags", "esp", "ss"}
    BY <1>2 DEF Registers
  <2>2. /\ g.seg = CtxSetup.seg /\ g.ebp = CtxSetup.ebp /\ g.esi = CtxSetup.esi
        /\ g.eax = CtxSetup.eax /\ g.eip = CtxSetup.eip /\ g.cs = CtxSetup.cs
        /\ g.flags = CtxSetup.flags /\ g.esp = CtxSetup.esp /\ g.ss = CtxSetup.ss
    BY <2>1
  <2>3. /\ CtxSetup.seg \in Seg /\ CtxSetup.ebp \in Int /\ CtxSetup.esi \in Int
        /\ CtxSetup.eax \in Int /\ CtxSetup.eip \in Int /\ CtxSetup.cs \in Int
        /\ CtxSetup.flags \in Int /\ CtxSetup.esp \in Int /\ CtxSetup.ss \in Int
    BY <1>3 DEF Context
  <2> QED  BY <2>1, <2>2, <2>3 DEF Registers
<1> HIDE DEF g
<1>5. /\ ctx' \in [Thread -> Context] /\ saved' \in [Thread -> Registers]
      /\ ctx'[t] = CtxSetup /\ saved'[t] = g
      /\ \A u \in Thread \ {t} : ctx'[u] = ctx[u] /\ saved'[u] = saved[u]
  BY <1>1, <1>2, <1>3, <1>4 DEF g
<1>6. TypeOK' /\ Booting' /\ Running' /\ Mode' /\ HandlerSeesCause'
  BY <1>1, <1>2, <1>5
     DEF IInv, TypeOK, Booting, Running, Mode, Known, HandlerSeesCause
<1>7. AllSuspended'
  <2> SUFFICES ASSUME NEW u \in Known \cup {t}, u # curTh PROVE Suspended(u)'
    BY <1>1 DEF AllSuspended, Known
  <2>1. CASE u = t
    BY <1>2, <1>3, <1>4, <1>5, <2>1
       DEF Suspended, GeneralKept, PlaceKept, UserKept
  <2>2. CASE u # t
    <3>1. u \in Thread /\ Suspended(u)
      BY <1>1, <2>2, KnownThreads DEF IInv, AllSuspended
    <3> QED  BY <1>1, <1>5, <2>2, <3>1, StaysSuspended
  <2> QED  BY <2>1, <2>2
<1> QED  BY <1>6, <1>7 DEF IInv

\* A thread that runs changes what nobody saved.
LEMMA ExecuteStep ==
    ASSUME IInv, NEW a \in Val, NEW s \in Val, NEW p \in Val, Execute(a, s, p)
    PROVE  IInv'
<1>1. a \in Int /\ s \in Int /\ p \in Int
  BY EntryAssumption
<1>2. /\ phase = "run" /\ phase' = "run"
      /\ UNCHANGED <<curTh, esp0, ctx, kstack, cause, created, open, saved>>
  BY DEF Execute
<1>3. cpu' \in Registers /\ cpu'.cs = cpu.cs /\ cpu'.ss = cpu.ss
  <2>1. PICK e \in Int : e = Eip(p)
    BY <1>1 DEF Eip
  <2>2. PICK k \in Int : k = IF cpu.cs = KernCs THEN Stack(7 + p) ELSE Stack(p)
    BY <1>1 DEF Stack
  <2>3. cpu' = [cpu EXCEPT !.eax = a, !.esi = s, !.ebp = p, !.eip = e, !.esp = k]
    BY <2>1, <2>2 DEF Execute
  <2> QED  BY <1>1, <2>3 DEF IInv, TypeOK, Registers
<1>4. TypeOK' /\ Booting' /\ Running' /\ Mode' /\ HandlerSeesCause'
  BY <1>2, <1>3 DEF IInv, TypeOK, Booting, Running, Mode, Known, HandlerSeesCause
<1>5. AllSuspended'
  BY <1>2, StaysSuspended DEF IInv, AllSuspended, Known
<1> QED  BY <1>4, <1>5 DEF IInv

\* A step that changes nothing of this, at most to halt.
LEMMA IdleStep ==
    ASSUME IInv, phase' \in {phase, "halted"},
           UNCHANGED <<cpu, curTh, esp0, ctx, kstack, cause, created, saved>>
    PROVE  IInv'
<1>1. TypeOK' /\ Booting' /\ Running' /\ Mode' /\ HandlerSeesCause'
  BY DEF IInv, TypeOK, Booting, Running, Mode, Known, HandlerSeesCause
<1>2. AllSuspended'
  BY StaysSuspended DEF IInv, AllSuspended, Known
<1> QED  BY <1>1, <1>2 DEF IInv

-----------------------------------------------------------------------------
(* The specification                                                       *)

LEMMA InitIInv == Init => IInv
<1> SUFFICES ASSUME Init PROVE IInv
  OBVIOUS
<1>1. /\ cpu \in Registers /\ cpu.cs = KernCs /\ cpu.ss = KernDs
      /\ NoContext \in Context
  BY DEF Init, Start, NoContext, Registers, Context, Seg, KernCs, KernDs, Eip, Stack
<1>2. kstack \in [top : Int, words : Seq(Int)]
  BY EmptySeq DEF Init
<1> QED  BY <1>1, <1>2
         DEF Init, IInv, TypeOK, Booting, Running, Mode, AllSuspended, HandlerSeesCause

LEMMA StepIInv == IInv /\ [Next]_vars => IInv'
<1> SUFFICES ASSUME IInv, [Next]_vars PROVE IInv'
  OBVIOUS
<1>1. CASE ThreadSetup
  BY <1>1, SetupStep
<1>2. CASE ClockSetup
  BY <1>2, IdleStep DEF ClockSetup
<1>3. ASSUME NEW t \in User, ThreadCreate(t) PROVE IInv'
  BY <1>3, CreateStep
<1>4. ASSUME NEW a \in Val, NEW s \in Val, NEW p \in Val, Execute(a, s, p) PROVE IInv'
  BY <1>4, ExecuteStep
<1>5. ASSUME NEW v \in Vector, Interrupt(v) PROVE IInv'
  <2>1. HasGate(v) /\ Fake \in Int
    BY <1>5 DEF Interrupt, HasGate, Fake
  <2> QED  BY <1>5, <2>1, EnterStep DEF Interrupt
<1>6. ASSUME NEW v \in Vector, SoftInt(v) PROVE IInv'
  <2>1. 8 * v + 2 \in Int /\ Fake \in Int /\ HasGate(11) /\ HasGate(13)
    BY EntryAssumption DEF Fake, HasGate
  <2> QED  BY <1>6, <2>1, EnterStep DEF SoftInt
<1>7. ASSUME NEW v \in Vector, NEW code \in Code, Exception(v, code) PROVE IInv'
  <2>1. code \in Int
    BY EntryAssumption
  <2> QED  BY <1>7, <2>1, EnterStep DEF Exception
<1>8. ASSUME NEW t \in Thread, SwitchTo(t) PROVE IInv'
  BY <1>8, SwitchStep
<1>9. ASSUME NEW t \in User, NEW r \in {"eax", "esi"}, Deliver(t, r) PROVE IInv'
  BY <1>9, DeliverStep
<1>10. CASE Halt
  BY <1>10, IdleStep DEF Halt
<1>11. CASE Leave
  BY <1>11, LeaveStep
<1>12. CASE UNCHANGED vars
  BY <1>12, IdleStep DEF vars
<1> QED  BY <1>1, <1>2, <1>3, <1>4, <1>5, <1>6, <1>7, <1>8, <1>9, <1>10, <1>11, <1>12
         DEF Next

\* Whatever was interrupted and whoever pushed the error code, the handler
\* finds it, and where, in the context of the thread interrupted.
THEOREM CauseCorrect == Spec => []HandlerSeesCause
<1>1. IInv => HandlerSeesCause
  BY DEF IInv
<1> QED  BY <1>1, InitIInv, StepIInv, PTL DEF Spec

\* Whichever thread is gone back to finds its registers as it left them, but
\* those a message was put into: the kernel's thread as well, although its
\* context is a copy of what is on a stack.
THEOREM ResumesCorrect == Spec => ResumesWhereInterrupted
<1>1. IInv => [Leave => cpu' = saved[curTh]]_vars
  BY RestoresAll DEF Leave
<1> QED  BY <1>1, InitIInv, StepIInv, PTL DEF Spec, ResumesWhereInterrupted

-----------------------------------------------------------------------------
(* Segments                                                                *)

\* What create_seg_desc takes apart the processor puts together again: the
\* base, and the last address, or that of its page where it counts pages.
Reaches(d, base, size) ==
    LET last == Decremented(size) IN
    /\ BaseOf(d) = base
    /\ LastOf(d) = IF last.hi >= 16
                   THEN [hi |-> last.hi, lo |-> (last.lo \div 4096) * 4096 + 4095]
                   ELSE last

LEMMA Halves == \A h : h \in Half <=> h \in Nat /\ h < 65536
BY DEF Half

LEMMA WordHalves ==
    ASSUME NEW w \in Word32
    PROVE  w.hi \in Half /\ w.lo \in Half /\ w = [hi |-> w.hi, lo |-> w.lo]
BY DEF Word32

LEMMA DecrementedWord ==
    ASSUME NEW w \in Word32
    PROVE  Decremented(w) \in Word32
<1>1. CASE w.lo > 0
  <2>1. w.lo - 1 \in Half
    BY <1>1, WordHalves, Halves
  <2> QED  BY <1>1, <2>1, WordHalves DEF Decremented, Word32
<1>2. CASE ~ (w.lo > 0)
  <2>1. (w.hi + 65535) % 65536 \in Half /\ 65535 \in Half
    BY WordHalves, Halves
  <2> QED  BY <1>2, <2>1 DEF Decremented, Word32
<1> QED  BY <1>1, <1>2

\* The two parts of a half at bit 12.
LEMMA HalfParts ==
    ASSUME NEW h \in Half
    PROVE  \E u, r \in Nat : /\ u < 16 /\ r < 4096
                             /\ h = u * 4096 + r /\ u = h \div 4096
<1>1. h \in Nat /\ h < 65536
  BY Halves
<1>2. h \div 4096 \in Nat /\ h % 4096 \in Nat /\ h \div 4096 < 16 /\ h % 4096 < 4096
  BY <1>1
<1>3. h = (h \div 4096) * 4096 + (h % 4096)
  BY <1>1
<1> QED  BY <1>2, <1>3

LEMMA SegDescReaches ==
    ASSUME NEW base \in Word32, NEW size \in Word32, NEW width \in {0, 64}, NEW attributes
    PROVE  /\ Reaches(SegDesc(base, size, width, attributes), base, size)
           /\ SegDesc(base, size, width, attributes).attributes = attributes
<1> DEFINE last == Decremented(size)
           d == SegDesc(base, size, width, attributes)
<1>1. last.hi \in Half /\ last.lo \in Half /\ last = [hi |-> last.hi, lo |-> last.lo]
  BY DecrementedWord, WordHalves
<1>2. base.hi \in Half /\ base = [hi |-> base.hi, lo |-> base.lo]
  BY WordHalves
<1>3. /\ d.base_low = base.lo /\ d.base_middle = base.hi % 256
      /\ d.base_high = base.hi \div 256 /\ d.attributes = attributes
      /\ d.limit_low = IF last.hi >= 16
                       THEN (last.hi * 16 + last.lo \div 4096) % 65536 ELSE last.lo
      /\ d.granularity = width + IF last.hi >= 16 THEN 128 + last.hi \div 4096 ELSE last.hi
  BY DEF SegDesc
<1> HIDE DEF last, d
<1>4. BaseOf(d) = base
  <2>1. (base.hi \div 256) * 256 + (base.hi % 256) = base.hi
    BY <1>2, Halves
  <2> QED  BY <1>2, <1>3, <2>1 DEF BaseOf
<1>5. ASSUME last.hi >= 16
      PROVE  LastOf(d) = [hi |-> last.hi, lo |-> (last.lo \div 4096) * 4096 + 4095]
  <2>1. PICK u, r \in Nat : /\ u < 16 /\ r < 4096
                            /\ last.hi = u * 4096 + r /\ u = last.hi \div 4096
    BY <1>1, HalfParts
  <2>2. PICK v, x \in Nat : /\ v < 16 /\ x < 4096
                            /\ last.lo = v * 4096 + x /\ v = last.lo \div 4096
    BY <1>1, HalfParts
  <2>3. d.granularity = width + 128 + u
    BY <1>3, <1>5, <2>1
  <2>4. d.granularity % 16 = u /\ d.granularity \div 128 = 1
    BY <2>1, <2>3
  <2>5. d.limit_low = (u * 65536 + (r * 16 + v)) % 65536
    BY <1>3, <1>5, <2>1, <2>2
  <2>6. r * 16 + v \in Nat /\ r * 16 + v < 65536
    BY <2>1, <2>2
  <2>7. d.limit_low = r * 16 + v
    BY <2>1, <2>5, <2>6
  <2>8. d.limit_low \div 16 = r /\ d.limit_low % 16 = v
    BY <2>1, <2>2, <2>7
  <2>9. (d.granularity % 16) * 4096 + d.limit_low \div 16 = last.hi
    BY <2>1, <2>4, <2>8
  <2> QED  BY <2>2, <2>4, <2>8, <2>9 DEF LastOf
<1>6. ASSUME ~ (last.hi >= 16)
      PROVE  LastOf(d) = last
  <2>1. last.hi \in Nat /\ last.hi < 16
    BY <1>1, <1>6, Halves
  <2>2. d.granularity = width + last.hi /\ d.limit_low = last.lo
    BY <1>3, <1>6
  <2>3. d.granularity % 16 = last.hi /\ d.granularity \div 128 = 0
    BY <2>1, <2>2
  <2> QED  BY <1>1, <2>2, <2>3 DEF LastOf
<1>7. Reaches(d, base, size)
  BY <1>4, <1>5, <1>6 DEF Reaches, last
<1> QED  BY <1>3, <1>7 DEF d

\* For every base and size, the size 0 that stands for 4 GB among them, the
\* processor reads from a descriptor of create_code_seg, create_data_seg or
\* create_tss_seg the base, the size, in pages from 1 MB on, and the level
\* it was made with (vm_segment.c:289-439).
THEOREM DescriptorsCorrect ==
    ASSUME NEW base \in Word32, NEW size \in Word32, NEW dpl \in 0..3,
           NEW d \in {CodeSeg(base, size, dpl), DataSeg(base, size, dpl), TssSeg(base, size, dpl)}
    PROVE  Reaches(d, base, size) /\ LevelOf(d) = dpl /\ Present(d)
<1>1. /\ Reaches(d, base, size)
      /\ d.attributes \in {dpl * 32 + 154, dpl * 32 + 146, dpl * 32 + 137}
  BY SegDescReaches DEF CodeSeg, DataSeg, TssSeg
<1>2. d.attributes \div 128 = 1 /\ (d.attributes \div 32) % 4 = dpl
  BY <1>1
<1> QED  BY <1>1, <1>2 DEF LevelOf, Present

\* A code and a stack segment of a level that span all of memory.
LEMMA FlatRuns ==
    ASSUME NEW tss \in Word32, NEW size \in Word32
    PROVE  Runnable(Gdt(tss, size), KernCs, KernDs) /\ Runnable(Gdt(tss, size), UserCs, UserDs)
<1> DEFINE gdt == Gdt(tss, size)
           flat(d) == BaseOf(d) = Zero /\ LastOf(d) = [hi |-> 65535, lo |-> 65535]
<1>1. Zero \in Word32 /\ Decremented(Zero) = [hi |-> 65535, lo |-> 65535]
  <2>1. 0 \in Half
    BY Halves
  <2>2. (0 + 65535) % 65536 = 65535
    BY SMT
  <2> QED  BY SMT, <2>1, <2>2 DEF Zero, Word32, Decremented
<1>2. \A d : Reaches(d, Zero, Zero) => flat(d)
  BY <1>1 DEF Reaches
<1>3. /\ gdt[1] = CodeSeg(Zero, Zero, 0) /\ gdt[2] = DataSeg(Zero, Zero, 0)
      /\ gdt[3] = CodeSeg(Zero, Zero, 3) /\ gdt[4] = DataSeg(Zero, Zero, 3)
      /\ DOMAIN gdt = 1..5
  BY DEF Gdt
<1> HIDE DEF gdt
<1>4. /\ \A i \in 1..4 : flat(gdt[i]) /\ Present(gdt[i])
      /\ \A i \in 1..2 : LevelOf(gdt[i]) = 0
      /\ \A i \in 3..4 : LevelOf(gdt[i]) = 3
  <2> HIDE DEF flat
  <2>1. /\ flat(gdt[1]) /\ Present(gdt[1]) /\ LevelOf(gdt[1]) = 0
        /\ flat(gdt[2]) /\ Present(gdt[2]) /\ LevelOf(gdt[2]) = 0
    BY <1>1, <1>2, <1>3, DescriptorsCorrect
  <2>2. /\ flat(gdt[3]) /\ Present(gdt[3]) /\ LevelOf(gdt[3]) = 3
        /\ flat(gdt[4]) /\ Present(gdt[4]) /\ LevelOf(gdt[4]) = 3
    BY <1>1, <1>2, <1>3, DescriptorsCorrect
  <2> QED  BY <2>1, <2>2
<1>5. \A dpl \in {0, 3} : /\ CodeSeg(Zero, Zero, dpl).attributes = dpl * 32 + 154
                           /\ DataSeg(Zero, Zero, dpl).attributes = dpl * 32 + 146
  BY <1>1, SegDescReaches DEF CodeSeg, DataSeg
<1>6. Executable(gdt[1]) /\ Executable(gdt[3]) /\ Writable(gdt[2]) /\ Writable(gdt[4])
  BY <1>3, <1>5 DEF Executable, Writable
<1>7. /\ KernCs \div 8 = 1 /\ KernDs \div 8 = 2 /\ UserCs \div 8 = 3 /\ UserDs \div 8 = 4
      /\ KernCs % 4 = 0 /\ KernDs % 4 = 0 /\ UserCs % 4 = 3 /\ UserDs % 4 = 3
  BY DEF KernCs, KernDs, UserCs, UserDs
<1>8. Runnable(gdt, KernCs, KernDs)
  BY <1>3, <1>4, <1>6, <1>7 DEF Runnable
<1>9. Runnable(gdt, UserCs, UserDs)
  BY <1>3, <1>4, <1>6, <1>7 DEF Runnable
<1> QED  BY <1>8, <1>9 DEF gdt

\* Whatever restore_ctx goes back to, and wherever a handler returns, the
\* selectors name descriptors of the level they ask for, of a code segment
\* and of a writable stack that span all of memory: iretd faults at neither
\* (x86_const.h:91-99 against vm_segment.c:255-260).
THEOREM SegmentsLoad ==
    Spec => [](phase = "run" => \A tss, size \in Word32 : Runnable(Gdt(tss, size), cpu.cs, cpu.ss))
<1> DEFINE Fits == phase = "run" => \A tss, size \in Word32 : Runnable(Gdt(tss, size), cpu.cs, cpu.ss)
<1>1. IInv => Fits
  BY FlatRuns DEF IInv, TypeOK, Running, Mode, Known
<1> QED  BY <1>1, InitIInv, StepIInv, PTL DEF Spec

-----------------------------------------------------------------------------
(* The masks of the interrupt controller                                   *)

\* What a call under way has read of a mask is what the chip still holds,
\* but for lines that a handler opened in between.
Agrees(l, read) ==
    /\ Chip(l) = "slave"  => read = Bit
    /\ Chip(l) = "master" => \A m \in Bit \ lost : m \in read <=> m \in imr["master"]

ChangeOK ==
    \/ change = NoChange
    \/ change \in [kind : ListChange, line : Line, node : Node, step : Nat]
    \/ change \in [kind : {"enable"}, line : Line]
    \/ /\ change \in [kind : {"enabled", "disabled"}, line : Line, read : SUBSET Bit]
       /\ Agrees(change.line, change.read)

\* The mask of the slave stays what pic_setup made it, whatever is called.
IrqTypeOK ==
    /\ imr \in [master : SUBSET Bit, slave : {Bit}]
    /\ opened \subseteq Line \cup {2}
    /\ ChangeOK

IrqInv == IrqTypeOK /\ MasksFollowCalls

LEMMA IrqInvInit == IrqInit => IrqInv
BY IrqAssumption DEF IrqInit, IrqInv, IrqTypeOK, ChangeOK, MasksFollowCalls, NoChange, Bit

LEMMA ChipOf ==
    ASSUME NEW l \in Line
    PROVE  \/ Chip(l) = "master" /\ l \in Bit
           \/ Chip(l) = "slave" /\ l \notin Bit
BY IrqAssumption DEF Chip, Bit

\* The mask of a chip after line l was enabled or disabled.
LEMMA MaskWritten ==
    ASSUME IrqInv, NEW l \in Line, NEW kind, NEW read \in SUBSET Bit,
           Agrees(l, read), SetMask(kind, l, read), lost \ {l} \subseteq lost'
    PROVE  /\ imr' \in [master : SUBSET Bit, slave : {Bit}]
           /\ MasksFollowCalls' /\ opened' \subseteq Line \cup {2}
<1>1. opened' = opened \cup {l} \/ opened' = opened \ {l}
  BY DEF SetMask
<1>2. CASE Chip(l) = "master" /\ l \in Bit
  <2>1. imr' \in [master : SUBSET Bit, slave : {Bit}]
    BY <1>2 DEF IrqInv, IrqTypeOK, SetMask, Unmasked, Masked
  <2>2. ASSUME NEW m \in Bit \ lost' PROVE m \in opened' <=> m \notin imr'["master"]
    <3>1. m = l \/ (m \notin lost /\ m # l)
      OBVIOUS
    <3>2. (kind = "enabled" => imr'["master"] = read \ {l} /\ opened' = opened \cup {l})
          /\ (kind # "enabled" => imr'["master"] = (read \cup {l}) \cap Bit /\ opened' = opened \ {l})
      BY <1>2 DEF IrqInv, IrqTypeOK, SetMask, Unmasked, Masked
    <3>3. m \notin lost => (m \in read <=> m \in imr["master"]) /\ (m \in opened <=> m \notin imr["master"])
      BY <1>2 DEF Agrees, IrqInv, MasksFollowCalls
    <3> QED  BY <3>1, <3>2, <3>3
  <2> QED  BY <1>1, <2>1, <2>2 DEF IrqInv, IrqTypeOK, MasksFollowCalls
<1>3. CASE Chip(l) = "slave" /\ l \notin Bit
  <2>1. imr' = imr
    BY <1>3 DEF IrqInv, IrqTypeOK, SetMask, Unmasked, Masked, Agrees
  <2>2. Bit \ lost' \subseteq Bit \ lost
    BY <1>3
  <2> QED  BY <1>1, <1>3, <2>1, <2>2 DEF IrqInv, IrqTypeOK, MasksFollowCalls
<1> QED  BY <1>2, <1>3, ChipOf

LEMMA IrqInvStep == IrqInv /\ [IrqNext]_irqVars => IrqInv'
<1> SUFFICES ASSUME IrqInv, [IrqNext]_irqVars PROVE IrqInv'
  OBVIOUS
<1>1. ASSUME UNCHANGED <<imr, opened, lost>>, ChangeOK' PROVE IrqInv'
  BY <1>1 DEF IrqInv, IrqTypeOK, MasksFollowCalls
<1>2. ASSUME UNCHANGED <<imr, opened, lost, change>> PROVE IrqInv'
  BY <1>1, <1>2 DEF IrqInv, IrqTypeOK, ChangeOK, Agrees
<1>3. CASE Statement
  <2>1. change \in [kind : ListChange, line : Line, node : Node, step : Nat]
    BY <1>3 DEF Statement, IrqInv, IrqTypeOK, ChangeOK, NoChange, ListChange
  <2>2. ChangeOK'
    BY <1>3, <2>1 DEF Statement, ChangeOK
  <2> QED  BY <1>1, <1>3, <2>2 DEF Statement
<1>4. CASE Write
  <2>1. /\ change \in [kind : {"enabled", "disabled"}, line : Line, read : SUBSET Bit]
        /\ Agrees(change.line, change.read)
    BY <1>4 DEF Write, IrqInv, IrqTypeOK, ChangeOK, NoChange, ListChange
  <2>2. /\ SetMask(change.kind, change.line, change.read)
        /\ lost' = lost \ {change.line} /\ change' = NoChange
    BY <1>4 DEF Write
  <2>3. /\ imr' \in [master : SUBSET Bit, slave : {Bit}]
        /\ MasksFollowCalls' /\ opened' \subseteq Line \cup {2}
    <3>1. PICK l \in Line : l = change.line
      BY <2>1
    <3>2. PICK read \in SUBSET Bit : read = change.read
      BY <2>1
    <3> QED  BY <2>1, <2>2, <3>1, <3>2, MaskWritten
  <2> QED  BY <2>2, <2>3 DEF IrqInv, IrqTypeOK, ChangeOK
<1>5. CASE FlihReturns
  BY <1>2, <1>5 DEF FlihReturns
<1>6. ASSUME NEW l \in Line, HwInt(l) PROVE IrqInv'
  BY <1>2, <1>6 DEF HwInt
<1>7. ASSUME NEW l \in Line, NEW kind \in {"enabled", "disabled"}, Read(kind, l) PROVE IrqInv'
  <2>1. imr[Chip(l)] \in SUBSET Bit /\ Agrees(l, imr[Chip(l)])
    BY DEF Chip, Agrees, IrqInv, IrqTypeOK
  <2>2. ChangeOK'
    <3>1. change' \in [kind : {"enabled", "disabled"}, line : Line, read : SUBSET Bit]
      BY <1>7, <2>1 DEF Read
    <3>2. change'.line = l /\ change'.read = imr[Chip(l)] /\ UNCHANGED <<imr, lost>>
      BY <1>7 DEF Read
    <3> QED  BY <2>1, <3>1, <3>2 DEF ChangeOK, Agrees
  <2> QED  BY <1>1, <1>7, <2>2 DEF Read
<1>8. ASSUME NEW l \in Line, NEW e \in Node, BeginAdd(l, e) PROVE IrqInv'
  <2>1. ChangeOK'
    BY <1>8 DEF BeginAdd, AddKind, ChangeOK, ListChange
  <2> QED  BY <1>1, <1>8, <2>1 DEF BeginAdd
<1>9. ASSUME NEW l \in Line, NEW e \in Node, BeginRemove(l, e) PROVE IrqInv'
  <2>1. ChangeOK'
    BY <1>9 DEF BeginRemove, ChangeOK, ListChange
  <2> QED  BY <1>1, <1>9, <2>1 DEF BeginRemove
<1>10. ASSUME NEW l \in Line, NEW e \in Node, FlihAdds(l, e) PROVE IrqInv'
  <2>1. /\ SetMask("enabled", l, imr[Chip(l)])
        /\ change' = change /\ change.kind \notin ListChange
        /\ lost' = IF Overlaps(l) THEN lost \cup {l} ELSE lost \ {l}
    BY <1>10 DEF FlihAdds
  <2>2. imr[Chip(l)] \in SUBSET Bit /\ Agrees(l, imr[Chip(l)])
    BY DEF Chip, Agrees, IrqInv, IrqTypeOK
  <2>3. /\ imr' \in [master : SUBSET Bit, slave : {Bit}]
        /\ MasksFollowCalls' /\ opened' \subseteq Line \cup {2}
    <3>1. PICK kind : kind = "enabled"
      OBVIOUS
    <3>2. lost \ {l} \subseteq lost'
      BY <2>1
    <3> QED  BY <2>1, <2>2, <3>1, <3>2, MaskWritten
  <2>4. ASSUME change \in [kind : {"enabled", "disabled"}, line : Line, read : SUBSET Bit],
               Agrees(change.line, change.read)
        PROVE  Agrees(change.line, change.read)'
    <3>1. CASE Chip(change.line) = "master"
      <4>1. \A m \in Bit \ {l} : m \in imr'["master"] <=> m \in imr["master"]
        BY <2>1 DEF IrqInv, IrqTypeOK, SetMask, Unmasked, Chip
      <4>2. ASSUME NEW m \in Bit \ lost' PROVE m # l /\ m \notin lost
        <5>1. m = l => Overlaps(l)
          BY <2>4, <3>1, ChipOf DEF Overlaps
        <5> QED  BY <2>1, <5>1
      <4> QED  BY <2>1, <2>4, <3>1, <4>1, <4>2 DEF Agrees
    <3>2. CASE Chip(change.line) = "slave"
      BY <2>1, <2>4, <3>2 DEF Agrees
    <3> QED  BY <3>1, <3>2 DEF Chip
  <2>5. ChangeOK'
    BY <2>1, <2>4 DEF ChangeOK, IrqInv, IrqTypeOK, ListChange
  <2> QED  BY <2>3, <2>5 DEF IrqInv, IrqTypeOK
<1>11. ASSUME NEW l \in Line, NEW e \in Node, FlihRemoves(l, e) PROVE IrqInv'
  BY <1>2, <1>11 DEF FlihRemoves
<1>12. CASE UNCHANGED irqVars
  BY <1>2, <1>12 DEF irqVars
<1> QED  BY <1>3, <1>4, <1>5, <1>6, <1>7, <1>8, <1>9, <1>10, <1>11, <1>12 DEF IrqNext

\* However calls and handlers interleave, a line of the master that is not
\* open just when the last call for it enabled it was opened by a handler
\* between the read and the write of a call for another line, and not called
\* for since: a value read is stale in such lines only.
THEOREM MasksCorrect == IrqSpec => []MasksFollowCalls
<1>1. IrqInv => MasksFollowCalls
  BY DEF IrqInv
<1> QED  BY <1>1, IrqInvInit, IrqInvStep, PTL DEF IrqSpec

-----------------------------------------------------------------------------
(* Rings, as pointers and as sequences                                     *)

\* What a position of a ring has beside it.
Succ(s, i) == IF i = Len(s) THEN 1 ELSE i + 1
Pred(s, i) == IF i = 1 THEN Len(s) ELSE i - 1

\* Pointers N lead forward, P back, through the nodes of s.
Follows(N, s)  == \A i \in 1..Len(s) : N[s[i]] = s[Succ(s, i)]
Precedes(P, s) == \A i \in 1..Len(s) : P[s[i]] = s[Pred(s, i)]

Once(s)  == \A i, j \in 1..Len(s) : s[i] = s[j] => i = j
Elems(s) == {s[i] : i \in 1..Len(s)}
Top(s)   == IF Len(s) = 0 THEN Null ELSE s[1]

Links == [Node -> Node \cup {Null}]

LEMMA Positions ==
    ASSUME NEW s \in Seq(Node), NEW i \in 1..Len(s)
    PROVE  /\ Len(s) \in Nat /\ s[i] \in Node
           /\ Succ(s, i) \in 1..Len(s) /\ Pred(s, i) \in 1..Len(s)
<1>1. Len(s) \in Nat /\ s[i] \in Node
  BY LenProperties, ElementOfSeq
<1> QED  BY <1>1 DEF Succ, Pred

\* A node at the tail.
LEMMA Longer ==
    ASSUME NEW s \in Seq(Node), NEW e \in Node
    PROVE  /\ Append(s, e) \in Seq(Node) /\ Len(Append(s, e)) = Len(s) + 1
           /\ \A i \in 1..Len(s) : Append(s, e)[i] = s[i]
           /\ Append(s, e)[Len(s) + 1] = e
           /\ Elems(Append(s, e)) = Elems(s) \cup {e}
           /\ Once(s) /\ e \notin Elems(s) => Once(Append(s, e))
<1> DEFINE t == Append(s, e)
<1>1. /\ t \in Seq(Node) /\ Len(t) = Len(s) + 1 /\ t[Len(s) + 1] = e
      /\ \A i \in 1..Len(s) : t[i] = s[i]
  OBVIOUS
<1>2. Len(s) \in Nat
  BY LenProperties
<1> HIDE DEF t
<1>3. Elems(t) = Elems(s) \cup {e}
  <2>1. \A i \in 1..Len(t) : i \in 1..Len(s) \/ i = Len(s) + 1
    BY <1>1, <1>2
  <2>2. \A i \in 1..Len(s) : i \in 1..Len(t)
    BY <1>1, <1>2
  <2>3. Len(s) + 1 \in 1..Len(t)
    BY <1>1, <1>2
  <2> QED  BY <1>1, <2>1, <2>2, <2>3 DEF Elems
<1>4. ASSUME Once(s), e \notin Elems(s) PROVE Once(t)
  <2> SUFFICES ASSUME NEW i \in 1..Len(t), NEW j \in 1..Len(t), t[i] = t[j] PROVE i = j
    BY DEF Once
  <2>1. (i \in 1..Len(s) \/ i = Len(s) + 1) /\ (j \in 1..Len(s) \/ j = Len(s) + 1)
    BY <1>1, <1>2
  <2>2. \A k \in 1..Len(s) : s[k] # e
    BY <1>4 DEF Elems
  <2> QED  BY <1>1, <1>4, <2>1, <2>2 DEF Once
<1> QED  BY <1>1, <1>3, <1>4 DEF t

\* A node taken out: those after it move up by one.
LEMMA Shorter ==
    ASSUME NEW s \in Seq(Node), NEW j \in 1..Len(s)
    PROVE  /\ RemoveAt(s, j) \in Seq(Node) /\ Len(RemoveAt(s, j)) = Len(s) - 1
           /\ \A i \in 1..(Len(s) - 1) :
                RemoveAt(s, j)[i] = IF i < j THEN s[i] ELSE s[i + 1]
           /\ Once(s) => /\ Elems(RemoveAt(s, j)) = Elems(s) \ {s[j]}
                         /\ Once(RemoveAt(s, j))
<1> DEFINE t == RemoveAt(s, j)
<1>1. /\ t \in Seq(Node) /\ Len(t) = Len(s) - 1
      /\ \A i \in 1..(Len(s) - 1) : t[i] = IF i < j THEN s[i] ELSE s[i + 1]
  BY RemoveAtElements
<1>2. Len(s) \in Nat
  BY LenProperties
<1> HIDE DEF t
<1>3. ASSUME Once(s) PROVE Elems(t) = Elems(s) \ {s[j]}
  <2>1. \A i \in 1..Len(t) : \E k \in 1..Len(s) : k # j /\ t[i] = s[k]
    BY <1>1, <1>2
  <2>2. ASSUME NEW k \in 1..Len(s), k # j PROVE \E i \in 1..Len(t) : t[i] = s[k]
    <3>1. CASE k < j
      BY <1>1, <1>2, <3>1
    <3>2. CASE k > j
      <4>1. k - 1 \in 1..Len(t) /\ t[k - 1] = s[k]
        BY <1>1, <1>2, <3>2
      <4> QED  BY <4>1
    <3> QED  BY <1>2, <2>2, <3>1, <3>2
  <2>3. \A k \in 1..Len(s) : s[k] = s[j] <=> k = j
    BY <1>3 DEF Once
  <2>4. \A x : x \in Elems(t) <=> \E i \in 1..Len(t) : x = t[i]
    BY DEF Elems
  <2>5. \A x : x \in Elems(s) <=> \E i \in 1..Len(s) : x = s[i]
    BY DEF Elems
  <2>6. Elems(t) \subseteq Elems(s) \ {s[j]}
    BY <2>1, <2>3, <2>4, <2>5
  <2>7. Elems(s) \ {s[j]} \subseteq Elems(t)
    BY <2>2, <2>4, <2>5
  <2> QED  BY <2>6, <2>7
<1>4. ASSUME Once(s) PROVE Once(t)
  <2> SUFFICES ASSUME NEW i \in 1..Len(t), NEW k \in 1..Len(t), t[i] = t[k] PROVE i = k
    BY DEF Once
  <2> DEFINE From(n) == IF n < j THEN n ELSE n + 1
  <2>1. /\ From(i) \in 1..Len(s) /\ From(k) \in 1..Len(s)
        /\ t[i] = s[From(i)] /\ t[k] = s[From(k)]
    BY <1>1, <1>2
  <2>2. From(i) = From(k)
    BY <1>4, <2>1 DEF Once
  <2> QED  BY <1>2, <2>2
<1> QED  BY <1>1, <1>3, <1>4 DEF t

\* Two statements of LLIST_ADD: the forward ring through e is closed by the
\* third, the backward one by the fourth.
LEMMA LongerRing ==
    ASSUME NEW s \in Seq(Node), Len(s) # 0, Once(s), NEW e \in Node, e \notin Elems(s),
           NEW N \in Links
    PROVE  /\ Follows(N, s) /\ N[e] = s[1] =>
                Follows([N EXCEPT ![s[Len(s)]] = e], Append(s, e))
           /\ Precedes(N, s) /\ N[e] = s[Len(s)] =>
                Precedes([N EXCEPT ![s[1]] = e], Append(s, e))
<1> DEFINE t == Append(s, e)
           n == Len(s)
<1>1. /\ Len(t) = n + 1 /\ t[n + 1] = e
      /\ \A i \in 1..n : t[i] = s[i]
  BY Longer
<1>2. n \in Nat /\ n > 0
  BY LenProperties
<1>3. \A i \in 1..n : s[i] \in Node /\ s[i] # e
  BY Positions DEF Elems
<1>4. \A i, j \in 1..n : s[i] = s[j] => i = j
  BY DEF Once
<1>5. 1 \in 1..n /\ n \in 1..n
  BY <1>2
<1>6. ASSUME Follows(N, s), N[e] = s[1] PROVE Follows([N EXCEPT ![s[n]] = e], t)
  <2> DEFINE M == [N EXCEPT ![s[n]] = e]
  <2>1. \A i \in 1..n : N[s[i]] = IF i = n THEN s[1] ELSE s[i + 1]
    BY <1>6 DEF Follows, Succ
  <2>2. \A i \in 1..n : M[s[i]] = IF i = n THEN e ELSE s[i + 1]
    BY <1>3, <1>4, <1>5, <2>1 DEF Links
  <2>3. M[e] = s[1]
    BY <1>3, <1>5, <1>6 DEF Links
  <2> HIDE DEF M, t, n
  <2>4. ASSUME NEW i \in 1..(n + 1) PROVE M[t[i]] = IF i = n + 1 THEN t[1] ELSE t[i + 1]
    <3>1. CASE i = n + 1
      BY <1>1, <1>5, <2>3, <3>1
    <3>2. CASE i = n
      BY <1>1, <1>2, <1>5, <2>2, <3>2
    <3>3. CASE i \in 1..n /\ i # n
      <4>1. i + 1 \in 1..n
        BY <1>2, <3>3
      <4> QED  BY <1>1, <1>2, <2>2, <3>3, <4>1
    <3> QED  BY <1>2, <3>1, <3>2, <3>3
  <2> QED  BY <1>1, <2>4 DEF Follows, Succ, M
<1>7. ASSUME Precedes(N, s), N[e] = s[n] PROVE Precedes([N EXCEPT ![s[1]] = e], t)
  <2> DEFINE M == [N EXCEPT ![s[1]] = e]
  <2>1. \A i \in 1..n : N[s[i]] = IF i = 1 THEN s[n] ELSE s[i - 1]
    BY <1>7 DEF Precedes, Pred
  <2>2. \A i \in 1..n : M[s[i]] = IF i = 1 THEN e ELSE s[i - 1]
    BY <1>3, <1>4, <1>5, <2>1 DEF Links
  <2>3. M[e] = s[n]
    BY <1>3, <1>5, <1>7 DEF Links
  <2> HIDE DEF M, t, n
  <2>4. ASSUME NEW i \in 1..(n + 1) PROVE M[t[i]] = IF i = 1 THEN t[n + 1] ELSE t[i - 1]
    <3>1. CASE i = n + 1
      BY <1>1, <1>2, <1>5, <2>3, <3>1
    <3>2. CASE i = 1
      BY <1>1, <1>2, <1>5, <2>2, <3>2
    <3>3. CASE i \in 1..n /\ i # 1
      <4>1. i - 1 \in 1..n
        BY <1>2, <3>3
      <4> QED  BY <1>1, <1>2, <2>2, <3>3, <4>1
    <3> QED  BY <1>2, <3>1, <3>2, <3>3
  <2> QED  BY <1>1, <2>4 DEF Precedes, Pred, M
<1> QED  BY <1>6, <1>7

\* Two of LLIST_REMOVE: each closes one of the rings without the node.
LEMMA ShorterRing ==
    ASSUME NEW s \in Seq(Node), Once(s), NEW j \in 1..Len(s), NEW N \in Links
    PROVE  /\ Follows(N, s) =>
                Follows([N EXCEPT ![s[Pred(s, j)]] = s[Succ(s, j)]], RemoveAt(s, j))
           /\ Precedes(N, s) =>
                Precedes([N EXCEPT ![s[Succ(s, j)]] = s[Pred(s, j)]], RemoveAt(s, j))
<1> DEFINE t == RemoveAt(s, j)
           n == Len(s)
           From(i) == IF i < j THEN i ELSE i + 1
<1>1. /\ Len(t) = n - 1
      /\ \A i \in 1..(n - 1) : t[i] = s[From(i)] /\ From(i) \in 1..n /\ From(i) # j
  <2>1. n \in Nat
    BY LenProperties
  <2> QED  BY <2>1, Shorter
<1>2. n \in Nat /\ n > 0
  BY LenProperties
<1>3. \A i \in 1..n : s[i] \in Node /\ Succ(s, i) \in 1..n /\ Pred(s, i) \in 1..n
  BY Positions
<1>4. \A i, k \in 1..n : s[i] = s[k] => i = k
  BY DEF Once
<1>5. ASSUME Follows(N, s)
      PROVE  Follows([N EXCEPT ![s[Pred(s, j)]] = s[Succ(s, j)]], t)
  <2> DEFINE M == [N EXCEPT ![s[Pred(s, j)]] = s[Succ(s, j)]]
  <2>1. \A i \in 1..n : M[s[i]] = IF i = Pred(s, j) THEN s[Succ(s, j)] ELSE s[Succ(s, i)]
    BY <1>3, <1>4, <1>5 DEF Follows, Links
  <2> HIDE DEF M, t
  <2>2. ASSUME NEW i \in 1..(n - 1) PROVE M[t[i]] = IF i = n - 1 THEN t[1] ELSE t[i + 1]
    <3>1. IF From(i) = Pred(s, j)
          THEN Succ(s, j) = From(IF i = n - 1 THEN 1 ELSE i + 1)
          ELSE Succ(s, From(i)) = From(IF i = n - 1 THEN 1 ELSE i + 1)
      BY <1>2 DEF Succ, Pred
    <3>2. (IF i = n - 1 THEN 1 ELSE i + 1) \in 1..(n - 1)
      BY <1>2
    <3> HIDE DEF n, From
    <3>3. M[t[i]] = s[From(IF i = n - 1 THEN 1 ELSE i + 1)]
      BY <1>1, <2>1, <3>1
    <3> QED  BY <1>1, <3>2, <3>3
  <2> QED  BY <1>1, <2>2 DEF Follows, Succ, M
<1>6. ASSUME Precedes(N, s)
      PROVE  Precedes([N EXCEPT ![s[Succ(s, j)]] = s[Pred(s, j)]], t)
  <2> DEFINE M == [N EXCEPT ![s[Succ(s, j)]] = s[Pred(s, j)]]
  <2>1. \A i \in 1..n : M[s[i]] = IF i = Succ(s, j) THEN s[Pred(s, j)] ELSE s[Pred(s, i)]
    BY <1>3, <1>4, <1>6 DEF Precedes, Links
  <2> HIDE DEF M, t
  <2>2. ASSUME NEW i \in 1..(n - 1) PROVE M[t[i]] = IF i = 1 THEN t[n - 1] ELSE t[i - 1]
    <3>1. IF From(i) = Succ(s, j)
          THEN Pred(s, j) = From(IF i = 1 THEN n - 1 ELSE i - 1)
          ELSE Pred(s, From(i)) = From(IF i = 1 THEN n - 1 ELSE i - 1)
      BY <1>2 DEF Succ, Pred
    <3>2. (IF i = 1 THEN n - 1 ELSE i - 1) \in 1..(n - 1)
      BY <1>2
    <3> HIDE DEF n, From
    <3>3. M[t[i]] = s[From(IF i = 1 THEN n - 1 ELSE i - 1)]
      BY <1>1, <2>1, <3>1
    <3> QED  BY <1>1, <3>2, <3>3
  <2> QED  BY <1>1, <2>2 DEF Precedes, Pred, M
<1> QED  BY <1>5, <1>6

Lists == [head : [Line -> Node \cup {Null}], next : Links, prev : Links]

\* The line l of L is the ring s, of the nodes A.
Held(L, l, s, A) ==
    /\ Once(s) /\ Elems(s) = A
    /\ L.head[l] = Top(s)
    /\ Follows(L.next, s) /\ Precedes(L.prev, s)

\* What holds before statement k of LLIST_ADD of e to line l, which has no
\* node, to one that has, and of LLIST_REMOVE of e, which is at j in s. A are
\* the nodes that belong to l and are not e.
HalfFirst(L, l, s, A, e, k) ==
    /\ Len(s) = 0 /\ A = {}
    /\ L.head[l] = IF k = 1 THEN Null ELSE e
    /\ k = 3 => L.next[e] = e

HalfLast(L, l, s, A, e, k) ==
    /\ Once(s) /\ Len(s) # 0 /\ Elems(s) = A
    /\ L.head[l] = s[1]
    /\ Follows(L.next, IF k = 4 THEN Append(s, e) ELSE s)
    /\ Precedes(L.prev, s)
    /\ k > 1 => L.prev[e] = s[Len(s)]
    /\ k > 2 => L.next[e] = s[1]

HalfRemove(L, l, s, A, e, k, j) ==
    /\ Once(s) /\ s[j] = e /\ Elems(s) \ {e} = A
    /\ L.head[l] = s[1]
    /\ L.next[e] = s[Succ(s, j)] /\ L.prev[e] = s[Pred(s, j)]
    /\ Follows(L.next, IF k = 1 THEN s ELSE RemoveAt(s, j))
    /\ Precedes(L.prev, IF k = 3 THEN RemoveAt(s, j) ELSE s)

\* M differs from L in the head of line l and in the nodes B only.
Within(L, M, l, B) ==
    /\ M \in Lists
    /\ \A m \in Line \ {l} : M.head[m] = L.head[m]
    /\ \A x \in Node \ B : M.next[x] = L.next[x] /\ M.prev[x] = L.prev[x]

LEMMA OtherLines ==
    ASSUME NEW L, NEW M, NEW l \in Line, NEW B, Within(L, M, l, B),
           NEW m \in Line \ {l}, NEW s \in Seq(Node), NEW A, Held(L, m, s, A), A \cap B = {}
    PROVE  Held(M, m, s, A)
<1>1. \A i \in 1..Len(s) : s[i] \in Node \ B
  BY Positions DEF Held, Elems
<1> QED  BY <1>1 DEF Within, Held, Follows, Precedes

\* One pointer written.
LEMMA HeadWritten ==
    ASSUME NEW L \in Lists, NEW l \in Line, NEW y \in Node \cup {Null}
    PROVE  LET M == [L EXCEPT !.head[l] = y]
           IN  /\ M \in Lists /\ M.next = L.next /\ M.prev = L.prev
               /\ M.head[l] = y /\ \A m \in Line \ {l} : M.head[m] = L.head[m]
BY DEF Lists

LEMMA NextWritten ==
    ASSUME NEW L \in Lists, NEW x \in Node, NEW y \in Node
    PROVE  LET M == [L EXCEPT !.next[x] = y]
           IN  /\ M \in Lists /\ M.head = L.head /\ M.prev = L.prev
               /\ M.next = [L.next EXCEPT ![x] = y] /\ M.next[x] = y
               /\ \A z \in Node \ {x} : M.next[z] = L.next[z]
BY DEF Lists, Links

LEMMA PrevWritten ==
    ASSUME NEW L \in Lists, NEW x \in Node, NEW y \in Node
    PROVE  LET M == [L EXCEPT !.prev[x] = y]
           IN  /\ M \in Lists /\ M.head = L.head /\ M.next = L.next
               /\ M.prev = [L.prev EXCEPT ![x] = y] /\ M.prev[x] = y
               /\ \A z \in Node \ {x} : M.prev[z] = L.prev[z]
BY DEF Lists, Links

LEMMA FirstStatement ==
    ASSUME NEW L \in Lists, NEW l \in Line, NEW s \in Seq(Node), NEW A, NEW e \in Node,
           NEW k \in 1..3, HalfFirst(L, l, s, A, e, k),
           NEW M, M = LinkFirst(L, l, e, k), NEW n, n = k + 1
    PROVE  /\ Within(L, M, l, A \cup {e})
           /\ k < 3 => HalfFirst(M, l, s, A, e, n)
           /\ k = 3 => Held(M, l, Append(s, e), A \cup {e})
<1>1. CASE k = 1
  <2>1. M = [L EXCEPT !.head[l] = e]
    BY <1>1 DEF LinkFirst
  <2>2. /\ M \in Lists /\ M.next = L.next /\ M.prev = L.prev
        /\ M.head[l] = e /\ \A m \in Line \ {l} : M.head[m] = L.head[m]
    BY <2>1, HeadWritten
  <2> QED  BY <1>1, <2>2 DEF Within, HalfFirst
<1>2. CASE k = 2
  <2>1. M = [L EXCEPT !.next[e] = e]
    BY <1>2 DEF LinkFirst
  <2>2. /\ M \in Lists /\ M.head = L.head /\ M.prev = L.prev
        /\ M.next[e] = e /\ \A z \in Node \ {e} : M.next[z] = L.next[z]
    BY <2>1, NextWritten
  <2> QED  BY <1>2, <2>2 DEF Within, HalfFirst
<1>3. CASE k = 3
  <2>1. M = [L EXCEPT !.prev[e] = e]
    BY <1>3 DEF LinkFirst
  <2>2. /\ M \in Lists /\ M.head = L.head /\ M.next = L.next
        /\ M.prev[e] = e /\ \A z \in Node \ {e} : M.prev[z] = L.prev[z]
    BY <2>1, PrevWritten
  <2>3. Within(L, M, l, A \cup {e}) /\ M.head[l] = e /\ M.next[e] = e
    BY <1>3, <2>2 DEF Within, HalfFirst
  <2> DEFINE t == Append(s, e)
  <2>4. Len(s) = 0 /\ A = {}
    BY DEF HalfFirst
  <2>5. Elems(s) = {} /\ Once(s)
    BY <2>4 DEF Elems, Once
  <2>6. /\ Len(t) = Len(s) + 1 /\ t[Len(s) + 1] = e
        /\ Elems(t) = Elems(s) \cup {e} /\ Once(t)
    BY <2>5, Longer
  <2> HIDE DEF t
  <2>7. Len(t) = 1 /\ t[1] = e /\ Elems(t) = A \cup {e} /\ Once(t)
    BY <2>4, <2>5, <2>6
  <2>8. Held(M, l, t, A \cup {e})
    BY <2>2, <2>3, <2>7 DEF Held, Top, Follows, Precedes, Succ, Pred
  <2> QED  BY <1>3, <2>3, <2>8 DEF t
<1> QED  BY <1>1, <1>2, <1>3

LEMMA LastStatement ==
    ASSUME NEW L \in Lists, NEW l \in Line, NEW s \in Seq(Node), NEW A, NEW e \in Node \ A,
           NEW k \in 1..4, HalfLast(L, l, s, A, e, k),
           NEW M, M = LinkLast(L, l, e, k), NEW n, n = k + 1
    PROVE  /\ Within(L, M, l, A \cup {e})
           /\ k < 4 => HalfLast(M, l, s, A, e, n)
           /\ k = 4 => Held(M, l, Append(s, e), A \cup {e})
<1> DEFINE t == Append(s, e)
<1>1. /\ Once(s) /\ Len(s) # 0 /\ Elems(s) = A /\ L.head[l] = s[1] /\ Precedes(L.prev, s)
      /\ e \notin Elems(s)
  BY DEF HalfLast
<1>2. Len(s) \in Nat /\ 1 \in 1..Len(s) /\ Len(s) \in 1..Len(s)
  BY <1>1, LenProperties
<1>3. \A i \in 1..Len(s) : s[i] \in A /\ s[i] \in Node /\ s[i] # e
  BY <1>1, Positions DEF Elems
<1>4. L.prev[s[1]] = s[Len(s)]
  BY <1>1, <1>2 DEF Precedes, Pred
<1>5. L.next \in Links /\ L.prev \in Links
  BY DEF Lists
<1>6. PICK x \in Node, y \in Node : x = s[1] /\ y = s[Len(s)] /\ x \in A /\ y \in A
  BY <1>2, <1>3
<1>7. /\ Follows(L.next, IF k = 4 THEN t ELSE s)
      /\ k > 1 => L.prev[e] = y
      /\ k > 2 => L.next[e] = x
  BY <1>6 DEF HalfLast
<1>8. \A N \in Links : /\ Follows(N, s) /\ N[e] = x => Follows([N EXCEPT ![y] = e], t)
                       /\ Precedes(N, s) /\ N[e] = y => Precedes([N EXCEPT ![x] = e], t)
  BY <1>1, <1>6, LongerRing
<1>9. Once(t) /\ Elems(t) = A \cup {e} /\ Len(t) # 0 /\ t[1] = x
  <2>1. /\ Len(t) = Len(s) + 1 /\ \A i \in 1..Len(s) : t[i] = s[i]
        /\ Elems(t) = Elems(s) \cup {e} /\ Once(t)
    BY <1>1, Longer
  <2> HIDE DEF t
  <2> QED  BY <1>1, <1>2, <1>6, <2>1
<1> HIDE DEF t
<1>10. CASE k = 1
  <2>1. M = [L EXCEPT !.prev[e] = y]
    BY <1>1, <1>4, <1>6, <1>10 DEF LinkLast
  <2>2. /\ M \in Lists /\ M.head = L.head /\ M.next = L.next
        /\ M.prev[e] = y /\ \A z \in Node \ {e} : M.prev[z] = L.prev[z]
    BY <2>1, PrevWritten
  <2>3. Precedes(M.prev, s)
    BY <1>1, <1>3, <2>2 DEF Precedes
  <2>4. Follows(M.next, s)
    BY <1>7, <1>10, <2>2
  <2> QED  BY <1>1, <1>6, <1>10, <2>2, <2>3, <2>4 DEF HalfLast, Within
<1>11. CASE k = 2
  <2>1. M = [L EXCEPT !.next[e] = x]
    BY <1>1, <1>6, <1>11 DEF LinkLast
  <2>2. /\ M \in Lists /\ M.head = L.head /\ M.prev = L.prev
        /\ M.next[e] = x /\ \A z \in Node \ {e} : M.next[z] = L.next[z]
    BY <2>1, NextWritten
  <2>3. Follows(L.next, s) /\ L.prev[e] = y
    BY <1>7, <1>11
  <2>4. Follows(M.next, s)
    BY <1>3, <2>2, <2>3 DEF Follows
  <2> QED  BY <1>1, <1>6, <1>11, <2>2, <2>3, <2>4 DEF HalfLast, Within
<1>12. CASE k = 3
  <2>1. M = [L EXCEPT !.next[y] = e]
    BY <1>1, <1>4, <1>6, <1>12 DEF LinkLast
  <2>2. /\ M \in Lists /\ M.head = L.head /\ M.prev = L.prev
        /\ M.next = [L.next EXCEPT ![y] = e]
        /\ \A z \in Node \ {y} : M.next[z] = L.next[z]
    BY <2>1, NextWritten
  <2>3. Follows(L.next, s) /\ L.prev[e] = y /\ L.next[e] = x
    BY <1>7, <1>12
  <2>4. Follows(M.next, t)
    BY <1>5, <1>8, <2>2, <2>3
  <2>5. M.next[e] = x /\ \A z \in Node \ A : M.next[z] = L.next[z]
    BY <1>6, <2>2, <2>3
  <2> QED  BY <1>1, <1>6, <1>12, <2>2, <2>3, <2>4, <2>5 DEF HalfLast, Within, t
<1>13. CASE k = 4
  <2>1. M = [L EXCEPT !.prev[x] = e]
    BY <1>1, <1>6, <1>13 DEF LinkLast
  <2>2. /\ M \in Lists /\ M.head = L.head /\ M.next = L.next
        /\ M.prev = [L.prev EXCEPT ![x] = e]
        /\ \A z \in Node \ {x} : M.prev[z] = L.prev[z]
    BY <2>1, PrevWritten
  <2>3. Follows(L.next, t) /\ L.prev[e] = y
    BY <1>7, <1>13
  <2>4. Precedes(M.prev, t)
    BY <1>1, <1>5, <1>8, <2>2, <2>3
  <2>5. \A z \in Node \ A : M.prev[z] = L.prev[z]
    BY <1>6, <2>2
  <2>6. Held(M, l, t, A \cup {e})
    BY <1>1, <1>6, <1>9, <2>2, <2>3, <2>4 DEF Held, Top
  <2> QED  BY <1>13, <2>2, <2>5, <2>6 DEF Within, t
<1> QED  BY <1>10, <1>11, <1>12, <1>13

LEMMA RemoveStatement ==
    ASSUME NEW L \in Lists, NEW l \in Line, NEW s \in Seq(Node), NEW A, NEW e \in Node,
           NEW k \in 1..3, NEW j \in 1..Len(s), HalfRemove(L, l, s, A, e, k, j),
           NEW M, M = Unlink(L, l, e, k), NEW n, n = k + 1
    PROVE  /\ Within(L, M, l, A \cup {e})
           /\ k < 3 => HalfRemove(M, l, s, A, e, n, j)
           /\ k = 3 => Held(M, l, RemoveAt(s, j), A)
<1> DEFINE t == RemoveAt(s, j)
<1>1. Len(s) \in Nat /\ Len(s) > 0 /\ 1 \in 1..Len(s)
  BY LenProperties
<1>2. PICK a \in Node, b \in Node :
        /\ a = s[Succ(s, j)] /\ b = s[Pred(s, j)]
  BY Positions
<1>3. /\ Once(s) /\ s[j] = e /\ Elems(s) \ {e} = A /\ L.head[l] = s[1]
      /\ L.next[e] = a /\ L.prev[e] = b
      /\ Follows(L.next, IF k = 1 THEN s ELSE t)
      /\ Precedes(L.prev, IF k = 3 THEN t ELSE s)
  BY <1>2 DEF HalfRemove
<1>4. a \in A \cup {e} /\ b \in A \cup {e}
  <2>1. a \in Elems(s) /\ b \in Elems(s)
    BY <1>2, Positions DEF Elems
  <2> QED  BY <1>3, <2>1
<1>5. L.next \in Links /\ L.prev \in Links
  BY DEF Lists
<1>6. Len(s) = 1 <=> a = e
  <2>1. Succ(s, j) = j <=> Len(s) = 1
    <3>1. \A p \in Nat : \A i \in 1..p : (IF i = p THEN 1 ELSE i + 1) = i <=> p = 1
      OBVIOUS
    <3> QED  BY <1>1, <3>1 DEF Succ
  <2>2. s[Succ(s, j)] = s[j] <=> Succ(s, j) = j
    BY <1>3, Positions DEF Once
  <2> QED  BY <1>2, <1>3, <2>1, <2>2
<1>7. /\ Len(t) = Len(s) - 1 /\ Elems(t) = A /\ Once(t)
      /\ \A i \in 1..(Len(s) - 1) : t[i] = IF i < j THEN s[i] ELSE s[i + 1]
  BY <1>3, Shorter
<1>8. Top(t) = IF j # 1 THEN s[1] ELSE IF Len(s) = 1 THEN Null ELSE a
  <2> HIDE DEF t
  <2>1. CASE j # 1
    <3>1. Len(t) # 0 /\ t[1] = s[1]
      BY <1>1, <1>7, <2>1
    <3> QED  BY <2>1, <3>1 DEF Top
  <2>2. CASE j = 1 /\ Len(s) # 1
    <3>1. Len(t) # 0 /\ t[1] = s[2] /\ Succ(s, j) = 2
      BY <1>1, <1>7, <2>2 DEF Succ
    <3> QED  BY <1>2, <2>2, <3>1 DEF Top
  <2>3. CASE j = 1 /\ Len(s) = 1
    <3>1. Len(t) = 0
      BY <1>7, <2>3
    <3> QED  BY <2>3, <3>1 DEF Top
  <2> QED  BY <2>1, <2>2, <2>3
<1>9. \A N \in Links : /\ Follows(N, s) => Follows([N EXCEPT ![b] = a], t)
                       /\ Precedes(N, s) => Precedes([N EXCEPT ![a] = b], t)
  BY <1>2, <1>3, ShorterRing
<1> HIDE DEF t
<1>10. CASE k = 1
  <2>1. M = [L EXCEPT !.next[b] = a]
    BY <1>3, <1>10 DEF Unlink
  <2>2. /\ M \in Lists /\ M.head = L.head /\ M.prev = L.prev
        /\ M.next = [L.next EXCEPT ![b] = a] /\ M.next[b] = a
        /\ \A z \in Node \ {b} : M.next[z] = L.next[z]
    BY <2>1, NextWritten
  <2>3. Follows(M.next, t)
    BY <1>3, <1>5, <1>9, <1>10, <2>2
  <2>4. M.next[e] = a /\ \A z \in Node \ (A \cup {e}) : M.next[z] = L.next[z]
    BY <1>3, <1>4, <2>2
  <2>5. Precedes(M.prev, s)
    BY <1>3, <1>10, <2>2
  <2> QED  BY <1>2, <1>3, <1>10, <2>2, <2>3, <2>4, <2>5 DEF HalfRemove, Within, t
<1>11. CASE k = 2
  <2>1. M = [L EXCEPT !.prev[a] = b]
    BY <1>3, <1>11 DEF Unlink
  <2>2. /\ M \in Lists /\ M.head = L.head /\ M.next = L.next
        /\ M.prev = [L.prev EXCEPT ![a] = b] /\ M.prev[a] = b
        /\ \A z \in Node \ {a} : M.prev[z] = L.prev[z]
    BY <2>1, PrevWritten
  <2>3. Precedes(M.prev, t)
    <3>1. Precedes(L.prev, s)
      BY <1>3, <1>11
    <3> QED  BY <1>5, <1>9, <2>2, <3>1
  <2>4. M.prev[e] = b /\ \A z \in Node \ (A \cup {e}) : M.prev[z] = L.prev[z]
    BY <1>3, <1>4, <2>2
  <2>5. Follows(M.next, t)
    BY <1>3, <1>11, <2>2
  <2> QED  BY <1>2, <1>3, <1>11, <2>2, <2>3, <2>4, <2>5 DEF HalfRemove, Within, t
<1>12. CASE k = 3
  <2>1. M = [L EXCEPT !.head[l] = HeadAfter(L, l, e)]
    BY <1>12 DEF Unlink
  <2>2. HeadAfter(L, l, e) = Top(t)
    <3>1. CASE j # 1
      <4>1. s[1] # e
        BY <1>1, <1>3, <3>1 DEF Once
      <4>2. HeadAfter(L, l, e) = L.head[l]
        BY <1>3, <4>1 DEF HeadAfter
      <4> QED  BY <1>3, <1>8, <3>1, <4>2
    <3>2. CASE j = 1
      <4>1. L.head[l] = e /\ L.next[e] = a
        BY <1>3, <3>2
      <4>2. HeadAfter(L, l, e) = IF a = e THEN Null ELSE a
        BY <4>1 DEF HeadAfter
      <4> QED  BY <1>6, <1>8, <3>2, <4>2
    <3> QED  BY <3>1, <3>2
  <2>3. Top(t) \in Node \cup {Null}
    <3>1. s[1] \in Node
      BY <1>1, Positions
    <3> QED  BY <1>8, <3>1
  <2>4. /\ M \in Lists /\ M.next = L.next /\ M.prev = L.prev
        /\ M.head[l] = Top(t) /\ \A m \in Line \ {l} : M.head[m] = L.head[m]
    <3>1. PICK y \in Node \cup {Null} : y = Top(t)
      BY <2>3
    <3>2. M = [L EXCEPT !.head[l] = y]
      BY <2>1, <2>2, <3>1
    <3>3. \A K : K = [L EXCEPT !.head[l] = y] =>
            /\ K \in Lists /\ K.next = L.next /\ K.prev = L.prev
            /\ K.head[l] = y /\ \A m \in Line \ {l} : K.head[m] = L.head[m]
      BY HeadWritten
    <3> QED  BY <3>1, <3>2, <3>3
  <2>5. Held(M, l, t, A)
    BY <1>3, <1>7, <1>12, <2>4 DEF Held
  <2> QED  BY <1>12, <2>4, <2>5 DEF Within, t
<1> QED  BY <1>10, <1>11, <1>12

-----------------------------------------------------------------------------
(* The lists of the lines, and the walk                                    *)


Changing(l) == change.kind \in ListChange /\ change.line = l

HalfDone(L, l, s, A, kind, e, k) ==
    \/ kind = "first" /\ HalfFirst(L, l, s, A, e, k)
    \/ kind = "last" /\ HalfLast(L, l, s, A, e, k)
    \/ kind = "remove" /\ \E j \in 1..Len(s) : HalfRemove(L, l, s, A, e, k, j)

\* The ring a walk of the line meets before statement k: an added node is in
\* it from the third on, a removed one no longer from the second on.
Way(s, kind, e, k, w) ==
    IF kind = "remove" /\ k > 1 THEN \E j \in 1..Len(s) : s[j] = e /\ w = RemoveAt(s, j)
    ELSE w = IF kind = "last" /\ k = 4 THEN Append(s, e) ELSE s

\* In a walk of w, the handlers up to that of the current node have run once
\* and those after it not yet, of those that were there when it began.
Walked(w) == \E i \in 1..Len(w) :
    /\ w[i] = walk.node
    /\ \A j \in 1..Len(w) : w[j] \in due => ran[w[j]] = IF j <= i THEN 1 ELSE 0

\* The list of line l is the ring s, or on the way to one; w is what a walk
\* of it meets.
LineIs(l, s, w) ==
    IF Changing(l)
    THEN /\ HalfDone(list, l, s, linked[l], change.kind, change.node, change.step)
         /\ Way(s, change.kind, change.node, change.step, w)
    ELSE Held(list, l, s, linked[l]) /\ w = s

LineOK(l) == \E s, w \in Seq(Node) : LineIs(l, s, w) /\ (walk.line = l => Walked(w))

\* A node is in one line at most, that of a change under way in none; and a
\* line whose head changes stays masked.
ChangeApart ==
    /\ \A l, m \in Line : l # m => linked[l] \cap linked[m] = {}
    /\ change.kind \in ListChange =>
         /\ change.step \in 1..Stmts(change.kind)
         /\ Free(change.node)
         /\ \/ change.kind = "last"
            \/ Quiet(change.line)
            \/ /\ change.kind = "remove"
               /\ list.head[change.line] # change.node

\* The line of a walk is open, and no handler it must still run was removed.
WalkOK ==
    walk # Idle => /\ walk \in [line : Line, node : Node]
                   /\ walk.line < 8 /\ walk.line \notin imr["master"]
                   /\ due \subseteq linked[walk.line]

RingTypes ==
    /\ list \in Lists
    /\ linked \in [Line -> SUBSET Node]
    /\ ran \in [Node -> 0..2]

RingInv == IrqInv /\ RingTypes /\ ChangeApart /\ WalkOK /\ \A l \in Line : LineOK(l)

LEMMA WithinBoth ==
    ASSUME NEW L, NEW M, NEW N, NEW l \in Line, NEW B, Within(L, M, l, B), Within(M, N, l, B)
    PROVE  Within(L, N, l, B)
BY DEF Within

LEMMA InLists == ASSUME NEW L, NEW M, NEW l, NEW B, Within(L, M, l, B) PROVE M \in Lists
BY DEF Within

LEMMA Counting ==
    /\ 1 \in 1..3 /\ 2 \in 1..3 /\ 3 \in 1..3
    /\ 1 \in 1..4 /\ 2 \in 1..4 /\ 3 \in 1..4 /\ 4 \in 1..4
    /\ 1 < 3 /\ 2 < 3 /\ 1 < 4 /\ 2 < 4 /\ 3 < 4
    /\ 2 = 1 + 1 /\ 3 = 2 + 1 /\ 4 = 3 + 1 /\ 5 = 4 + 1
OBVIOUS

LEMMA ChangeTypes ==
    ASSUME RingInv, change.kind \in ListChange
    PROVE  /\ change \in [kind : ListChange, line : Line, node : Node, step : Nat]
           /\ change.step \in 1..Stmts(change.kind) /\ Free(change.node)
<1>1. ChangeOK
  BY DEF RingInv, IrqInv, IrqTypeOK
<1> QED  BY <1>1 DEF ChangeOK, ListChange, NoChange, RingInv, ChangeApart

LEMMA NotIdle == \A l \in Line : Idle.line # l /\ l \in Int /\ l >= 0
BY IrqAssumption DEF Idle

\* Before the first statement of an addition or a removal.
LEMMA BeginsHalf ==
    ASSUME NEW L \in Lists, NEW l \in Line, NEW s \in Seq(Node), NEW A, Held(L, l, s, A),
           NEW e \in Node
    PROVE  /\ L.head[l] = Null => HalfFirst(L, l, s, A, e, 1)
           /\ L.head[l] # Null => HalfLast(L, l, s, A, e, 1)
           /\ e \in A => \E j \in 1..Len(s) : HalfRemove(L, l, s, A \ {e}, e, 1, j)
<1>1. Len(s) \in Nat
  BY LenProperties
<1>2. Len(s) # 0 => s[1] \in Node
  <2>1. Len(s) # 0 => 1 \in 1..Len(s)
    BY <1>1
  <2> QED  BY <2>1, Positions
<1>3. L.head[l] = Null <=> Len(s) = 0
  BY <1>2, IrqAssumption DEF Held, Top
<1>4. L.head[l] = Null => HalfFirst(L, l, s, A, e, 1)
  <2> SUFFICES ASSUME L.head[l] = Null PROVE HalfFirst(L, l, s, A, e, 1)
    OBVIOUS
  <2>1. Elems(s) = {}
    BY <1>3 DEF Elems
  <2> QED  BY <1>3, <2>1 DEF HalfFirst, Held
<1>5. L.head[l] # Null => HalfLast(L, l, s, A, e, 1)
  BY <1>3 DEF HalfLast, Held, Top
<1>6. ASSUME e \in A PROVE \E j \in 1..Len(s) : HalfRemove(L, l, s, A \ {e}, e, 1, j)
  <2>1. PICK j \in 1..Len(s) : s[j] = e
    BY <1>6 DEF Held, Elems
  <2>2. L.head[l] = s[1]
    BY <1>1 DEF Held, Top
  <2> QED  BY <2>1, <2>2 DEF HalfRemove, Held, Follows, Precedes
<1> QED  BY <1>4, <1>5, <1>6

\* A line a walk may begin at or be in leads from its head through all that
\* belongs to it.
LEMMA WayOfLine ==
    ASSUME RingInv, NEW l \in Line, NEW s \in Seq(Node), NEW w \in Seq(Node), LineIs(l, s, w)
    PROVE  /\ Once(w) /\ Follows(list.next, w) /\ linked[l] \subseteq Elems(w)
           /\ l < 8 /\ l \notin imr["master"] =>
                /\ list.head[l] # Null => Len(w) # 0
                /\ Len(w) # 0 => w[1] = list.head[l]
<1>1. Len(s) \in Nat /\ (Len(s) # 0 => 1 \in 1..Len(s))
  BY LenProperties
<1>2. CASE ~ Changing(l)
  BY <1>1, <1>2 DEF LineIs, Held, Top
<1>3. CASE Changing(l)
  <2> DEFINE e == change.node
             k == change.step
             A == linked[l]
  <2>1. /\ change.kind \in ListChange /\ change.line = l /\ e \in Node
        /\ k \in 1..Stmts(change.kind) /\ e \notin A
    BY <1>3, ChangeTypes DEF Changing, Free
  <2>2. /\ HalfDone(list, l, s, A, change.kind, e, k)
        /\ Way(s, change.kind, e, k, w)
    BY <1>3 DEF LineIs
  <2>3. \/ change.kind = "last"
        \/ l < 8 => l \in imr["master"]
        \/ change.kind = "remove" /\ list.head[l] # e
    BY <2>1 DEF RingInv, ChangeApart, Quiet
  <2> HIDE DEF e, k, A
  <2>4. CASE change.kind = "first"
    <3>1. Len(s) = 0 /\ A = {} /\ w = s
      BY <2>2, <2>4 DEF HalfDone, HalfFirst, Way
    <3> QED  BY <2>3, <2>4, <3>1 DEF Once, Follows, A
  <2>5. CASE change.kind = "last"
    <3>1. /\ Once(s) /\ Len(s) # 0 /\ Elems(s) = A /\ list.head[l] = s[1]
          /\ Follows(list.next, IF k = 4 THEN Append(s, e) ELSE s)
          /\ w = IF k = 4 THEN Append(s, e) ELSE s
      BY <2>2, <2>5 DEF HalfDone, HalfLast, Way
    <3>2. CASE k = 4
      <4>1. w = Append(s, e) /\ Follows(list.next, w)
        BY <3>1, <3>2
      <4>2. Once(w) /\ Elems(w) = A \cup {e} /\ Len(w) # 0 /\ w[1] = s[1]
        BY <1>1, <2>1, <3>1, <4>1, Longer
      <4> QED  BY <3>1, <4>1, <4>2 DEF A
    <3>3. CASE k # 4
      BY <3>1, <3>3 DEF A
    <3> QED  BY <3>2, <3>3
  <2>6. CASE change.kind = "remove"
    <3>1. PICK j \in 1..Len(s) : HalfRemove(list, l, s, A, e, k, j)
      BY <2>2, <2>6 DEF HalfDone
    <3>2. /\ Once(s) /\ s[j] = e /\ Elems(s) \ {e} = A /\ list.head[l] = s[1]
          /\ Follows(list.next, IF k = 1 THEN s ELSE RemoveAt(s, j))
      BY <3>1 DEF HalfRemove
    <3>3. CASE k > 1
      <4>1. w = RemoveAt(s, j)
        BY <2>2, <2>6, <3>2, <3>3 DEF Way, Once
      <4>2. Follows(list.next, w)
        BY <3>2, <3>3, <4>1
      <4>3. Once(w) /\ Elems(w) = A
        BY <3>2, <4>1, Shorter
      <4>4. ASSUME j # 1 PROVE Len(w) # 0 /\ w[1] = s[1]
        <5>1. Len(w) = Len(s) - 1 /\ \A i \in 1..(Len(s) - 1) : w[i] = IF i < j THEN s[i] ELSE s[i + 1]
          BY <4>1, Shorter
        <5> QED  BY <1>1, <4>4, <5>1
      <4>5. j = 1 => list.head[l] = e
        BY <3>2
      <4> QED  BY <2>3, <2>6, <3>2, <4>2, <4>3, <4>4, <4>5 DEF A
    <3>4. CASE k = 1
      <4>1. w = s
        BY <2>2, <2>6, <3>4 DEF Way
      <4>2. Len(s) # 0
        BY <1>1
      <4> QED  BY <3>2, <3>4, <4>1, <4>2 DEF A
    <3>5. k > 1 \/ k = 1
      BY <2>1
    <3> QED  BY <3>3, <3>4, <3>5
  <2> QED  BY <2>1, <2>4, <2>5, <2>6 DEF ListChange
<1> QED  BY <1>2, <1>3

\* All the statements of a call at once, on a line that is a ring.
LEMMA WholeAdds ==
    ASSUME list \in Lists, NEW l \in Line, NEW s \in Seq(Node), NEW A, Held(list, l, s, A),
           NEW e \in Node \ A
    PROVE  LET M == Whole(AddKind(l), l, e)
           IN  Within(list, M, l, A \cup {e}) /\ Held(M, l, Append(s, e), A \cup {e})
<1> DEFINE B == A \cup {e}
<1>1. CASE list.head[l] = Null
  <2> DEFINE L1 == LinkFirst(list, l, e, 1)
             L2 == LinkFirst(L1, l, e, 2)
             L3 == LinkFirst(L2, l, e, 3)
  <2>1. Whole(AddKind(l), l, e) = L3
    <3>1. AddKind(l) = "first"
      BY <1>1 DEF AddKind
    <3>2. Stmts("first") = 3 /\ \A L, k : Stmt(L, "first", l, e, k) = LinkFirst(L, l, e, k)
      BY DEF Stmts, Stmt
    <3> QED  BY <3>1, <3>2 DEF Whole
  <2>a. /\ L1 = LinkFirst(list, l, e, 1)
        /\ L2 = LinkFirst(L1, l, e, 2)
        /\ L3 = LinkFirst(L2, l, e, 3)
    OBVIOUS
  <2> HIDE DEF L1, L2, L3
  <2>2. HalfFirst(list, l, s, A, e, 1)
    BY <1>1, BeginsHalf
  <2>3. Within(list, L1, l, B) /\ HalfFirst(L1, l, s, A, e, 2)
    BY <2>a, <2>2, Counting, FirstStatement
  <2>4. Within(L1, L2, l, B) /\ HalfFirst(L2, l, s, A, e, 3)
    BY <2>a, <2>3, InLists, Counting, FirstStatement
  <2>5. Within(L2, L3, l, B) /\ Held(L3, l, Append(s, e), B)
    BY <2>a, <2>4, InLists, Counting, FirstStatement
  <2> HIDE DEF B
  <2>6. Within(list, L2, l, B)
    BY <2>3, <2>4, WithinBoth
  <2>7. Within(list, L3, l, B)
    BY <2>5, <2>6, WithinBoth
  <2> QED  BY <2>1, <2>5, <2>7 DEF B
<1>2. CASE list.head[l] # Null
  <2> DEFINE L1 == LinkLast(list, l, e, 1)
             L2 == LinkLast(L1, l, e, 2)
             L3 == LinkLast(L2, l, e, 3)
             L4 == LinkLast(L3, l, e, 4)
  <2>1. Whole(AddKind(l), l, e) = L4
    <3>1. AddKind(l) = "last"
      BY <1>2 DEF AddKind
    <3>2. Stmts("last") = 4 /\ \A L, k : Stmt(L, "last", l, e, k) = LinkLast(L, l, e, k)
      BY DEF Stmts, Stmt
    <3> QED  BY <3>1, <3>2 DEF Whole
  <2>a. /\ L1 = LinkLast(list, l, e, 1)
        /\ L2 = LinkLast(L1, l, e, 2)
        /\ L3 = LinkLast(L2, l, e, 3)
        /\ L4 = LinkLast(L3, l, e, 4)
    OBVIOUS
  <2> HIDE DEF L1, L2, L3, L4
  <2>2. HalfLast(list, l, s, A, e, 1)
    BY <1>2, BeginsHalf
  <2>3. Within(list, L1, l, B) /\ HalfLast(L1, l, s, A, e, 2)
    BY <2>a, <2>2, Counting, LastStatement
  <2>4. Within(L1, L2, l, B) /\ HalfLast(L2, l, s, A, e, 3)
    BY <2>a, <2>3, InLists, Counting, LastStatement
  <2>5. Within(L2, L3, l, B) /\ HalfLast(L3, l, s, A, e, 4)
    BY <2>a, <2>4, InLists, Counting, LastStatement
  <2>6. Within(L3, L4, l, B) /\ Held(L4, l, Append(s, e), B)
    <3>1. L3 \in Lists
      BY <2>5, InLists
    <3> QED  BY <2>a, <2>5, <3>1, Counting, LastStatement
  <2> HIDE DEF B
  <2>7. Within(list, L2, l, B)
    BY <2>3, <2>4, WithinBoth
  <2>8. Within(list, L3, l, B)
    BY <2>5, <2>7, WithinBoth
  <2>9. Within(list, L4, l, B)
    BY <2>6, <2>8, WithinBoth
  <2> QED  BY <2>1, <2>6, <2>9 DEF B
<1> QED  BY <1>1, <1>2

LEMMA WholeRemoves ==
    ASSUME list \in Lists, NEW l \in Line, NEW s \in Seq(Node), NEW A, Held(list, l, s, A),
           NEW e \in A, e \in Node
    PROVE  LET M == Whole("remove", l, e)
           IN  /\ Within(list, M, l, A)
               /\ \E j \in 1..Len(s) : s[j] = e /\ Held(M, l, RemoveAt(s, j), A \ {e})
<1> DEFINE C == A \ {e}
           L1 == Unlink(list, l, e, 1)
           L2 == Unlink(L1, l, e, 2)
           L3 == Unlink(L2, l, e, 3)
<1>1. Whole("remove", l, e) = L3
  <2>1. Stmts("remove") = 3 /\ \A L, k : Stmt(L, "remove", l, e, k) = Unlink(L, l, e, k)
    BY DEF Stmts, Stmt
  <2> QED  BY <2>1 DEF Whole
<1>a. /\ L1 = Unlink(list, l, e, 1)
      /\ L2 = Unlink(L1, l, e, 2)
      /\ L3 = Unlink(L2, l, e, 3)
  OBVIOUS
<1> HIDE DEF L1, L2, L3
<1>2. PICK j \in 1..Len(s) : HalfRemove(list, l, s, C, e, 1, j)
  BY BeginsHalf
<1>3. C \cup {e} = A
  OBVIOUS
<1> HIDE DEF C
<1>4. Within(list, L1, l, A) /\ HalfRemove(L1, l, s, C, e, 2, j)
  BY <1>a, <1>2, <1>3, Counting, RemoveStatement
<1>5. Within(L1, L2, l, A) /\ HalfRemove(L2, l, s, C, e, 3, j)
  BY <1>a, <1>3, <1>4, InLists, Counting, RemoveStatement
<1>6. Within(L2, L3, l, A) /\ Held(L3, l, RemoveAt(s, j), C)
  <2>1. L2 \in Lists
    BY <1>5, InLists
  <2>2. Within(L2, L3, l, C \cup {e}) /\ Held(L3, l, RemoveAt(s, j), C)
    BY <1>a, <1>5, <2>1, Counting, RemoveStatement
  <2> QED  BY <1>3, <2>2
<1>7. Within(list, L2, l, A)
  BY <1>4, <1>5, WithinBoth
<1>8. Within(list, L3, l, A)
  BY <1>6, <1>7, WithinBoth
<1>9. s[j] = e
  BY <1>2 DEF HalfRemove
<1> QED  BY <1>1, <1>6, <1>8, <1>9 DEF C

-----------------------------------------------------------------------------
(* The steps                                                               *)

LEMMA RingInvInit == IrqInit => RingInv
<1> SUFFICES ASSUME IrqInit PROVE RingInv
  OBVIOUS
<1>1. RingTypes /\ WalkOK /\ ChangeApart /\ change.kind \notin ListChange
  BY DEF IrqInit, RingTypes, Lists, Links, WalkOK, ChangeApart, NoChange, ListChange
<1>2. ASSUME NEW l \in Line PROVE LineOK(l)
  <2>1. <<>> \in Seq(Node) /\ Len(<<>>) = 0
    BY EmptySeq
  <2>2. Held(list, l, <<>>, linked[l])
    BY <2>1 DEF IrqInit, Held, Once, Elems, Top, Follows, Precedes
  <2>3. LineIs(l, <<>>, <<>>)
    BY <1>1, <2>2 DEF LineIs, Changing
  <2>4. walk.line # l
    BY NotIdle DEF IrqInit
  <2> QED  BY <2>1, <2>3, <2>4 DEF LineOK
<1> QED  BY <1>1, <1>2, IrqInvInit DEF RingInv

\* A step that leaves the lists alone.
LEMMA SameLine ==
    ASSUME UNCHANGED <<list, linked, change>>, NEW l \in Line, NEW s, NEW w, LineIs(l, s, w)
    PROVE  LineIs(l, s, w)'
BY DEF LineIs, Changing

\* Reading and writing a mask.
LEMMA MaskStep ==
    ASSUME RingInv, IrqInv', walk = Idle, UNCHANGED <<list, linked, walk, ran, due>>,
           change.kind \notin ListChange, change'.kind \notin ListChange
    PROVE  RingInv'
<1>1. RingTypes' /\ WalkOK' /\ ChangeApart'
  BY DEF RingInv, RingTypes, WalkOK, ChangeApart
<1>2. ASSUME NEW l \in Line PROVE LineOK(l)'
  <2>1. PICK s \in Seq(Node) : Held(list, l, s, linked[l])
    BY DEF RingInv, LineOK, LineIs, Changing
  <2>2. walk'.line # l
    BY NotIdle
  <2> QED  BY <2>1, <2>2 DEF LineOK, LineIs, Changing, Held
<1> QED  BY <1>1, <1>2 DEF RingInv

LEMMA BeginStep ==
    ASSUME RingInv, IrqInv', NEW l \in Line, NEW e \in Node,
           BeginAdd(l, e) \/ BeginRemove(l, e)
    PROVE  RingInv'
<1>1. /\ walk = Idle /\ change = NoChange /\ change.kind \notin ListChange
      /\ UNCHANGED <<list, imr, walk, ran, due>>
  BY DEF BeginAdd, BeginRemove, NoChange, ListChange
<1>2. /\ change'.kind \in ListChange /\ change'.line = l /\ change'.node = e
      /\ change'.step = 1
  BY DEF BeginAdd, BeginRemove, ListChange, AddKind
<1>3. WalkOK'
  BY <1>1 DEF WalkOK
<1>4. list \in Lists /\ linked \in [Line -> SUBSET Node]
  BY DEF RingInv, RingTypes
<1>5. ASSUME NEW m \in Line \ {l}, linked'[m] = linked[m] PROVE LineOK(m)'
  <2>1. PICK s \in Seq(Node) : Held(list, m, s, linked[m])
    BY <1>1 DEF RingInv, LineOK, LineIs, Changing
  <2>2. walk'.line # m
    BY <1>1, NotIdle
  <2>3. ~ Changing(m)'
    BY <1>2 DEF Changing
  <2> QED  BY <1>1, <1>5, <2>1, <2>2, <2>3 DEF LineOK, LineIs, Held
<1>6. PICK s \in Seq(Node) : Held(list, l, s, linked[l])
  BY <1>1 DEF RingInv, LineOK, LineIs, Changing
<1>7. Changing(l)' /\ walk'.line # l
  BY <1>1, <1>2, NotIdle DEF Changing
<1>8. Way(s, change'.kind, change'.node, change'.step, s)
  BY <1>2 DEF Way
<1>9. CASE BeginAdd(l, e)
  <2>1. /\ linked' = linked /\ change'.kind = AddKind(l) /\ Free(e) /\ e \notin linked[l]
        /\ AddKind(l) = "first" => Quiet(l)
    BY <1>9 DEF BeginAdd, Free
  <2>2. HalfDone(list, l, s, linked[l], change'.kind, e, 1)
    BY <1>4, <1>6, <2>1, BeginsHalf DEF HalfDone, AddKind
  <2>3. LineOK(l)'
    BY <1>1, <1>2, <1>6, <1>7, <1>8, <2>1, <2>2 DEF LineOK, LineIs
  <2>4. ChangeApart'
    <3>1. /\ change'.step \in 1..Stmts(change'.kind)
          /\ change'.kind = "last" \/ Quiet(l)'
      BY <1>1, <1>2, <2>1 DEF AddKind, Stmts, Quiet
    <3>2. \A m, k \in Line : m # k => linked[m] \cap linked[k] = {}
      BY DEF RingInv, ChangeApart
    <3> QED  BY <1>2, <2>1, <3>1, <3>2 DEF ChangeApart, Free
  <2>5. RingTypes'
    BY <1>1, <2>1 DEF RingInv, RingTypes
  <2> QED  BY <1>3, <1>5, <2>1, <2>3, <2>4, <2>5 DEF RingInv
<1>10. CASE BeginRemove(l, e)
  <2>1. /\ linked' = [linked EXCEPT ![l] = linked[l] \ {e}] /\ change'.kind = "remove"
        /\ e \in linked[l]
        /\ list.head[l] = e => Quiet(l)
    BY <1>10 DEF BeginRemove
  <2>2. linked'[l] = linked[l] \ {e} /\ \A m \in Line \ {l} : linked'[m] = linked[m]
    BY <1>4, <2>1
  <2>3. HalfDone(list, l, s, linked'[l], "remove", e, 1)
    BY <1>4, <1>6, <2>1, <2>2, BeginsHalf DEF HalfDone
  <2>4. LineOK(l)'
    BY <1>1, <1>2, <1>6, <1>7, <1>8, <2>1, <2>3 DEF LineOK, LineIs
  <2>5. /\ \A m, k \in Line : m # k => linked'[m] \cap linked'[k] = {}
        /\ \A m \in Line : e \notin linked'[m]
    BY <2>1, <2>2 DEF RingInv, ChangeApart
  <2>6. ChangeApart'
    <3>1. /\ change'.step \in 1..Stmts(change'.kind)
          /\ Quiet(l)' \/ (change'.kind = "remove" /\ list'.head[l] # e)
      BY <1>1, <1>2, <2>1 DEF Stmts, Quiet
    <3> QED  BY <1>2, <2>5, <3>1 DEF ChangeApart, Free
  <2>7. RingTypes'
    BY <1>1, <1>4, <2>1 DEF RingInv, RingTypes
  <2> QED  BY <1>3, <1>5, <2>2, <2>4, <2>6, <2>7 DEF RingInv
<1> QED  BY <1>9, <1>10

\* The other lines in a step that changes line l and its nodes.
LEMMA OthersStay ==
    ASSUME RingInv, NEW l \in Line, NEW B, Within(list, list', l, B),
           NEW m \in Line \ {l}, linked'[m] = linked[m], linked[m] \cap B = {},
           ~ Changing(m), ~ Changing(m)',
           UNCHANGED <<walk, ran>>, due' \subseteq due
    PROVE  LineOK(m)'
<1>1. PICK s \in Seq(Node) : Held(list, m, s, linked[m]) /\ (walk.line = m => Walked(s))
  BY DEF RingInv, LineOK, LineIs
<1>2. Held(list', m, s, linked[m])
  BY <1>1, OtherLines
<1>3. walk'.line = m => Walked(s)'
  BY <1>1 DEF Walked
<1> QED  BY <1>1, <1>2, <1>3 DEF LineOK, LineIs, Held

LEMMA StatementStep ==
    ASSUME RingInv, IrqInv', Statement
    PROVE  RingInv'
<1> DEFINE c == change
<1>1. /\ walk = Idle /\ c.kind \in ListChange
      /\ list' = Stmt(list, c.kind, c.line, c.node, c.step)
      /\ UNCHANGED <<imr, walk, ran, due>>
  BY DEF Statement, ListChange
<1>2. /\ c \in [kind : ListChange, line : Line, node : Node, step : Nat]
      /\ c.step \in 1..Stmts(c.kind) /\ Free(c.node)
  BY <1>1, ChangeTypes
<1>3. PICK l \in Line, e \in Node, k \in 1..Stmts(c.kind) :
        l = c.line /\ e = c.node /\ k = c.step
  BY <1>2
<1>4. list \in Lists /\ linked \in [Line -> SUBSET Node] /\ ran \in [Node -> 0..2]
  BY DEF RingInv, RingTypes
<1> DEFINE A == linked[l]
<1>5. \A m \in Line : e \notin linked[m]
  BY <1>2, <1>3 DEF Free
<1>6. \A m, n \in Line : m # n => linked[m] \cap linked[n] = {}
  BY DEF RingInv, ChangeApart
<1>7. PICK s \in Seq(Node) : HalfDone(list, l, s, A, c.kind, e, k)
  BY <1>1, <1>3 DEF RingInv, LineOK, LineIs, Changing
<1>8. /\ k < Stmts(c.kind) => change' = [c EXCEPT !.step = k + 1] /\ linked' = linked
      /\ k = Stmts(c.kind) /\ c.kind = "remove" => change' = NoChange /\ linked' = linked
      /\ k = Stmts(c.kind) /\ c.kind # "remove" =>
           /\ change' = [kind |-> "enable", line |-> l]
           /\ linked' = [linked EXCEPT ![l] = A \cup {e}]
  <2>1. Stmts(c.kind) \in Nat
    BY DEF Stmts
  <2> QED  BY <1>3, <2>1 DEF Statement
<1>9. /\ k < Stmts(c.kind) => change'.kind = c.kind /\ change'.line = l /\ change'.node = e
                              /\ change'.step = k + 1
      /\ k = Stmts(c.kind) => change'.kind \notin ListChange
  BY <1>2, <1>3, <1>8 DEF NoChange, ListChange
<1> HIDE DEF c
<1>10. /\ Within(list, list', l, A \cup {e})
       /\ k < Stmts(c.kind) => HalfDone(list', l, s, A, c.kind, e, k + 1)
       /\ k = Stmts(c.kind) =>
            \E t \in Seq(Node) : Held(list', l, t, IF c.kind = "remove" THEN A ELSE A \cup {e})
       /\ c.kind # "first" /\ k < Stmts(c.kind) => list'.head[l] = list.head[l]
  <2>1. CASE c.kind = "first"
    <3>1. HalfFirst(list, l, s, A, e, k) /\ list' = LinkFirst(list, l, e, k) /\ k \in 1..3
          /\ Stmts(c.kind) = 3
      BY <1>1, <1>3, <1>7, <2>1 DEF HalfDone, Stmt, Stmts
    <3>2. /\ Within(list, list', l, A \cup {e})
          /\ k < 3 => HalfFirst(list', l, s, A, e, k + 1)
          /\ k = 3 => Held(list', l, Append(s, e), A \cup {e})
      BY <1>4, <3>1, FirstStatement
    <3>3. Append(s, e) \in Seq(Node)
      BY Longer
    <3> QED  BY <2>1, <3>1, <3>2, <3>3 DEF HalfDone
  <2>2. CASE c.kind = "last"
    <3>1. HalfLast(list, l, s, A, e, k) /\ list' = LinkLast(list, l, e, k) /\ k \in 1..4
          /\ Stmts(c.kind) = 4
      BY <1>1, <1>3, <1>7, <2>2 DEF HalfDone, Stmt, Stmts
    <3>2. /\ Within(list, list', l, A \cup {e})
          /\ k < 4 => HalfLast(list', l, s, A, e, k + 1)
          /\ k = 4 => Held(list', l, Append(s, e), A \cup {e})
      BY <1>4, <1>5, <3>1, LastStatement
    <3>3. k < 4 => list'.head[l] = list.head[l]
      BY <3>1, <3>2 DEF HalfLast
    <3>4. Append(s, e) \in Seq(Node)
      BY Longer
    <3> QED  BY <2>2, <3>1, <3>2, <3>3, <3>4 DEF HalfDone
  <2>3. CASE c.kind = "remove"
    <3>1. PICK j \in 1..Len(s) : HalfRemove(list, l, s, A, e, k, j)
      BY <1>7, <2>3 DEF HalfDone
    <3>2. list' = Unlink(list, l, e, k) /\ k \in 1..3 /\ Stmts(c.kind) = 3
      BY <1>1, <1>3, <2>3 DEF Stmt, Stmts
    <3>3. /\ Within(list, list', l, A \cup {e})
          /\ k < 3 => HalfRemove(list', l, s, A, e, k + 1, j)
          /\ k = 3 => Held(list', l, RemoveAt(s, j), A)
      BY <1>4, <3>1, <3>2, RemoveStatement
    <3>4. k < 3 => list'.head[l] = list.head[l]
      BY <3>1, <3>3 DEF HalfRemove
    <3>5. RemoveAt(s, j) \in Seq(Node)
      BY Shorter
    <3> QED  BY <2>3, <3>2, <3>3, <3>4, <3>5 DEF HalfDone
  <2> QED  BY <1>1, <2>1, <2>2, <2>3 DEF ListChange
<1>11. /\ linked' \in [Line -> SUBSET Node]
       /\ \A m \in Line \ {l} : linked'[m] = linked[m]
       /\ linked'[l] = IF k = Stmts(c.kind) /\ c.kind # "remove" THEN A \cup {e} ELSE A
  <2>1. k < Stmts(c.kind) \/ k = Stmts(c.kind)
    BY DEF Stmts
  <2> QED  BY <1>4, <1>8, <2>1
<1> HIDE DEF A
<1>12. RingTypes'
  BY <1>1, <1>4, <1>10, <1>11 DEF RingTypes, Within
<1>13. WalkOK'
  BY <1>1 DEF WalkOK
<1>14. ChangeApart'
  <2>1. \A m, n \in Line : m # n => linked'[m] \cap linked'[n] = {}
    BY <1>5, <1>6, <1>11 DEF A
  <2>2. ASSUME change'.kind \in ListChange
        PROVE  /\ change'.step \in 1..Stmts(change'.kind)
               /\ \A m \in Line : change'.node \notin linked'[m]
               /\ \/ change'.kind = "last"
                  \/ change'.line < 8 => change'.line \in imr'["master"]
                  \/ change'.kind = "remove" /\ list'.head[change'.line] # change'.node
    <3>1. k < Stmts(c.kind)
      <4>1. k < Stmts(c.kind) \/ k = Stmts(c.kind)
        BY DEF Stmts
      <4> QED  BY <1>9, <2>2, <4>1
    <3>2. /\ change'.kind = c.kind /\ change'.line = l /\ change'.node = e
          /\ change'.step = k + 1
      BY <1>9, <3>1
    <3>3. k + 1 \in 1..Stmts(c.kind)
      BY <3>1 DEF Stmts
    <3>4. \A m \in Line : e \notin linked'[m]
      BY <1>5, <1>11, <3>1 DEF A
    <3>5. \/ c.kind = "last"
          \/ Quiet(l)
          \/ c.kind = "remove" /\ list.head[l] # e
      BY <1>1, <1>3 DEF RingInv, ChangeApart, c
    <3>6. c.kind = "remove" => list'.head[l] = list.head[l]
      BY <1>10, <3>1
    <3> QED  BY <1>1, <3>2, <3>3, <3>4, <3>5, <3>6 DEF Quiet
  <2> QED  BY <2>1, <2>2 DEF ChangeApart, Free, Quiet
<1>15. ASSUME NEW m \in Line PROVE LineOK(m)'
  <2>1. walk'.line # m
    BY <1>1, NotIdle
  <2>2. CASE m # l
    <3>1. ~ Changing(m) /\ ~ Changing(m)'
      <4>1. k < Stmts(c.kind) \/ k = Stmts(c.kind)
        BY DEF Stmts
      <4> QED  BY <1>3, <1>9, <2>2, <4>1 DEF Changing, c
    <3>2. linked[m] \cap (A \cup {e}) = {}
      BY <1>5, <1>6, <2>2 DEF A
    <3> QED  BY <1>1, <1>10, <1>11, <2>2, <3>1, <3>2, OthersStay
  <2>3. CASE m = l /\ k < Stmts(c.kind)
    <3>1. /\ Changing(l)' /\ linked'[l] = A
          /\ HalfDone(list', l, s, A, change'.kind, change'.node, change'.step)
      BY <1>1, <1>9, <1>10, <1>11, <2>3 DEF Changing
    <3>2. \E w \in Seq(Node) : Way(s, change'.kind, change'.node, change'.step, w)
      <4>1. ASSUME change'.kind = "remove"
            PROVE  \E j \in 1..Len(s) : s[j] = change'.node /\ RemoveAt(s, j) \in Seq(Node)
        BY <3>1, <4>1, Shorter DEF HalfDone, HalfRemove
      <4>2. Append(s, e) \in Seq(Node) /\ change'.node = e
        BY <1>9, <2>3, Longer
      <4> QED  BY <4>1, <4>2 DEF Way
    <3> QED  BY <2>1, <2>3, <3>1, <3>2 DEF LineOK, LineIs
  <2>4. CASE m = l /\ k = Stmts(c.kind)
    <3>1. PICK t \in Seq(Node) : Held(list', l, t, linked'[l])
      BY <1>10, <1>11, <2>4
    <3>2. ~ Changing(l)'
      BY <1>9, <2>4 DEF Changing
    <3> QED  BY <2>1, <2>4, <3>1, <3>2 DEF LineOK, LineIs
  <2>5. k < Stmts(c.kind) \/ k = Stmts(c.kind)
    BY DEF Stmts
  <2> QED  BY <2>2, <2>3, <2>4, <2>5
<1> QED  BY <1>12, <1>13, <1>14, <1>15 DEF RingInv

\* The walk begins at the head of a line that is open.
LEMMA HwIntStep ==
    ASSUME RingInv, IrqInv', NEW l \in Line, HwInt(l)
    PROVE  RingInv'
<1>1. /\ walk = Idle /\ Passes(l) /\ list.head[l] # Null
      /\ walk' = [line |-> l, node |-> list.head[l]]
      /\ ran' = [e \in Node |-> IF e = list.head[l] THEN 1 ELSE 0]
      /\ due' = linked[l]
      /\ UNCHANGED <<list, linked, change, imr, opened>>
  BY DEF HwInt
<1>2. l < 8 /\ l \notin imr["master"]
  <2>1. CASE l < 8
    BY <1>1, <2>1 DEF Passes
  <2>2. CASE ~ l < 8
    <3>1. l \in 0..15
      BY IrqAssumption
    <3>2. l - 8 \in Bit
      BY <2>2, <3>1 DEF Bit
    <3> QED  BY <1>1, <2>2, <3>2 DEF Passes, RingInv, IrqInv, IrqTypeOK
  <2> QED  BY <2>1, <2>2
<1>3. RingTypes'
  BY <1>1 DEF RingInv, RingTypes
<1>4. WalkOK'
  <2>1. list.head[l] \in Node
    BY <1>1 DEF RingInv, RingTypes, Lists
  <2> QED  BY <1>1, <1>2, <2>1 DEF WalkOK
<1>5. ChangeApart'
  BY <1>1 DEF RingInv, ChangeApart, Free, Quiet
<1>6. ASSUME NEW m \in Line PROVE LineOK(m)'
  <2>1. PICK s \in Seq(Node), w \in Seq(Node) : LineIs(m, s, w)
    BY DEF RingInv, LineOK
  <2>2. LineIs(m, s, w)'
    BY <1>1, <2>1, SameLine
  <2>3. walk'.line = l
    BY <1>1
  <2>4. ASSUME m = l PROVE Walked(w)'
    <3>1. Once(w) /\ Len(w) # 0 /\ w[1] = list.head[l]
      BY <1>1, <1>2, <2>1, <2>4, WayOfLine
    <3>2. Len(w) \in Nat
      BY LenProperties
    <3>3. 1 \in 1..Len(w) /\ \A j \in 1..Len(w) : j <= 1 <=> j = 1
      BY <3>1, <3>2
    <3>4. \A j \in 1..Len(w) : w[j] \in Node /\ (w[j] = w[1] <=> j = 1)
      BY <3>1, <3>3, Positions DEF Once
    <3>5. w[1] = walk'.node /\ \A j \in 1..Len(w) : ran'[w[j]] = IF j <= 1 THEN 1 ELSE 0
      BY <1>1, <3>1, <3>3, <3>4
    <3> QED  BY <3>3, <3>5 DEF Walked
  <2> QED  BY <2>2, <2>3, <2>4 DEF LineOK
<1> QED  BY <1>3, <1>4, <1>5, <1>6 DEF RingInv

\* Where the walk is, and what its next node is.
LEMMA WalkPlace ==
    ASSUME RingInv, walk # Idle
    PROVE  \E s, w \in Seq(Node) : \E i \in 1..Len(w) :
             /\ LineIs(walk.line, s, w)
             /\ w[i] = walk.node
             /\ \A j \in 1..Len(w) : w[j] \in due => ran[w[j]] = IF j <= i THEN 1 ELSE 0
             /\ Once(w) /\ due \subseteq Elems(w)
             /\ w[1] = list.head[walk.line]
             /\ list.next[walk.node] = w[Succ(w, i)]
             /\ WalkIsOver(list.next[walk.node]) <=> i = Len(w)
<1>1. /\ walk.line \in Line /\ walk.line < 8 /\ walk.line \notin imr["master"]
      /\ due \subseteq linked[walk.line]
  BY DEF RingInv, WalkOK
<1>2. PICK s \in Seq(Node), w \in Seq(Node) : LineIs(walk.line, s, w) /\ Walked(w)
  BY <1>1 DEF RingInv, LineOK
<1>3. PICK i \in 1..Len(w) :
        /\ w[i] = walk.node
        /\ \A j \in 1..Len(w) : w[j] \in due => ran[w[j]] = IF j <= i THEN 1 ELSE 0
  BY <1>2 DEF Walked
<1>4. /\ Once(w) /\ Follows(list.next, w) /\ linked[walk.line] \subseteq Elems(w)
      /\ Len(w) # 0 => w[1] = list.head[walk.line]
  BY <1>1, <1>2, WayOfLine
<1>5. Len(w) \in Nat /\ Len(w) # 0 /\ 1 \in 1..Len(w) /\ Succ(w, i) \in 1..Len(w)
  BY Positions
<1>6. list.next[walk.node] = w[Succ(w, i)]
  BY <1>3, <1>4 DEF Follows
<1>7. WalkIsOver(list.next[walk.node]) <=> Succ(w, i) = 1
  BY <1>4, <1>5, <1>6 DEF WalkIsOver, Once
<1>8. Succ(w, i) = 1 <=> i = Len(w)
  BY <1>5 DEF Succ
<1> QED  BY <1>1, <1>2, <1>3, <1>4, <1>5, <1>6, <1>7, <1>8

\* All the handlers that were there throughout have run once when it ends.
LEMMA WalkRunsAll ==
    ASSUME RingInv, walk # Idle, FlihReturns, walk' = Idle, NEW e \in due
    PROVE  ran[e] = 1
<1>a. PICK s \in Seq(Node), w \in Seq(Node) : \E i \in 1..Len(w) :
        /\ w[i] = walk.node
        /\ \A j \in 1..Len(w) : w[j] \in due => ran[w[j]] = IF j <= i THEN 1 ELSE 0
        /\ due \subseteq Elems(w)
        /\ WalkIsOver(list.next[walk.node]) <=> i = Len(w)
  BY WalkPlace
<1>1. PICK i \in 1..Len(w) :
        /\ w[i] = walk.node
        /\ \A j \in 1..Len(w) : w[j] \in due => ran[w[j]] = IF j <= i THEN 1 ELSE 0
        /\ due \subseteq Elems(w)
        /\ WalkIsOver(list.next[walk.node]) <=> i = Len(w)
  BY <1>a
<1>2. walk.line \in Line /\ walk \in [line : Line, node : Node]
  BY DEF RingInv, WalkOK
<1>3. WalkIsOver(list.next[walk.node])
  <2>1. ~ WalkIsOver(list.next[walk.node]) => walk'.line = walk.line
    BY <1>2 DEF FlihReturns
  <2> QED  BY <1>2, <2>1, NotIdle
<1>4. PICK j \in 1..Len(w) : w[j] = e
  BY <1>1 DEF Elems
<1>5. Len(w) \in Nat /\ j <= Len(w)
  BY LenProperties
<1> QED  BY <1>1, <1>3, <1>4, <1>5

LEMMA FlihReturnsStep ==
    ASSUME RingInv, IrqInv', FlihReturns
    PROVE  RingInv'
<1>1. /\ walk # Idle
      /\ UNCHANGED <<list, linked, change, imr, opened>>
  BY DEF FlihReturns
<1>2. ChangeApart'
  BY <1>1 DEF RingInv, ChangeApart, Free, Quiet
<1>3. /\ walk \in [line : Line, node : Node] /\ walk.line \in Line
      /\ walk.line < 8 /\ walk.line \notin imr["master"] /\ due \subseteq linked[walk.line]
  BY <1>1 DEF RingInv, WalkOK
<1>4. list \in Lists /\ linked \in [Line -> SUBSET Node] /\ ran \in [Node -> 0..2]
  BY DEF RingInv, RingTypes
<1>b. PICK l \in Line : l = walk.line
  BY <1>3
<1> DEFINE n == list.next[walk.node]
<1>a. PICK s \in Seq(Node), w \in Seq(Node) : \E i \in 1..Len(w) :
        /\ LineIs(l, s, w)
        /\ w[i] = walk.node
        /\ \A j \in 1..Len(w) : w[j] \in due => ran[w[j]] = IF j <= i THEN 1 ELSE 0
        /\ Once(w) /\ due \subseteq Elems(w)
        /\ n = w[Succ(w, i)]
        /\ WalkIsOver(n) <=> i = Len(w)
  BY <1>1, <1>b, WalkPlace
<1>5. PICK i \in 1..Len(w) :
        /\ LineIs(l, s, w)
        /\ w[i] = walk.node
        /\ \A j \in 1..Len(w) : w[j] \in due => ran[w[j]] = IF j <= i THEN 1 ELSE 0
        /\ Once(w) /\ due \subseteq Elems(w)
        /\ n = w[Succ(w, i)]
        /\ WalkIsOver(n) <=> i = Len(w)
  BY <1>a
<1>6. n \in Node
  BY <1>5, Positions
<1>7. CASE WalkIsOver(n)
  <2>1. walk' = Idle /\ ran' = [e \in Node |-> 0] /\ due' = {}
    BY <1>7 DEF FlihReturns
  <2>2. RingTypes' /\ WalkOK'
    BY <1>1, <1>4, <2>1 DEF RingTypes, WalkOK
  <2>3. ASSUME NEW m \in Line PROVE LineOK(m)'
    <3>1. PICK s1 \in Seq(Node), w1 \in Seq(Node) : LineIs(m, s1, w1)
      BY DEF RingInv, LineOK
    <3>2. LineIs(m, s1, w1)'
      BY <1>1, <3>1, SameLine
    <3>3. walk'.line # m
      BY <2>1, NotIdle
    <3> QED  BY <3>2, <3>3 DEF LineOK
  <2> QED  BY <1>2, <2>2, <2>3 DEF RingInv
<1>8. CASE ~ WalkIsOver(n)
  <2>1. /\ walk' = [walk EXCEPT !.node = n]
        /\ ran' = [ran EXCEPT ![n] = IF ran[n] = 2 THEN 2 ELSE ran[n] + 1]
        /\ due' = due
    BY <1>8 DEF FlihReturns
  <2>2. walk'.line = walk.line /\ walk'.node = n /\ walk' \in [line : Line, node : Node]
    BY <1>3, <1>6, <2>1
  <2> HIDE DEF n
  <2>3. ran[n] \in 0..2 /\ \A x \in Node : ran'[x] = IF x # n THEN ran[x]
                                          ELSE IF ran[n] = 2 THEN 2 ELSE ran[n] + 1
    BY <1>4, <1>6, <2>1
  <2>4. ran' \in [Node -> 0..2]
    <3>1. (IF ran[n] = 2 THEN 2 ELSE ran[n] + 1) \in 0..2
      BY <2>3
    <3> QED  BY <1>4, <2>1, <3>1
  <2>5. RingTypes' /\ WalkOK'
    BY <1>1, <1>3, <1>4, <2>1, <2>2, <2>4 DEF RingTypes, WalkOK
  <2>6. LineOK(l)'
    <3>1. LineIs(l, s, w)'
      BY <1>1, <1>5, SameLine
    <3>2. Len(w) \in Nat /\ i # Len(w) /\ i + 1 \in 1..Len(w) /\ n = w[i + 1]
      <4>1. Len(w) \in Nat
        BY LenProperties
      <4> QED  BY <1>5, <1>8, <4>1 DEF Succ
    <3>3. ASSUME NEW j \in 1..Len(w), w[j] \in due
          PROVE  ran'[w[j]] = IF j <= i + 1 THEN 1 ELSE 0
      <4>1. w[j] \in Node /\ ran[w[j]] = IF j <= i THEN 1 ELSE 0
        BY <1>5, <3>3, Positions
      <4>2. w[j] = n <=> j = i + 1
        BY <1>5, <3>2 DEF Once
      <4>3. CASE j = i + 1
        <5>1. ran[n] = 0
          BY <3>2, <4>1, <4>2, <4>3
        <5>2. ran'[w[j]] = 1
          BY <1>6, <2>3, <4>2, <4>3, <5>1
        <5> QED  BY <3>2, <4>3, <5>2
      <4>4. CASE j # i + 1
        <5>1. ran'[w[j]] = ran[w[j]]
          BY <2>3, <4>1, <4>2, <4>4
        <5>2. j <= i + 1 <=> j <= i
          BY <3>2, <4>4
        <5> QED  BY <4>1, <5>1, <5>2
      <4> QED  BY <4>3, <4>4
    <3>4. Walked(w)'
      BY <2>1, <2>2, <3>2, <3>3 DEF Walked
    <3> QED  BY <3>1, <3>4 DEF LineOK
  <2>7. ASSUME NEW m \in Line \ {l} PROVE LineOK(m)'
    <3>1. PICK s1 \in Seq(Node), w1 \in Seq(Node) : LineIs(m, s1, w1)
      BY DEF RingInv, LineOK
    <3>2. LineIs(m, s1, w1)'
      BY <1>1, <3>1, SameLine
    <3>3. walk'.line # m
      BY <1>b, <2>2
    <3> QED  BY <3>2, <3>3 DEF LineOK
  <2> QED  BY <1>2, <2>5, <2>6, <2>7 DEF RingInv
<1> QED  BY <1>7, <1>8

\* A handler adds a node, or removes another's, while the walk is at its own.
LEMMA FlihAddsStep ==
    ASSUME RingInv, IrqInv', NEW l \in Line, NEW e \in Node, FlihAdds(l, e)
    PROVE  RingInv'
<1>1. /\ walk # Idle /\ change.kind \notin ListChange /\ Free(e)
      /\ list' = Whole(AddKind(l), l, e)
      /\ linked' = [linked EXCEPT ![l] = @ \cup {e}]
      /\ SetMask("enabled", l, imr[Chip(l)])
      /\ UNCHANGED <<change, walk, ran, due>>
  BY DEF FlihAdds
<1>2. list \in Lists /\ linked \in [Line -> SUBSET Node] /\ ran \in [Node -> 0..2]
  BY DEF RingInv, RingTypes
<1>3. /\ \A m \in Line : ~ Changing(m) /\ ~ Changing(m)'
      /\ change'.kind \notin ListChange
      /\ \A m \in Line : e \notin linked[m]
  BY <1>1 DEF Changing, ListChange, Free
<1>4. \A m, k \in Line : m # k => linked[m] \cap linked[k] = {}
  BY DEF RingInv, ChangeApart
<1>5. PICK s \in Seq(Node) : Held(list, l, s, linked[l]) /\ (walk.line = l => Walked(s))
  BY <1>3 DEF RingInv, LineOK, LineIs
<1>6. /\ Within(list, list', l, linked[l] \cup {e})
      /\ Held(list', l, Append(s, e), linked[l] \cup {e})
  BY <1>1, <1>2, <1>3, <1>5, WholeAdds
<1>7. linked'[l] = linked[l] \cup {e} /\ \A m \in Line \ {l} : linked'[m] = linked[m]
  BY <1>1, <1>2
<1>8. RingTypes'
  BY <1>1, <1>2, <1>6 DEF RingTypes, Within
<1>9. ChangeApart'
  BY <1>3, <1>4, <1>7 DEF ChangeApart
<1>10. /\ walk \in [line : Line, node : Node] /\ walk.line < 8
       /\ walk.line \notin imr["master"] /\ due \subseteq linked[walk.line]
  BY <1>1 DEF RingInv, WalkOK
<1>11. WalkOK'
  <2>1. imr'["master"] \subseteq imr["master"]
    BY <1>1 DEF RingInv, IrqInv, IrqTypeOK, SetMask, Unmasked, Chip
  <2>2. linked[walk.line] \subseteq linked'[walk.line]
    BY <1>7, <1>10
  <2> QED  BY <1>1, <1>10, <2>1, <2>2 DEF WalkOK
<1>12. LineOK(l)'
  <2> DEFINE t == Append(s, e)
  <2>1. /\ t \in Seq(Node) /\ Len(t) = Len(s) + 1 /\ t[Len(s) + 1] = e
        /\ \A i \in 1..Len(s) : t[i] = s[i]
    BY Longer
  <2>2. Len(s) \in Nat
    BY LenProperties
  <2> HIDE DEF t
  <2>3. ASSUME walk.line = l PROVE Walked(t)'
    <3>1. PICK i \in 1..Len(s) :
            /\ s[i] = walk.node
            /\ \A j \in 1..Len(s) : s[j] \in due => ran[s[j]] = IF j <= i THEN 1 ELSE 0
      BY <1>5, <2>3 DEF Walked
    <3>2. e \notin due
      BY <1>3, <1>10, <2>3
    <3>3. \A j \in 1..Len(t) : j \in 1..Len(s) \/ j = Len(s) + 1
      BY <2>1, <2>2
    <3>4. i \in 1..Len(t) /\ t[i] = walk.node
      BY <2>1, <2>2, <3>1
    <3>5. \A j \in 1..Len(t) : t[j] \in due => ran[t[j]] = IF j <= i THEN 1 ELSE 0
      BY <2>1, <3>1, <3>2, <3>3
    <3> QED  BY <1>1, <3>4, <3>5 DEF Walked
  <2>4. LineIs(l, t, t)'
    BY <1>3, <1>6, <1>7 DEF LineIs, t
  <2> QED  BY <1>1, <2>1, <2>3, <2>4 DEF LineOK
<1>13. ASSUME NEW m \in Line \ {l} PROVE LineOK(m)'
  <2>1. linked[m] \cap (linked[l] \cup {e}) = {}
    BY <1>3, <1>4
  <2> QED  BY <1>1, <1>3, <1>6, <1>7, <2>1, OthersStay
<1> QED  BY <1>8, <1>9, <1>11, <1>12, <1>13 DEF RingInv

LEMMA FlihRemovesStep ==
    ASSUME RingInv, IrqInv', NEW l \in Line, NEW e \in Node, FlihRemoves(l, e)
    PROVE  RingInv'
<1>1. /\ walk # Idle /\ change.kind \notin ListChange /\ e # walk.node /\ e \in linked[l]
      /\ list' = Whole("remove", l, e)
      /\ linked' = [linked EXCEPT ![l] = @ \ {e}]
      /\ due' = due \ {e}
      /\ UNCHANGED <<change, imr, walk, ran>>
  BY DEF FlihRemoves
<1>2. list \in Lists /\ linked \in [Line -> SUBSET Node] /\ ran \in [Node -> 0..2]
  BY DEF RingInv, RingTypes
<1>3. /\ \A m \in Line : ~ Changing(m) /\ ~ Changing(m)'
      /\ change'.kind \notin ListChange
  BY <1>1 DEF Changing, NoChange, ListChange
<1>4. \A m, k \in Line : m # k => linked[m] \cap linked[k] = {}
  BY DEF RingInv, ChangeApart
<1>5. PICK s \in Seq(Node) : Held(list, l, s, linked[l]) /\ (walk.line = l => Walked(s))
  BY <1>3 DEF RingInv, LineOK, LineIs
<1>6. PICK j \in 1..Len(s) :
        /\ s[j] = e
        /\ Within(list, list', l, linked[l])
        /\ Held(list', l, RemoveAt(s, j), linked[l] \ {e})
  BY <1>1, <1>2, <1>5, WholeRemoves
<1>7. linked'[l] = linked[l] \ {e} /\ \A m \in Line \ {l} : linked'[m] = linked[m]
  BY <1>1, <1>2
<1>8. RingTypes'
  BY <1>1, <1>2, <1>6 DEF RingTypes, Within
<1>9. ChangeApart'
  BY <1>3, <1>4, <1>7 DEF ChangeApart
<1>10. /\ walk \in [line : Line, node : Node] /\ walk.line < 8
       /\ walk.line \notin imr["master"] /\ due \subseteq linked[walk.line]
  BY <1>1 DEF RingInv, WalkOK
<1>11. WalkOK'
  <2>1. due \ {e} \subseteq linked'[walk.line]
    BY <1>7, <1>10
  <2> QED  BY <1>1, <1>10, <2>1 DEF WalkOK
<1>12. LineOK(l)'
  <2> DEFINE t == RemoveAt(s, j)
  <2>1. /\ t \in Seq(Node) /\ Len(t) = Len(s) - 1
        /\ \A i \in 1..(Len(s) - 1) : t[i] = IF i < j THEN s[i] ELSE s[i + 1]
    BY Shorter
  <2>2. Len(s) \in Nat
    BY LenProperties
  <2> HIDE DEF t
  <2>3. ASSUME walk.line = l PROVE Walked(t)'
    <3>1. PICK i \in 1..Len(s) :
            /\ s[i] = walk.node
            /\ \A p \in 1..Len(s) : s[p] \in due => ran[s[p]] = IF p <= i THEN 1 ELSE 0
      BY <1>5, <2>3 DEF Walked
    <3>2. i # j
      BY <1>1, <1>6, <3>1
    <3> DEFINE q == IF j < i THEN i - 1 ELSE i
    <3>3. q \in 1..Len(t) /\ t[q] = walk.node
      BY <2>1, <2>2, <3>1, <3>2
    <3>4. ASSUME NEW p \in 1..Len(t), t[p] \in due
          PROVE  ran[t[p]] = IF p <= q THEN 1 ELSE 0
      <4>1. CASE p < j
        <5>1. p \in 1..Len(s) /\ t[p] = s[p] /\ (p <= q <=> p <= i)
          BY <2>1, <2>2, <3>2, <4>1
        <5> HIDE DEF q
        <5> QED  BY <3>1, <3>4, <5>1
      <4>2. CASE ~ p < j
        <5>1. p + 1 \in 1..Len(s) /\ t[p] = s[p + 1] /\ (p <= q <=> p + 1 <= i)
          BY <2>1, <2>2, <3>2, <4>2
        <5> HIDE DEF q
        <5> QED  BY <3>1, <3>4, <5>1
      <4> QED  BY <4>1, <4>2
    <3> HIDE DEF q
    <3> QED  BY <1>1, <3>3, <3>4 DEF Walked
  <2>4. LineIs(l, t, t)'
    BY <1>3, <1>6, <1>7 DEF LineIs, t
  <2> QED  BY <1>1, <2>1, <2>3, <2>4 DEF LineOK
<1>13. ASSUME NEW m \in Line \ {l} PROVE LineOK(m)'
  <2>1. linked[m] \cap linked[l] = {}
    BY <1>4
  <2> QED  BY <1>1, <1>3, <1>6, <1>7, <2>1, OthersStay
<1> QED  BY <1>8, <1>9, <1>11, <1>12, <1>13 DEF RingInv

LEMMA RingInvStep == RingInv /\ [IrqNext]_irqVars => RingInv'
<1> SUFFICES ASSUME RingInv, [IrqNext]_irqVars PROVE RingInv'
  OBVIOUS
<1>1. IrqInv'
  BY IrqInvStep DEF RingInv
<1>2. CASE Statement
  BY <1>1, <1>2, StatementStep
<1>3. CASE Write
  <2>1. /\ walk = Idle /\ change.kind \notin ListChange
        /\ change'.kind \notin ListChange /\ UNCHANGED <<list, linked, walk, ran, due>>
    BY <1>3 DEF Write, NoChange, ListChange
  <2> QED  BY <1>1, <2>1, MaskStep
<1>4. CASE FlihReturns
  BY <1>1, <1>4, FlihReturnsStep
<1>5. ASSUME NEW l \in Line, HwInt(l) PROVE RingInv'
  BY <1>1, <1>5, HwIntStep
<1>6. ASSUME NEW l \in Line, NEW kind \in {"enabled", "disabled"}, Read(kind, l) PROVE RingInv'
  <2>1. /\ walk = Idle /\ change.kind \notin ListChange
        /\ change'.kind \notin ListChange /\ UNCHANGED <<list, linked, walk, ran, due>>
    BY <1>6 DEF Read, NoChange, ListChange
  <2> QED  BY <1>1, <2>1, MaskStep
<1>7. ASSUME NEW l \in Line, NEW e \in Node, BeginAdd(l, e) \/ BeginRemove(l, e) PROVE RingInv'
  BY <1>1, <1>7, BeginStep
<1>8. ASSUME NEW l \in Line, NEW e \in Node, FlihAdds(l, e) PROVE RingInv'
  BY <1>1, <1>8, FlihAddsStep
<1>9. ASSUME NEW l \in Line, NEW e \in Node, FlihRemoves(l, e) PROVE RingInv'
  BY <1>1, <1>9, FlihRemovesStep
<1>10. CASE UNCHANGED irqVars
  <2>1. UNCHANGED <<list, linked, change, imr, walk, ran, due>>
    BY <1>10 DEF irqVars
  <2>2. RingTypes' /\ WalkOK' /\ ChangeApart'
    BY <2>1 DEF RingInv, RingTypes, WalkOK, ChangeApart, Free, Quiet
  <2>3. ASSUME NEW l \in Line PROVE LineOK(l)'
    <3>1. PICK s \in Seq(Node), w \in Seq(Node) :
            LineIs(l, s, w) /\ (walk.line = l => Walked(w))
      BY DEF RingInv, LineOK
    <3>2. LineIs(l, s, w)'
      BY <2>1, <3>1, SameLine
    <3> QED  BY <2>1, <3>1, <3>2 DEF LineOK, Walked
  <2> QED  BY <1>1, <2>2, <2>3 DEF RingInv
<1> QED  BY <1>2, <1>3, <1>4, <1>5, <1>6, <1>7, <1>8, <1>9, <1>10 DEF IrqNext

\* However handlers add and remove nodes on the way, and whichever statement
\* of an addition or a removal the interrupt came between, a walk that ends
\* has run each handler that stayed in the line once, and none twice.
THEOREM WalkCorrect == IrqSpec => EachRunsOnce
<1>1. RingInv /\ [IrqNext]_irqVars =>
        [walk # Idle /\ walk' = Idle => \A e \in due : ran[e] = 1]_irqVars
  <2> SUFFICES ASSUME RingInv, IrqNext, walk # Idle, walk' = Idle, NEW e \in due
               PROVE  ran[e] = 1
    OBVIOUS
  <2>1. ~ \E l \in Line, n \in Node : FlihAdds(l, n) \/ FlihRemoves(l, n)
    BY DEF FlihAdds, FlihRemoves
  <2>2. FlihReturns
    BY <2>1 DEF IrqNext, Statement, Write, HwInt, Read, BeginAdd, BeginRemove
  <2> QED  BY <2>2, WalkRunsAll
<1> QED  BY <1>1, RingInvInit, RingInvStep, PTL DEF IrqSpec, EachRunsOnce
=============================================================================
