-------------------------------- MODULE Irq --------------------------------
(***************************************************************************)
(* kern/irq.c and arch/x86/pic.c: the handlers (flih) of each interrupt    *)
(* line, a circular list per line, and the masks of the two chips.         *)
(*                                                                         *)
(* Kernel code that changes a list runs with interrupts on, as main() does *)
(* when it sets up the clock: an interrupt may come between any two of its *)
(* statements. A flih runs with interrupts off, so that what it changes it *)
(* changes at once, between the kernel's read and write of a mask too.     *)
(* Drivers keep three rules the kernel does not enforce: a flih leaves its *)
(* own node linked, it changes nothing when it interrupts a change of a    *)
(* list, and the head of a line is changed only while it is masked.        *)
(***************************************************************************)
EXTENDS Integers

CONSTANTS
    Line,  \* interrupt vectors, among the IRQ_VECTORS that have a list
    Node,  \* the struct irq_node of drivers
    Null

ASSUME IrqAssumption == Line \subseteq 0..15 /\ Null \notin Node

VARIABLES
    list,    \* irq_flih and the next and prev of the nodes
    linked,  \* the nodes whose addition to a line has ended, removal not begun
    change,  \* the call of irq_add_flih, irq_remove_flih, ... under way
    imr,     \* the bits set in the mask register of each chip
    opened,  \* the lines last enabled, not disabled (history)
    lost,    \* those a flih opened across a call for their chip (history)
    walk,    \* the line and the node whose flih runs, in irq_handle_flih
    ran,     \* how often each flih ran in this walk, up to twice (history)
    due      \* the nodes linked since this walk began (history)

irqVars == <<list, linked, change, imr, opened, lost, walk, ran, due>>

NoChange == [kind |-> "none"]
ListChange == {"first", "last", "remove"}
Idle     == [line |-> -1, node |-> Null]
Bit      == 0..7

Chip(l) == IF l < 8 THEN "master" ELSE "slave"

\* irq_setup; pic_setup masks every line but the one of the slave.
IrqInit ==
    /\ list = [head |-> [l \in Line |-> Null],
               next |-> [e \in Node |-> Null],
               prev |-> [e \in Node |-> Null]]
    /\ linked = [l \in Line |-> {}]
    /\ change = NoChange
    /\ imr = [master |-> Bit \ {2}, slave |-> Bit]
    /\ opened = {2}
    /\ lost = {}
    /\ walk = Idle
    /\ ran = [e \in Node |-> 0]
    /\ due = {}

-----------------------------------------------------------------------------
\* LLIST_REMOVE that does not move the head unless the list becomes empty.
SlipHeadAfter(L, l, e) ==
    IF L.head[l] = e /\ L.next[e] = e THEN Null ELSE L.head[l]

\* The head of line l once e is out of its ring.
HeadAfter(L, l, e) ==
    IF L.head[l] # e THEN L.head[l]
    ELSE IF L.next[e] = e THEN Null ELSE L.next[e]

\* Statement k of LLIST_ADD to a line that has no node, to one that has, and
\* of LLIST_REMOVE.
LinkFirst(L, l, e, k) ==
    CASE k = 1 -> [L EXCEPT !.head[l] = e]
      [] k = 2 -> [L EXCEPT !.next[e] = e]
      [] k = 3 -> [L EXCEPT !.prev[e] = e]

LinkLast(L, l, e, k) ==
    CASE k = 1 -> [L EXCEPT !.prev[e] = L.prev[L.head[l]]]
      [] k = 2 -> [L EXCEPT !.next[e] = L.head[l]]
      [] k = 3 -> [L EXCEPT !.next[L.prev[L.head[l]]] = e]
      [] k = 4 -> [L EXCEPT !.prev[L.head[l]] = e]

Unlink(L, l, e, k) ==
    CASE k = 1 -> [L EXCEPT !.next[L.prev[e]] = L.next[e]]
      [] k = 2 -> [L EXCEPT !.prev[L.next[e]] = L.prev[e]]
      [] k = 3 -> [L EXCEPT !.head[l] = HeadAfter(L, l, e)]

Stmt(L, kind, l, e, k) ==
    CASE kind = "first"  -> LinkFirst(L, l, e, k)
      [] kind = "last"   -> LinkLast(L, l, e, k)
      [] kind = "remove" -> Unlink(L, l, e, k)

Stmts(kind) == IF kind = "last" THEN 4 ELSE 3

\* All the statements of a call at once.
Whole(kind, l, e) ==
    LET After1 == Stmt(list, kind, l, e, 1)
        After2 == Stmt(After1, kind, l, e, 2)
        After3 == Stmt(After2, kind, l, e, 3)
    IN  IF Stmts(kind) = 3 THEN After3 ELSE Stmt(After3, kind, l, e, 4)

AddKind(l) == IF list.head[l] = Null THEN "first" ELSE "last"

SlipUnmasked(n, read) == Bit \ {n}

\* The mask pic_enable_irq and pic_disable_irq write, from what they read. A
\* bit past the seventh falls out of the byte: that of a line of the slave.
Unmasked(n, read) == read \ {n}
Masked(n, read)   == (read \cup {n}) \cap Bit

\* pic_enable_irq and pic_disable_irq, from the read on.
SetMask(kind, l, read) ==
    IF kind = "enabled"
    THEN /\ imr' = [imr EXCEPT ![Chip(l)] = Unmasked(l, read)]
         /\ opened' = opened \cup {l}
    ELSE /\ imr' = [imr EXCEPT ![Chip(l)] = Masked(l, read)]
         /\ opened' = opened \ {l}

-----------------------------------------------------------------------------
(* A call made with interrupts on, statement by statement.                 *)

Free(e) == \A l \in Line : e \notin linked[l]

\* The head of line l may change: no interrupt will find it half done.
Quiet(l) == l < 8 => l \in imr["master"]

BeginAdd(l, e) ==
    /\ walk = Idle /\ change = NoChange
    /\ Free(e)
    /\ AddKind(l) = "first" => Quiet(l)
    /\ change' = [kind |-> AddKind(l), line |-> l, node |-> e, step |-> 1]
    /\ UNCHANGED <<list, linked, imr, opened, lost, walk, ran, due>>

\* irq_remove_flih, of a node that is in that line.
BeginRemove(l, e) ==
    /\ walk = Idle /\ change = NoChange
    /\ e \in linked[l]
    /\ list.head[l] = e => Quiet(l)
    /\ change' = [kind |-> "remove", line |-> l, node |-> e, step |-> 1]
    /\ linked' = [linked EXCEPT ![l] = @ \ {e}]
    /\ UNCHANGED <<list, imr, opened, lost, walk, ran, due>>

\* The next statement of the call. An addition ends by irq_enable.
Statement ==
    /\ walk = Idle
    /\ change.kind \in ListChange
    /\ LET c == change IN
       /\ list' = Stmt(list, c.kind, c.line, c.node, c.step)
       /\ IF c.step < Stmts(c.kind)
          THEN change' = [c EXCEPT !.step = @ + 1] /\ UNCHANGED linked
          ELSE IF c.kind = "remove"
          THEN change' = NoChange /\ UNCHANGED linked
          ELSE /\ change' = [kind |-> "enable", line |-> c.line]
               /\ linked' = [linked EXCEPT ![c.line] = @ \cup {c.node}]
    /\ UNCHANGED <<imr, opened, lost, walk, ran, due>>

\* irq_enable and irq_disable read the mask first ...
Read(kind, l) ==
    /\ walk = Idle
    /\ \/ change = [kind |-> "enable", line |-> l] /\ kind = "enabled"
       \/ change = NoChange
    /\ change' = [kind |-> kind, line |-> l, read |-> imr[Chip(l)]]
    /\ UNCHANGED <<list, linked, imr, opened, lost, walk, ran, due>>

\* ... and write it back.
Write ==
    /\ walk = Idle
    /\ change.kind \in {"enabled", "disabled"}
    /\ SetMask(change.kind, change.line, change.read)
    /\ lost' = lost \ {change.line}
    /\ change' = NoChange
    /\ UNCHANGED <<list, linked, walk, ran, due>>

-----------------------------------------------------------------------------
(* irq_handle_flih, with interrupts off.                                   *)

\* The chips let line l through: a line of the slave by way of line 2.
Passes(l) == IF l < 8 THEN l \notin imr["master"]
             ELSE l - 8 \notin imr["slave"] /\ 2 \notin imr["master"]

\* hwint_xx: the first flih of a line that has one.
HwInt(l) ==
    /\ walk = Idle
    /\ Passes(l)
    /\ list.head[l] # Null
    /\ walk' = [line |-> l, node |-> list.head[l]]
    /\ ran' = [e \in Node |-> IF e = list.head[l] THEN 1 ELSE 0]
    /\ due' = linked[l]
    /\ UNCHANGED <<list, linked, change, imr, opened, lost>>

\* The kernel has read the mask of the chip of line l and not written it.
Overlaps(l) ==
    change.kind \in {"enabled", "disabled"} /\ Chip(change.line) = Chip(l)

\* What a flih may do: add a node to a line, or remove another one's. An
\* addition ends by irq_enable; what the interrupted call writes afterwards is
\* the mask it read before.
FlihAdds(l, e) ==
    /\ walk # Idle /\ change.kind \notin ListChange
    /\ Free(e)
    /\ list' = Whole(AddKind(l), l, e)
    /\ linked' = [linked EXCEPT ![l] = @ \cup {e}]
    /\ SetMask("enabled", l, imr[Chip(l)])
    /\ lost' = IF Overlaps(l) THEN lost \cup {l} ELSE lost \ {l}
    /\ UNCHANGED <<change, walk, ran, due>>

FlihRemoves(l, e) ==
    /\ walk # Idle /\ change.kind \notin ListChange
    /\ e # walk.node /\ e \in linked[l]
    /\ list' = Whole("remove", l, e)
    /\ linked' = [linked EXCEPT ![l] = @ \ {e}]
    /\ due' = due \ {e}
    /\ UNCHANGED <<change, imr, opened, lost, walk, ran>>

SlipWalkIsOver(n) == list.next[n] = list.head[walk.line]

\* LLIST_ISHEAD of the node that follows.
WalkIsOver(n) == n = list.head[walk.line]

\* The flih returns and the walk goes on with the successor its node has by
\* now, or ends: EOI, and interrupts are on again.
FlihReturns ==
    /\ walk # Idle
    /\ LET n == list.next[walk.node] IN
       IF WalkIsOver(n)
       THEN /\ walk' = Idle
            /\ ran' = [e \in Node |-> 0]
            /\ due' = {}
       ELSE /\ walk' = [walk EXCEPT !.node = n]
            /\ ran' = [ran EXCEPT ![n] = IF @ = 2 THEN 2 ELSE @ + 1]
            /\ UNCHANGED due
    /\ UNCHANGED <<list, linked, change, imr, opened, lost>>

IrqNext ==
    \/ Statement
    \/ Write
    \/ FlihReturns
    \/ \E l \in Line :
        \/ HwInt(l)
        \/ \E kind \in {"enabled", "disabled"} : Read(kind, l)
        \/ \E e \in Node : \/ BeginAdd(l, e) \/ BeginRemove(l, e)
                           \/ FlihAdds(l, e) \/ FlihRemoves(l, e)

\* Every flih returns.
IrqSpec == IrqInit /\ [][IrqNext]_irqVars /\ WF_irqVars(FlihReturns)

-----------------------------------------------------------------------------
(* Properties                                                              *)

\* An interrupt comes to its end, whatever the handlers add and remove on the
\* way and wherever it interrupted a change of the same list, unless they add
\* for ever: with interrupts off nothing else would run any more.
WalkEnds ==
    \/ []<><<\E l \in Line, e \in Node : FlihAdds(l, e)>>_irqVars
    \/ walk # Idle ~> walk = Idle

\* All the handlers of a line are executed (irq.c:161): each that was linked
\* from the beginning of the walk to its end, and once.
EachRunsOnce == [][walk # Idle /\ walk' = Idle => \A e \in due : ran[e] = 1]_irqVars

\* A line of the master is open just when the last call for it enabled it: no
\* call leaks into another line, and the only change that may be lost is one
\* a handler makes between the read and the write of a call for another line.
MasksFollowCalls == \A l \in Bit \ lost : l \in opened <=> l \notin imr["master"]

\* "Enable n th IRQ line" of "IRQ : 0 -> 15" (pic.c:213, 219): interrupts pass
\* on a line that the last call for it enabled.
EnabledLinesPass ==
    walk = Idle /\ change = NoChange => \A l \in Line \cap opened : Passes(l)
=============================================================================
