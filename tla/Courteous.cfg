CONSTANTS
    Ksetup = Ksetup
    None = None
    ta = ta
    tb = tb
    tc = tc
    pa = pa
    pb = pb
    pc = pc
    Thread = {ta, tb, tc}
    Proc = {pa, pb, pc}
    ProcOf <- OneEachProcOf
    ThreadList <- OneEachLists
    BootOrder <- OneEachBoot
    Msg = {m1}
SPECIFICATION TrioSpec
INVARIANTS NoFault SendGraphAcyclic
PROPERTIES KeepsPromise ReadyRuns
