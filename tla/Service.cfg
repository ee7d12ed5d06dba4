CONSTANTS
    Ksetup = Ksetup
    None = None
    ta = ta
    tb = tb
    tc = tc
    pa = pa
    pb = pb
    pc_ = pc_
    Thread = {ta, tb, tc}
    Proc = {pa, pb, pc_}
    ProcOf <- BootProcOf
    ThreadList <- BootLists
    BootOrder <- BootThreads
    Msg = {m1, m2}
    Server = ta
SPECIFICATION ServiceSpec
INVARIANTS NeverRefused RepliesToItsOwn ServesOneAtATime
PROPERTIES EveryRequestAnswered ServerComesBack
