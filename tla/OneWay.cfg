CONSTANTS
    Ksetup = Ksetup
    None = None
    ta = ta
    tb = tb
    tc = tc
    pa = pa
    pb = pb
    pc = pc
    Thread = {ta, tb, tc}
    Proc = {pa, pb, pc}
    ProcOf <- EachProcOf
    ThreadList <- EachList
    BootOrder <- EachBoot
    Msg = {m1}
    Sink = ta
SPECIFICATION OneWaySpec
INVARIANT QueuesSurvive
CHECK_DEADLOCK FALSE
