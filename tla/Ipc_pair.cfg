CONSTANTS
    Ksetup = Ksetup
    None = None
    ta = ta
    tb = tb
    tc = tc
    pa = pa
    pb = pb
    pc = pc
    Thread = {ta, tb, tc}
    Proc = {pa, pb}
    ProcOf <- PairProcOf
    ThreadList <- PairLists
    BootOrder <- PairBoot
    Msg = {m1}
SPECIFICATION Spec
INVARIANTS TypeOK QueuesMatchStates RunningIsReady NoMissedRendezvous RunsInItsSpace
PROPERTY BlockedRegistersKept
CHECK_DEADLOCK FALSE
