CONSTANTS
    Proc = {q1, q2}
    Thread = {t1, t2}
    Wrapper = {w1, w2}
    Page = {a1}
    Ksetup = ksetup
    None = None
    TableLen = 2
    MaxPid = 4
SPECIFICATION Spec
INVARIANTS
    EverythingAccounted
    NothingDangling
    PidFindsProcess
