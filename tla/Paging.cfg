CONSTANTS
    q1 = q1
    q2 = q2
    t1 = t1
    t2 = t2
    Proc = {q1, q2}
    Thread = {t1, t2}
    Owner <- MCOwner
    Ksetup = Ksetup
    Touched <- MCTouched
    None = None
    Last = 2
    KernSlots = 1
    KernStart = 6
SPECIFICATION Spec
INVARIANTS SpacesAgree FramesApart TwoFaults
PROPERTIES PagesStay AccessEnds
CHECK_DEADLOCK FALSE
