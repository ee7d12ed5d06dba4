CONSTANTS
    User = {t1, t2}
    KSetup = KSetup
    None = None
    Val = {0, 1}
    Vector = {0, 14, 15, 32, 33, 50}
    Code = {2, 4}
SPECIFICATION Spec
INVARIANT HandlerSeesCause
PROPERTY ResumesWhereInterrupted
CHECK_DEADLOCK FALSE
