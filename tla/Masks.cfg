CONSTANTS
    Line = {0, 1, 8}
    Node = {n1, n2, n3}
    Null = Null
SPECIFICATION IrqSpec
INVARIANT EnabledLinesPass
