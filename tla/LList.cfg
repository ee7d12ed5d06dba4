CONSTANTS
    Item = {i1, i2, i3, i4}
    List = {l1, l2}
    Null = Null
SPECIFICATION Spec
INVARIANT Rings
