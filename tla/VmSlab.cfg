CONSTANTS
    PageCount = 6
    Reserved = {2}
    CacheCache = CacheCache
    CacheSize = 4
    Sizes = {2, 3, 4}
    Room = 8
    Bufctl = 1
SPECIFICATION Spec
INVARIANTS SlabsFiled ObjectsAccounted PagesAccounted FitNeverFaults
PROPERTY AllocatesApart
CHECK_DEADLOCK FALSE
