CONSTANTS
    Maps <- MCMaps
    Lowers = {0, 3}
    Uppers = {0, 32}
    LowStart = 4
    RomStart = 6
    RomSize = 1
    HighStart = 8
    MmapMax = 4
    Limit = 48
    Page = 4
    Word = 2
    ByteBits = 2
    KernStart = 8
    KernEnd = 11
    ModLists <- MCModLists
    ModCount = 2
    PoolPages = 1
    TableSize = 4
    Leftover = {"USED", "FREE"}
SPECIFICATION BootSpec
INVARIANTS
    SortPermutes
    InOrderDisjoint
    FirstEntryWins
    NoneAbove4GB
    ModulesIntact
    PagesAccountedFor

CHECK_DEADLOCK FALSE
