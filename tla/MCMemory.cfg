SPECIFICATION MemSpec
CONSTANTS
    MemBase = 1
    MemSize = 22
    FM_NODE_SIZE = 1
    FM_ALLOC_SIZE = 2
    VM_HEAD_SIZE = 1
    UINT = 32
    Size = {1, 2, 3, 4}
INVARIANTS
    LiveDisjoint
    ListTiles
    NothingLeaks
PROPERTIES
    StaleFreeIgnored
