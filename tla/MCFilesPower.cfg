CONSTANTS
    HDRawSectors = 8
    MAP_ITEM_CNT = 2
    SECT_SIZE = 2
    FE_BYTES = 1
    Name = {f, g}
    Byte = {0, 1}
    Missing = Missing
    Closed = Closed
    Operations = {"rename", "write", "seek"}
    Lengths = {3}
    Positions = {0}
    MaxOpen = 2
    Disciplined = TRUE
    PowerFails = TRUE
SPECIFICATION FSSpec
INVARIANTS
    NoSharedSector
PROPERTIES
    FailureIsLocal
SYMMETRY Names
CHECK_DEADLOCK FALSE
