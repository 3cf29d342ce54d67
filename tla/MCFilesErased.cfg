CONSTANTS
    HDRawSectors = 7
    MAP_ITEM_CNT = 2
    SECT_SIZE = 2
    FE_BYTES = 1
    Name = {f, g, h}
    Byte = {0}
    Missing = Missing
    Closed = Closed
    Operations = {"write", "erase"}
    Lengths = {1, 3}
    Positions = {0}
    MaxOpen = 1
    Disciplined = FALSE
    PowerFails = FALSE
SPECIFICATION FSSpec
INVARIANTS
    PositionInFile
SYMMETRY Names
