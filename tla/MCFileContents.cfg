CONSTANTS
    HDRawSectors = 7
    MAP_ITEM_CNT = 2
    SECT_SIZE = 2
    FE_BYTES = 1
    Name = {f, g, h}
    Byte = {0, 1}
    Missing = Missing
    Closed = Closed
    Operations = {"rename", "delete", "write", "read", "seek", "erase"}
    Lengths = {3}
    Positions = {1}
    MaxOpen = 2
    Disciplined = TRUE
    PowerFails = FALSE
SPECIFICATION ContentsSpec
INVARIANTS
    FSTypeOK
    SectorsPartition
    EntriesInPlace
    CacheFresh
PROPERTIES
    FilesImplemented
SYMMETRY Names
