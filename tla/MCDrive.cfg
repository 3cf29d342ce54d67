SPECIFICATION DriveSpec
CONSTANTS
    SECTORS = 2
    Content = {0, 1}
    POLLS = 2
INVARIANT DriveTypeOK
PROPERTIES DiskImplemented CallsReturn
