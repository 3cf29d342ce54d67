SPECIFICATION KeyboardSpec
CONSTANTS
    MAX_TASK_NUM = 3
    MAX_RUNNING_TASK = 2
    MAX_TIME_SLICE = 5
    PID_BASE = 1
    USHORT = 6
    TIMER_TICKS = 1
    Name = {AppMain}
    NoName = NoName
    MainName = AppMain
    IdleName = IdleName
    Priority = {3}
    MainPri = 3
    IdlePri = 3
    FreeQ = FreeQ
    ReadyQ = ReadyQ
    RunningQ = RunningQ
    ObjectQ = {keyWait}
    NULL = NULL
    HeapUnits = 2
    Ebx = {0}
    MaxPid = 3
    gKeyWait = keyWait
    KB_BUFF_SIZE = 2
    KeyMax = 2
    NoKey = NoKey
    Key = {30, 225}
INVARIANTS
    KeyboardTypeOK
    NoReaderBesideCode
    NothingOverwritten
PROPERTIES
    WokenWithCode
