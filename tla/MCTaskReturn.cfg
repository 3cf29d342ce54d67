SPECIFICATION TaskSpec
CONSTANTS
    MAX_TASK_NUM = 2
    MAX_RUNNING_TASK = 1
    MAX_TIME_SLICE = 5
    PID_BASE = 1
    USHORT = 6
    TIMER_TICKS = 1
    Name = {AppMain}
    NoName = NoName
    MainName = AppMain
    IdleName = IdleName
    Priority = {3}
    MainPri = 3
    IdlePri = 3
    FreeQ = FreeQ
    ReadyQ = ReadyQ
    RunningQ = RunningQ
    ObjectQ = {}
    NULL = NULL
    HeapUnits = 3
    Ebx = {0, 2}
    MaxPid = 5
INVARIANTS
    ReturnEndsTask
