SPECIFICATION TaskFairSpec
CONSTANTS
    MAX_TASK_NUM = 3
    MAX_RUNNING_TASK = 2
    MAX_TIME_SLICE = 5
    PID_BASE = 1
    USHORT = 6
    TIMER_TICKS = 2
    Name = {AppMain}
    NoName = NoName
    MainName = AppMain
    IdleName = IdleName
    Priority = {2, 3}
    MainPri = 3
    IdlePri = 3
    FreeQ = FreeQ
    ReadyQ = ReadyQ
    RunningQ = RunningQ
    ObjectQ = {}
    NULL = NULL
    HeapUnits = 3
    Ebx = {0}
    MaxPid = 5
INVARIANTS
    TaskTypeOK
    TaskInv
    QueueDiscipline
    IdsIdentify
    WaitersHaveEvent
PROPERTIES
    TimeShared
    LifecycleSpec
