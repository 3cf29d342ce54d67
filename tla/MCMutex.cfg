SPECIFICATION MutexSpec
CONSTANTS
    MAX_TASK_NUM = 3
    MAX_RUNNING_TASK = 2
    MAX_TIME_SLICE = 5
    PID_BASE = 1
    USHORT = 6
    TIMER_TICKS = 1
    Name = {AppMain}
    NoName = NoName
    MainName = AppMain
    IdleName = IdleName
    Priority = {3}
    MainPri = 3
    IdlePri = 3
    FreeQ = FreeQ
    ReadyQ = ReadyQ
    RunningQ = RunningQ
    ObjectQ = {m1}
    NULL = NULL
    HeapUnits = 4
    Ebx = {0, 1, 2, 3}
    MaxPid = 4
    MutexAddr = {m1}
    Absent = Absent
    Nobody = Nobody
    Somebody = Somebody
    Gone = Gone
INVARIANTS
    MutexTypeOK
    NoLostWakeup
    MutexHeapBalanced
PROPERTIES
    LockImplemented
