------------------------------- MODULE Mutex --------------------------------
(***************************************************************************)
(* Mutexes: src/src/mutex.c on top of the scheduler, with the loop of      *)
(* EnterCritical (src/src/syscall.c) that calls it and the applications    *)
(* that use it. A mutex is identified with its address, which is also the  *)
(* identifier of its wait queue; an address may be used again after        *)
(* DestroyMutex has freed it.                                              *)
(***************************************************************************)
EXTENDS Task

CONSTANTS
    MutexAddr   \* addresses Malloc can return for a Mutex

ASSUME MutexAssumption ==
    /\ MutexAddr \subseteq ObjectQ
    /\ 2 \in Ebx

VARIABLES
    mutex,     \* the mutexes; gMList is the set of the valid ones
    entering,  \* the mutex whose EnterCritical a task has not returned from
    inside     \* the mutexes whose critical sections a task was let into and has
               \* not left; a normal mutex is left for all by whoever unlocks it

MutexRecord == [valid : BOOLEAN, type : {"Normal", "Strict"}, lock : Nat]

Me          == kern.cur
CurrentTaskId == kern.task[Me].id

NoMutex == [valid |-> FALSE, type |-> "Normal", lock |-> 0]

MutexInit ==
    /\ TaskInit
    /\ mutex = [m \in MutexAddr |-> NoMutex]
    /\ entering = [t \in TaskNode |-> NULL]
    /\ inside = [t \in TaskNode |-> {}]

mutexVars == << taskVars, mutex, entering, inside >>

\* The current task executes code of its application, not a system call.
InApplication == UserMode /\ entering[Me] = NULL

-----------------------------------------------------------------------------
(* CreateMutex and DestroyMutex *)

\* The result of Malloc would not be checked.
SysCreateMutex_Bug(m, type) ==
    /\ InApplication
    /\ ~mutex[m].valid
    /\ kern' = [kern EXCEPT !.heap = @ - 1]
    /\ mutex' = [mutex EXCEPT ![m] = [valid |-> TRUE, type |-> type, lock |-> 0]]
    /\ UNCHANGED << tick, lost, entering, inside >>

\* Nobody is inside the new mutex, also when the address was used before.
SysCreateMutex(m, type) ==
    /\ InApplication
    /\ ~mutex[m].valid
    /\ IF kern.heap = 0
       THEN UNCHANGED << kern, mutex, inside >>
       ELSE /\ kern' = [kern EXCEPT !.heap = @ - 1]
            /\ mutex' = [mutex EXCEPT
                           ![m] = [valid |-> TRUE, type |-> type, lock |-> 0]]
            /\ inside' = [t \in TaskNode |-> inside[t] \ {m}]
    /\ UNCHANGED << tick, lost, entering >>

\* A locked mutex would be destroyed.
SysDestroyMutex_Bug(m) ==
    /\ InApplication
    /\ mutex[m].valid
    /\ kern' = [kern EXCEPT !.heap = @ + 1]
    /\ mutex' = [mutex EXCEPT ![m] = NoMutex]
    /\ UNCHANGED << tick, lost, entering, inside >>

\* The memory of the mutex would not be freed.
SysDestroyMutex_LeakBug(m) ==
    /\ InApplication
    /\ mutex[m].valid
    /\ mutex' = IF mutex[m].lock = 0 THEN [mutex EXCEPT ![m] = NoMutex]
                                     ELSE mutex
    /\ UNCHANGED << kern, tick, lost, entering, inside >>

SysDestroyMutex(m) ==
    /\ InApplication
    /\ mutex[m].valid
    /\ IF mutex[m].lock = 0
       THEN /\ kern' = [kern EXCEPT !.heap = @ + 1]
            /\ mutex' = [mutex EXCEPT ![m] = NoMutex]
       ELSE UNCHANGED << kern, mutex >>
    /\ UNCHANGED << tick, lost, entering, inside >>

-----------------------------------------------------------------------------
(* EnterCritical: do SysEnterCritical while wait = 1. The variable wait is   *)
(* 1 exactly while entering names the mutex.                                 *)

\* SysNormalEnter and SysStrictEnter find the mutex free, or its own.
Acquire(m) ==
    /\ \/ mutex[m].lock = 0
       \/ mutex[m].type = "Strict" /\ mutex[m].lock = CurrentTaskId
    /\ mutex' = [mutex EXCEPT ![m].lock =
                   IF mutex[m].type = "Strict" THEN CurrentTaskId ELSE 1]
    /\ entering' = [entering EXCEPT ![Me] = NULL]
    /\ inside' = [inside EXCEPT ![Me] = @ \union {m}]
    /\ UNCHANGED kern

\* wait would not be set: the task goes on when it is woken.
DoWait_OnceBug(m) ==
    /\ mutex[m].lock # 0
    /\ mutex[m].type = "Strict" => mutex[m].lock # CurrentTaskId
    /\ kern' = IF kern.heap = 0 THEN kern ELSE WaitEvent(kern, m)
    /\ inside' = [inside EXCEPT ![Me] = @ \union {m}]
    /\ UNCHANGED << mutex, entering >>

\* DoWait: the mutex is taken. When no memory is left for the event, wait
\* keeps its value: 0 in the first call, so that EnterCritical returns.
DoWait(m) ==
    /\ mutex[m].lock # 0
    /\ mutex[m].type = "Strict" => mutex[m].lock # CurrentTaskId
    /\ IF kern.heap = 0
       THEN /\ inside' = IF entering[Me] = NULL
                         THEN [inside EXCEPT ![Me] = @ \union {m}] ELSE inside
            /\ UNCHANGED << kern, entering >>
       ELSE /\ kern' = WaitEvent(kern, m)
            /\ entering' = [entering EXCEPT ![Me] = m]
            /\ UNCHANGED inside
    /\ UNCHANGED mutex

\* The first call is made with a valid mutex, a later one may find that the
\* mutex has been destroyed: then wait stays 1 and the loop goes on.
SysEnterCritical(m) ==
    /\ UserMode
    /\ entering[Me] = m \/ (entering[Me] = NULL /\ mutex[m].valid)
    /\ IF mutex[m].valid
       THEN Acquire(m) \/ DoWait(m)
       ELSE UNCHANGED << kern, mutex, entering, inside >>
    /\ UNCHANGED << tick, lost >>

-----------------------------------------------------------------------------
(* ExitCritical *)

SysNormalExit(m) ==
    /\ mutex' = [mutex EXCEPT ![m].lock = 0]
    /\ kern' = WaittingToReady(kern, m)

\* KillTask for a task that is not the owner; EBX holds the command 2.
SysStrictExit(m) ==
    IF mutex[m].lock = CurrentTaskId
    THEN /\ SysNormalExit(m)
         /\ inside' = [inside EXCEPT ![Me] = @ \ {m}]
    ELSE /\ kern' = KillTask(kern, 2)
         /\ inside' = [inside EXCEPT ![Me] = {}]
         /\ UNCHANGED mutex

SysExitCritical(m) ==
    /\ InApplication
    /\ mutex[m].valid
    /\ IF mutex[m].type = "Normal"
       THEN /\ SysNormalExit(m)
            /\ inside' = [t \in TaskNode |-> inside[t] \ {m}]
       ELSE SysStrictExit(m)
    /\ UNCHANGED << tick, lost, entering >>

-----------------------------------------------------------------------------
(* The scheduler's own steps *)

\* KillTask does not release the mutexes of the task.
TaskEnds ==
    /\ Exit \/ TaskEntryEnd
    /\ inside' = IF kern'.task[Me].id # CurrentTaskId
                 THEN [inside EXCEPT ![Me] = {}] ELSE inside
    /\ UNCHANGED << mutex, entering >>

TaskFaults ==
    /\ Fault
    /\ inside' = [inside EXCEPT ![Me] = {}]
    /\ entering' = [entering EXCEPT ![Me] = NULL]
    /\ UNCHANGED << mutex >>

MutexNext ==
    \/ TimerHandler /\ UNCHANGED << mutex, entering, inside >>
    \/ TaskFaults
    \/ InApplication /\ TaskEnds
    \/ /\ InApplication
       /\ \/ \E name \in Name \union {IdleName} : Wait(name)
          \/ \E name \in Name, pri \in Priority : RegApp(name, pri)
       /\ UNCHANGED << mutex, entering, inside >>
    \/ \E m \in MutexAddr :
          \/ \E type \in {"Normal", "Strict"} : SysCreateMutex(m, type)
          \/ SysDestroyMutex(m)
          \/ SysEnterCritical(m)
          \/ SysExitCritical(m)

MutexSpec == MutexInit /\ [][MutexNext]_mutexVars

-----------------------------------------------------------------------------
(* Properties *)

\* The variables hold values of their types.
MutexTypeOK == /\ TaskTypeOK
               /\ mutex \in [MutexAddr -> MutexRecord]
               /\ entering \in [TaskNode -> MutexAddr \union {NULL}]
               /\ inside \in [TaskNode -> SUBSET MutexAddr]

\* No task sleeps on a mutex that is free or was destroyed: nothing would
\* wake it (mutex.c:43-68, 82-115, 135-142).
NoLostWakeup ==
    \A m \in MutexAddr :
        ~mutex[m].valid \/ mutex[m].lock = 0 => kern.queue[m] = << >>

\* Every kernel object is free, belongs to a waiter or to a registered
\* application, or is a valid mutex (mutex.c:11, 59, 72).
MutexHeapBalanced ==
    kern.heap + TaskUnits + Cardinality({m \in MutexAddr : mutex[m].valid})
      = HeapUnits
=============================================================================
