-------------------------------- MODULE Task --------------------------------
(***************************************************************************)
(* The scheduler of the kernel: src/src/task.c with the queues it keeps    *)
(* its task control blocks in (queue.c), the events of blocked tasks       *)
(* (event.c) and the timer and fault handlers that enter it (ihandler.c).  *)
(*                                                                         *)
(* Every handler runs with interrupts disabled (interrupt gates and the    *)
(* BeginISR/EndISR macros of kentry.asm), so a handler is one step here.   *)
(* The state of task.c is the record kern; each C function is an operator  *)
(* from a record to a record, called in the order the C code calls them.   *)
(* A while loop that moves nodes between queues is given by the number of  *)
(* its iterations. An operator whose name ends in _Bug is a wrong version  *)
(* of the one that follows it; no specification uses it, and PROJECT.json  *)
(* says which property rejects it.                                         *)
(***************************************************************************)
EXTENDS Naturals, Sequences, FiniteSets

CONSTANTS
    MAX_TASK_NUM,      \* task control blocks (TCBs) besides the idle task's
    MAX_RUNNING_TASK,  \* length limit of gRunningTask
    MAX_TIME_SLICE,    \* a task of priority p runs MAX_TIME_SLICE - p slices
    PID_BASE,          \* first value of gPid
    USHORT,            \* 2^16: the counter Task.current wraps at this value
    TIMER_TICKS,       \* timer interrupts per call of Schedule
    Name, NoName,      \* names of applications; the name of an unnamed one
    MainName,          \* "AppMain", the application the kernel starts
    IdleName,          \* "IdleTask", which FindTaskByName never finds
    Priority,          \* priorities passed to RegApp
    MainPri, IdlePri,  \* priorities of AppMain and of the idle task
    FreeQ, ReadyQ, RunningQ, \* gFreeTaskNode, gReadyTask, gRunningTask
    ObjectQ,           \* the wait queues that belong to no task
    NULL,
    HeapUnits,         \* kernel objects the kernel heap has room for
    Ebx,               \* values the EBX register is told apart by
    MaxPid             \* bound of the model: no application is registered
                       \* that would be given this pid or a later one

\* gTaskBuff: the TCB at index i of the array is node i + 1, and its queue
\* Task.wait is the queue with the same identifier.
TaskNode == 1 .. MAX_TASK_NUM
IdleTask == MAX_TASK_NUM + 1
Node     == TaskNode \union {IdleTask}

MAX_READY_TASK == MAX_TASK_NUM - MAX_RUNNING_TASK

WaitQ   == Node \union ObjectQ
QueueId == {FreeQ, ReadyQ, RunningQ} \union WaitQ

ASSUME SizeAssumption ==
    /\ MAX_TASK_NUM \in Nat \ {0}
    /\ MAX_RUNNING_TASK \in Nat \ {0}
    /\ MAX_RUNNING_TASK < MAX_TASK_NUM
    /\ TIMER_TICKS \in Nat \ {0}
    /\ PID_BASE \in Nat \ {0}
    /\ HeapUnits \in Nat /\ HeapUnits >= 2
    /\ MaxPid \in Nat

\* type.h and task.h: priorities are bytes and MAX_TIME_SLICE is 260, so a
\* task has at least five slices; the scheduler needs two of them.
ASSUME SliceAssumption ==
    /\ USHORT \in Nat /\ MAX_TIME_SLICE \in Nat
    /\ MAX_TIME_SLICE < USHORT
    /\ \A p \in Priority \union {MainPri, IdlePri} :
          p \in Nat /\ p + 2 <= MAX_TIME_SLICE

ASSUME NameAssumption ==
    /\ MainName \in Name /\ NoName \notin Name /\ IdleName \notin Name
    /\ IdleName # NoName
    /\ 0 \in Ebx

ASSUME QueueAssumption ==
    /\ FreeQ # ReadyQ /\ FreeQ # RunningQ /\ ReadyQ # RunningQ
    /\ {FreeQ, ReadyQ, RunningQ} \intersect WaitQ = {}
    /\ ObjectQ \intersect Node = {}
    /\ NULL \notin QueueId

VARIABLES
    kern,  \* the state of task.c and the room left in the kernel heap
    tick,  \* the static counter of TimerHandler
    lost   \* TCBs whose main function returned and left the task alive

TaskRecord == [id      : Nat,                    \* 0: the TCB is free
               name    : Name \union {NoName, IdleName},
               current : Nat,                    \* slices used
               total   : Nat,                    \* slices before it yields
               event   : WaitQ \union {NULL},    \* what it waits for
               ebx     : Ebx]                    \* EBX saved in Task.rv

App == [name : Name \union {NoName}, pri : Priority \union {MainPri}]

KernelState == [queue : [QueueId -> Seq(Node)],
                task  : [Node -> TaskRecord],
                app   : Seq(App),                \* gAppToRun
                cur   : Node,                    \* gCTaskAddr
                pid   : Nat,                     \* gPid
                heap  : Nat]                     \* free kernel objects

-----------------------------------------------------------------------------
(* Queues *)

Smaller(a, b) == IF a <= b THEN a ELSE b
Monus(a, b)   == IF a <= b THEN 0 ELSE a - b

\* n times Queue_Add(to, Queue_Remove(from)), for two different queues.
MoveFront(q, from, to, n) ==
    [q EXCEPT ![from] = SubSeq(@, n + 1, Len(@)),
              ![to]   = @ \o SubSeq(q[from], 1, n)]

Members(queue) == {queue[i] : i \in 1 .. Len(queue)}

Queue_Rotate(queue) == Append(Tail(queue), Head(queue))

-----------------------------------------------------------------------------
(* Creating tasks *)

SetTask(s, t, r) == [u \in Node |-> IF u = t THEN r ELSE s.task[u]]

\* The stack pointers, selectors and descriptors of a TCB are left out; of
\* its saved registers EBX is kept, which InitTask does not write.
InitTask(t, id, name, pri) ==
    [id |-> id, name |-> name, current |-> 0, total |-> MAX_TIME_SLICE - pri,
     event |-> NULL, ebx |-> t.ebx]

\* An application occupies one heap object, and its name another.
AppUnits(s, n) == n + Cardinality({i \in 1 .. n : s.app[i].name # NoName})

\* CreateTask turns n registered applications into ready tasks.
Creatable(s) == Smaller(Smaller(Len(s.app), Len(s.queue[FreeQ])),
                        Monus(MAX_READY_TASK, Len(s.queue[ReadyQ])))

CreateTask(s) ==
    LET n       == Creatable(s)
        made    == Members(SubSeq(s.queue[FreeQ], 1, n))
        init(t) == LET i == CHOOSE i \in 1 .. n : s.queue[FreeQ][i] = t
                   IN  InitTask(s.task[t], s.pid + i - 1,
                                s.app[i].name, s.app[i].pri)
        moved   == MoveFront(s.queue, FreeQ, ReadyQ, n)
    IN  [s EXCEPT
           !.task  = [t \in Node |-> IF t \in made THEN init(t) ELSE s.task[t]],
           !.queue = [x \in QueueId |-> IF x \in made THEN << >> ELSE moved[x]],
           !.app   = SubSeq(@, n + 1, Len(@)),
           !.pid   = @ + n,
           !.heap  = @ + AppUnits(s, n)]

\* The second allocation of AppInfoToRun may fail: the application is then
\* registered without a name.
AppInfoToRun(s, name, pri) ==
    LET named == name # NoName /\ s.heap >= 2
        an    == [name |-> IF named THEN name ELSE NoName, pri |-> pri]
    IN  IF s.heap = 0
        THEN s
        ELSE [s EXCEPT !.app  = Append(@, an),
                       !.heap = @ - (IF named THEN 2 ELSE 1)]

-----------------------------------------------------------------------------
(* Scheduling *)

ReadyToRunning(s) ==
    LET c     == CreateTask(s)
        n     == Smaller(Len(c.queue[ReadyQ]),
                         Monus(MAX_RUNNING_TASK, Len(c.queue[RunningQ])))
        moved == Members(SubSeq(c.queue[ReadyQ], 1, n))
    IN  [c EXCEPT
           !.task  = [t \in Node |-> IF t \in moved
                                     THEN [c.task[t] EXCEPT !.current = 0]
                                     ELSE c.task[t]],
           !.queue = MoveFront(@, ReadyQ, RunningQ, n)]

CheckRunningTask(s) ==
    LET running == s.queue[RunningQ]
    IN  IF running = << >>
        THEN [s EXCEPT !.queue[RunningQ] = << IdleTask >>]
        ELSE IF Len(running) > 1 /\ Head(running) = IdleTask
             THEN [s EXCEPT !.queue[RunningQ] = Tail(running)]
             ELSE s

\* gCTaskAddr = the front of gRunningTask; PrepareForRun(gCTaskAddr)
Dispatch(s) ==
    LET t == Head(s.queue[RunningQ])
    IN  [s EXCEPT !.cur = t,
                  !.task = SetTask(s, t, [s.task[t] EXCEPT
                                    !.current = (@ + 1) % USHORT])]

ScheduleNext(s) ==
    LET c == CheckRunningTask(ReadyToRunning(s))
    IN  Dispatch([c EXCEPT !.queue[RunningQ] = Queue_Rotate(@)])

\* A task that has used its slices would be the first to be ready.
RunningToReady_Bug(s) ==
    LET t == Head(s.queue[RunningQ])
    IN  IF /\ s.queue[RunningQ] # << >>
           /\ t # IdleTask
           /\ s.task[t].current = s.task[t].total
        THEN [s EXCEPT !.queue[RunningQ] = Tail(@), !.queue[ReadyQ] = << t >> \o @]
        ELSE s

RunningToReady(s) ==
    LET t == Head(s.queue[RunningQ])
    IN  IF /\ s.queue[RunningQ] # << >>
           /\ t # IdleTask
           /\ s.task[t].current = s.task[t].total
        THEN [s EXCEPT !.queue = MoveFront(@, RunningQ, ReadyQ, 1)]
        ELSE s

Schedule(s) == ScheduleNext(RunningToReady(s))

-----------------------------------------------------------------------------
(* Waiting and waking *)

\* The node would be added to wq without Queue_Remove.
RunningToWaitting_Bug(s, wq) ==
    IF s.queue[RunningQ] # << >> /\ Head(s.queue[RunningQ]) # IdleTask
    THEN [s EXCEPT !.queue[wq] = Append(@, Head(s.queue[RunningQ]))]
    ELSE s

RunningToWaitting(s, wq) ==
    IF s.queue[RunningQ] # << >> /\ Head(s.queue[RunningQ]) # IdleTask
    THEN [s EXCEPT !.queue = MoveFront(@, RunningQ, wq, 1)]
    ELSE s

\* The waiters would keep the pointer to their event.
WaittingToReady_Bug(s, wq) ==
    LET woken == Members(s.queue[wq])
    IN  [s EXCEPT
           !.queue = MoveFront(@, wq, ReadyQ, Len(s.queue[wq])),
           !.heap  = @ + Cardinality({t \in woken : s.task[t].event # NULL})]

\* Every waiter becomes ready; its event is freed and forgotten.
WaittingToReady(s, wq) ==
    LET woken == Members(s.queue[wq])
    IN  [s EXCEPT
           !.task  = [t \in Node |-> IF t \in woken
                                     THEN [s.task[t] EXCEPT !.event = NULL]
                                     ELSE s.task[t]],
           !.queue = MoveFront(@, wq, ReadyQ, Len(s.queue[wq])),
           !.heap  = @ + Cardinality({t \in woken : s.task[t].event # NULL})]

\* CreateEvent and EventSchedule(WAIT, event); its callers check the heap.
WaitEvent(s, wq) ==
    LET blocked == [s.task[s.cur] EXCEPT !.event = wq]
    IN  ScheduleNext(RunningToWaitting(
            [s EXCEPT !.heap = @ - 1, !.task = SetTask(s, s.cur, blocked)], wq))

\* The freed TCB would keep its id.
KillTask_Bug(s, ebx) ==
    LET t == Head(s.queue[RunningQ])
        n == WaittingToReady(s, t)
        freed == [n.task[t] EXCEPT !.ebx = ebx]
    IN  Schedule([n EXCEPT !.queue = MoveFront(@, RunningQ, FreeQ, 1),
                           !.task  = SetTask(n, t, freed)])

\* Nobody who waits for the task would be woken.
KillTask_WakeBug(s, ebx) ==
    LET t     == Head(s.queue[RunningQ])
        freed == [s.task[t] EXCEPT !.id = 0, !.ebx = ebx]
    IN  Schedule([s EXCEPT !.queue = MoveFront(@, RunningQ, FreeQ, 1),
                           !.task  = SetTask(s, t, freed)])

\* The registers of the task that enters the kernel are saved in its TCB,
\* where they stay when it is killed: ebx is the value EBX had.
KillTask(s, ebx) ==
    LET t == Head(s.queue[RunningQ])
        n == WaittingToReady(s, t)
        freed == [n.task[t] EXCEPT !.id = 0, !.ebx = ebx]
    IN  Schedule([n EXCEPT !.queue = MoveFront(@, RunningQ, FreeQ, 1),
                           !.task  = SetTask(n, t, freed)])

Named(s, name) == {t \in Node : s.task[t].id # 0 /\ s.task[t].name = name}

FindTaskByName(s, name) ==
    IF name = IdleName \/ Named(s, name) = {}
    THEN NULL
    ELSE CHOOSE t \in Named(s, name) : \A u \in Named(s, name) : t <= u

\* The result of CreateEvent would not be checked.
WaitTask_Bug(s, name) ==
    LET t == FindTaskByName(s, name)
    IN  IF t = NULL THEN s ELSE WaitEvent(s, t)

WaitTask(s, name) ==
    LET t == FindTaskByName(s, name)
    IN  IF t = NULL \/ s.heap = 0 THEN s ELSE WaitEvent(s, t)

-----------------------------------------------------------------------------
(* The state TaskModInit and LaunchTask leave *)

BootState ==
    [queue |-> [x \in QueueId |->
                  IF x = FreeQ THEN [i \in TaskNode |-> i] ELSE << >>],
     task  |-> [t \in Node |->
                  [id |-> 0, current |-> 0, event |-> NULL, ebx |-> 0,
                   name  |-> IF t = IdleTask THEN IdleName ELSE NoName,
                   total |-> IF t = IdleTask THEN MAX_TIME_SLICE - IdlePri
                                             ELSE 0]],
     app   |-> << >>,
     cur   |-> IdleTask,
     pid   |-> PID_BASE,
     heap  |-> HeapUnits]

TaskModInit ==
    CheckRunningTask(ReadyToRunning(AppInfoToRun(BootState, MainName, MainPri)))

LaunchTask(s) == Dispatch(s)

TaskInit ==
    /\ kern = LaunchTask(TaskModInit)
    /\ tick = 0
    /\ lost = {}

-----------------------------------------------------------------------------
(* Steps of the kernel *)

\* The counter i of TimerHandler, which no other handler touches.
TimerTick == tick' = (tick + 1) % TIMER_TICKS

TimerHandler ==
    /\ TimerTick
    /\ kern' = IF tick' = 0 THEN Schedule(kern) ELSE kern
    /\ UNCHANGED lost

\* The task that owns the processor executes the code of its application.
UserMode == kern.cur # IdleTask /\ kern.cur \notin lost

\* SysCall(0, 0): the application asks for its own end.
Exit ==
    /\ UserMode
    /\ kern' = KillTask(kern, 0)
    /\ UNCHANGED << tick, lost >>

Wait(name) ==
    /\ UserMode
    /\ kern' = WaitTask(kern, name)
    /\ UNCHANGED << tick, lost >>

RegApp(name, pri) ==
    /\ UserMode
    /\ kern.pid + Len(kern.app) < MaxPid
    /\ kern' = AppInfoToRun(kern, name, pri)
    /\ UNCHANGED << tick, lost >>

\* The end of TaskEntry: main returned with the callee-saved EBX it found,
\* EAX is set to 0 and the int instruction takes EBX for the command. Only
\* command 0 ends the task. Commands 1 and 2 read their parameter from ECX,
\* which holds anything; others do nothing. After the int, TaskEntry returns
\* to no caller: the task stays in lost until it faults.
TaskEntryEnd ==
    LET ebx == kern.task[kern.cur].ebx
    IN  /\ UserMode
        /\ \/ ebx = 0 /\ kern' = KillTask(kern, 0)
           \/ ebx = 1 /\ \E name \in Name : kern' = WaitTask(kern, name)
           \/ ebx = 2 /\ kern.pid + Len(kern.app) < MaxPid
                      /\ \E name \in Name \union {NoName}, pri \in Priority :
                            kern' = AppInfoToRun(kern, name, pri)
           \/ ebx \notin {0, 1, 2} /\ UNCHANGED kern
        /\ lost' = IF ebx = 0 THEN lost ELSE lost \union {kern.cur}
        /\ UNCHANGED tick

\* PageFaultHandler and SegmentFaultHandler; EBX is whatever it was.
Fault ==
    /\ kern.cur # IdleTask
    /\ \E ebx \in Ebx : kern' = KillTask(kern, ebx)
    /\ lost' = lost \ {kern.cur}
    /\ UNCHANGED tick

TaskNext ==
    \/ TimerHandler
    \/ Exit
    \/ TaskEntryEnd
    \/ Fault
    \/ \E name \in Name \union {IdleName} : Wait(name)
    \/ \E name \in Name, pri \in Priority : RegApp(name, pri)

taskVars == << kern, tick, lost >>

TaskSpec == TaskInit /\ [][TaskNext]_taskVars

\* The timer goes on interrupting, whatever task is running: interrupts are
\* enabled whenever a task runs, and nothing masks the timer again. A step
\* that counts a tick is a step of TimerHandler (TIMER_TICKS is at least 2).
TaskFairSpec == TaskSpec /\ WF_tick(TimerTick)
-----------------------------------------------------------------------------
(* Properties *)

\* The variables hold values of their types.
TaskTypeOK == /\ kern \in KernelState
              /\ tick \in 0 .. TIMER_TICKS - 1
              /\ lost \subseteq TaskNode

\* No TCB is linked into two queues, or into one queue twice: a node of the
\* intrusive lists of list.c has a single pair of links, and a second
\* insertion would splice two queues together.
NoDuplicate(q) ==
    \A a, b \in QueueId : \A i \in 1 .. Len(q[a]), j \in 1 .. Len(q[b]) :
        q[a][i] = q[b][j] => a = b /\ i = j

\* No TCB is forgotten: each is free, ready, running or waiting.
NothingLost(q) ==
    \A t \in TaskNode : \E a \in QueueId : \E i \in 1 .. Len(q[a]) :
        q[a][i] = t

\* The idle task is in the running queue only, and only when it is alone.
IdleAlone(q) ==
    \A a \in QueueId : \A i \in 1 .. Len(q[a]) :
        q[a][i] = IdleTask => a = RunningQ /\ Len(q[a]) = 1

\* After any sequence of system calls, faults and timer interrupts, every TCB
\* is in exactly one queue (task.c moves them with Queue_Remove/Queue_Add
\* pairs spread over eight functions).
QueueDiscipline == /\ NoDuplicate(kern.queue)
                   /\ NothingLost(kern.queue)
                   /\ IdleAlone(kern.queue)

\* The task whose context is loaded is the front of gRunningTask, which
\* WaitEvent and KillTask take for the current task without comparing them
\* (task.c:206, 319, 406), and no more than MAX_RUNNING_TASK tasks run.
CurrentIsFront == /\ kern.queue[RunningQ] # << >>
                  /\ kern.cur = Head(kern.queue[RunningQ])
                  /\ Len(kern.queue[RunningQ]) <= MAX_RUNNING_TASK

\* RunningToReady compares current with total for equality (task.c:193). No
\* task steps over its total unseen: the front has used between one and total
\* slices, and a task behind it has at least one left.
SliceBound ==
    LET running == kern.queue[RunningQ]
    IN  \A i \in 1 .. Len(running) :
          LET t == kern.task[running[i]]
          IN  running[i] # IdleTask =>
                IF i = 1 THEN 1 <= t.current /\ t.current <= t.total
                         ELSE t.current < t.total

\* A TCB is free exactly while its id is 0, and no two live tasks share an id:
\* strict mutexes and FindTaskByName take ids for identities (task.c:105,
\* mutex.c:100, 146) although TCBs are reused.
IdsIdentify ==
    /\ \A t \in TaskNode :
          kern.task[t].id = 0 <=> t \in Members(kern.queue[FreeQ])
    /\ \A t, u \in TaskNode :
          kern.task[t].id = kern.task[u].id /\ kern.task[t].id # 0 => t = u
    /\ kern.task[IdleTask].id = 0

\* A task is in a wait queue exactly while its event names that queue, and
\* nobody waits for a TCB that is free: whoever waited for its task was woken
\* before the TCB could be used again (task.c:217-230, 404-417).
WaitersHaveEvent ==
    /\ \A t \in TaskNode, w \in WaitQ :
          t \in Members(kern.queue[w]) <=> kern.task[t].event = w
    /\ \A t \in Node : kern.task[t].id = 0 => kern.queue[t] = << >>

\* Heap objects of the scheduler: the event of each blocked task, and each
\* registered application with its name.
TaskUnits ==
    Cardinality({t \in Node : kern.task[t].event # NULL})
      + AppUnits(kern, Len(kern.app))

\* Time sharing: when from some point on every task computes and makes no
\* system call, each runnable task gets the processor again and again, also
\* when there are more of them than gRunningTask holds and when their time
\* slices differ (the comment at task.c:12 speaks of a bug that the choice
\* of MAX_TIME_SLICE avoids).
Runnable(t) == t \in Members(kern.queue[ReadyQ]) \union Members(kern.queue[RunningQ])

TimeShared ==
    <>[][TimerTick]_taskVars =>
        \A t \in TaskNode : []<>(kern.cur = t) \/ <>[]~Runnable(t)

\* A task whose main function returns is destroyed (comments task.c:31 and
\* task.c:39).
ReturnEndsTask == lost = {}
=============================================================================
