---------------------------- MODULE TaskLifecycle -----------------------------
(***************************************************************************)
(* The scheduler implements the life of tasks that Lifecycle describes:    *)
(* the stage of a TCB is the queue it is in, the task it waits for is the  *)
(* owner of the queue that its event names. Applications that are only     *)
(* registered, ticks and returns that go wrong are not seen.               *)
(***************************************************************************)
EXTENDS TaskInvariant

StageOf(t) ==
    IF t \in Members(kern.queue[FreeQ]) THEN "free"
    ELSE IF t \in Members(kern.queue[ReadyQ]) THEN "ready"
    ELSE IF t \in Members(kern.queue[RunningQ]) THEN "running"
    ELSE "waiting"

Life == INSTANCE Lifecycle
          WITH TCB        <- TaskNode,
               Idle       <- IdleTask,
               Nobody     <- NULL,
               MaxRunning <- MAX_RUNNING_TASK,
               stage      <- [t \in TaskNode |-> StageOf(t)],
               target     <- [t \in TaskNode |-> kern.task[t].event],
               owner      <- kern.cur

\* Whatever the handlers do with queues, events, ids and time slices, seen from
\* outside each of them ends, blocks or preempts the current task, wakes exactly
\* the tasks that waited for one that ended, and gives the processor to a
\* running task (task.c, all of its handlers).
LifecycleSpec == Life!LifeSpec
=============================================================================
