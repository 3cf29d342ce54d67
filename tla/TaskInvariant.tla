--------------------------- MODULE TaskInvariant ----------------------------
(***************************************************************************)
(* The inductive invariant of the scheduler. Its parts relate the queues   *)
(* to the TCBs linked into them; Between holds after every function that a *)
(* handler calls, Settled when the handler returns to a task.              *)
(***************************************************************************)
EXTENDS Task

\* Inside a handler the idle task may stand before tasks that became running.
IdleFirst(q) ==
    \A a \in QueueId : \A i \in 1 .. Len(q[a]) :
        q[a][i] = IdleTask => a = RunningQ /\ i = 1

\* A free TCB has no id and nobody waits for it.
FreeIsUnused(s) ==
    \A i \in 1 .. Len(s.queue[FreeQ]) :
        LET t == s.queue[FreeQ][i]
        IN  s.task[t].id = 0 /\ s.queue[t] = << >>

\* A TCB in use has at least one slice, and no more than current can count.
HasSlices(s) ==
    \A a \in QueueId \ {FreeQ} : \A i \in 1 .. Len(s.queue[a]) :
        LET t == s.queue[a][i]
        IN  t # IdleTask => s.task[t].total \in 1 .. MAX_TIME_SLICE

Between(s) == /\ s \in KernelState
              /\ NoDuplicate(s.queue)
              /\ NothingLost(s.queue)
              /\ IdleFirst(s.queue)
              /\ FreeIsUnused(s)
              /\ HasSlices(s)
              /\ Len(s.queue[RunningQ]) <= MAX_RUNNING_TASK

\* The running tasks may all be scheduled: before RunningToReady, where the
\* front may have used its last slice, and after it.
SlicesHeld(s) ==
    \A i \in 1 .. Len(s.queue[RunningQ]) :
        LET t == s.task[s.queue[RunningQ][i]]
        IN  s.queue[RunningQ][i] # IdleTask =>
              t.current <= t.total /\ (i # 1 => t.current < t.total)

SlicesLeft(s) ==
    \A i \in 1 .. Len(s.queue[RunningQ]) :
        LET t == s.queue[RunningQ][i]
        IN  t # IdleTask => s.task[t].current < s.task[t].total

Settled(s) ==
    /\ Between(s)
    /\ IdleAlone(s.queue)
    /\ s.queue[RunningQ] # << >>
    /\ s.cur = s.queue[RunningQ][1]
    /\ \A i \in 1 .. Len(s.queue[RunningQ]) :
          LET t == s.task[s.queue[RunningQ][i]]
          IN  s.queue[RunningQ][i] # IdleTask =>
                IF i = 1 THEN 1 <= t.current /\ t.current <= t.total
                         ELSE t.current < t.total

\* The inductive invariant of TaskSpec: besides the properties it implies, it
\* says what the next step needs, that a TCB taken from the free queue has no
\* waiter and that a TCB in use has slices to run.
TaskInv == /\ Settled(kern)
           /\ tick \in 0 .. TIMER_TICKS - 1
           /\ lost \subseteq TaskNode
=============================================================================
