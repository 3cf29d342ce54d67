------------------------------- MODULE Lifecycle ------------------------------
(***************************************************************************)
(* What the scheduler promises of the life of tasks, without queues, time  *)
(* slices, ids or memory: which stage of its life each task control block  *)
(* (TCB) is in, whose end it waits for, and who owns the processor.        *)
(* Each handler does one thing for the task that owns the processor and    *)
(* then reschedules.                                                       *)
(***************************************************************************)
EXTENDS Naturals, FiniteSets

CONSTANTS
    TCB,         \* task control blocks
    Idle,        \* the idle task, which owns the processor when no other can
    Nobody,      \* "waits for no task"
    MaxRunning   \* tasks that share the processor at a time

VARIABLES
    stage,   \* of each TCB: free, ready, running or waiting
    target,  \* the task that a waiting one waits for
    owner    \* the owner of the processor

life == << stage, target, owner >>

InStage(st, x) == {t \in TCB : st[t] = x}

\* Tasks may be created in free TCBs, and ready tasks start to run while there
\* is room, a new one at once. Nobody else moves.
Admitted(st) ==
    /\ stage' \in [TCB -> {"free", "ready", "running", "waiting"}]
    /\ \A t \in TCB :
          << st[t], stage'[t] >> \in {<< "free", "ready" >>,
                << "free", "running" >>, << "ready", "running" >>}
             \/ stage'[t] = st[t]
    /\ Cardinality(InStage(stage', "running")) <= MaxRunning

\* The processor goes to a running task; the idle task gets it only when no
\* task could run.
Rescheduled(st) ==
    /\ Admitted(st)
    /\ IF InStage(stage', "running") = {}
       THEN owner' = Idle /\ InStage(stage', "ready") = {}
       ELSE owner' \in InStage(stage', "running")

LifeInit ==
    /\ stage \in [TCB -> {"free", "running"}]
    /\ Cardinality(InStage(stage, "running")) = 1
    /\ owner \in InStage(stage, "running")
    /\ target = [t \in TCB |-> Nobody]

\* The timer: the owner may have to make room.
Preempt ==
    /\ \/ Rescheduled(stage)
       \/ owner # Idle /\ Rescheduled([stage EXCEPT ![owner] = "ready"])
    /\ UNCHANGED target

\* The owner waits for the end of another task, or of itself, for ever.
Join(t) ==
    /\ owner # Idle /\ stage[t] # "free"
    /\ target' = [target EXCEPT ![owner] = t]
    /\ Rescheduled([stage EXCEPT ![owner] = "waiting"])

\* The end of the owner releases all who wait for it, and nobody else.
Finish ==
    LET released == {t \in TCB : target[t] = owner}
    IN  /\ owner # Idle
        /\ target' = [t \in TCB |-> IF t \in released THEN Nobody
                                                     ELSE target[t]]
        /\ Rescheduled([t \in TCB |-> IF t = owner THEN "free"
                                      ELSE IF t \in released THEN "ready"
                                      ELSE stage[t]])

LifeNext == Preempt \/ Finish \/ \E t \in TCB : Join(t)

LifeSpec == LifeInit /\ [][LifeNext]_life
=============================================================================
