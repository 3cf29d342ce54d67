--------------------------------- MODULE Apps ---------------------------------
(***************************************************************************)
(* Applications as the shell and the demonstrations see the system: tasks  *)
(* with names, RegApp, Wait and Exit (src/src/syscall.c 19-43), mutexes    *)
(* (module Lock, which module MutexLock shows the kernel to implement) and *)
(* the screen. One step of a task is what it does between two accesses to  *)
(* what it shares with others; tasks interleave at every step. A task is   *)
(* known by its name, which the applications here use once at a time.      *)
(* There is memory enough for all of them, and the shell has written       *)
(* nowhere but into its own variables.                                     *)
(***************************************************************************)
EXTENDS Lock, Screen, Sequences

VARIABLES
    toRun,  \* gAppToRun: what RegApp has registered and CreateTask not created
    pc,     \* where each task is in its function, "absent" if there is none
    next,   \* the local variable next of each task
    run,    \* the local variable run of each task
    pos     \* the position of the cursor

taskVars == << pc, next, run >>
appVars == << lockVars, starved, toRun, taskVars, pos >>

AppInit ==
    /\ LockInit /\ starved = FALSE
    /\ toRun = << >>
    /\ pc = [c \in Client |-> "absent"]
    /\ next = [c \in Client |-> 0]
    /\ run = [c \in Client |-> TRUE]

Absence(c) == pc[c] = "absent"

\* AppInfoToRun for each of the applications in turn.
RegApps(infos) == toRun' = toRun \o infos

\* CreateTask and InitTask, at the next reschedule: fewer tasks exist than there
\* is room for. The task starts with its local variables initialised.
CreateTask ==
    /\ toRun # << >>
    /\ Absence(Head(toRun).name)
    /\ toRun' = Tail(toRun)
    /\ pc' = [pc EXCEPT ![Head(toRun).name] = Head(toRun).main]
    /\ UNCHANGED << lockVars, starved, next, run, pos >>

-----------------------------------------------------------------------------
(* Steps of a task. Each says what becomes of lock, in, pc, next and run.    *)

Goto(c, from, to) ==
    /\ pc[c] = from
    /\ pc' = [pc EXCEPT ![c] = to]

\* EnterCritical returns: the mutex was free.
Entering(c, m, from, to) ==
    /\ Goto(c, from, to)
    /\ Enter(c, m)
    /\ UNCHANGED << next, run >>

Exiting(c, m, from, to) ==
    /\ Goto(c, from, to)
    /\ Exit(c, m)

DestroyMutex(m) ==
    \/ Destroy(m)
    \/ ~IsFree(m) /\ UNCHANGED lockVars

\* Deinit would wait for any of the tasks.
Waiting_Bug(names) == \E c \in names : Absence(c)

\* Wait for each of the tasks in turn: none of them can come back meanwhile.
Waiting(names) == \A c \in names : Absence(c)

\* The function returns and the task exits.
End(c) ==
    /\ Goto(c, "end", "absent")
    /\ Die(c)
    /\ next' = [next EXCEPT ![c] = 0]
    /\ run' = [run EXCEPT ![c] = TRUE]
    /\ UNCHANGED << starved, toRun, pos >>
=============================================================================
