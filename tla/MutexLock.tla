------------------------------ MODULE MutexLock -------------------------------
(***************************************************************************)
(* Mutexes keep the promise of module Lock. The owner of a strict mutex is *)
(* the task whose id is in the lock; queues, events, retries and sleeping  *)
(* tasks are not seen.                                                     *)
(***************************************************************************)
EXTENDS Mutex

CONSTANTS Absent, Nobody, Somebody, Gone

ASSUME OwnerAssumption ==
    /\ {Nobody, Somebody, Gone} \intersect TaskNode = {}
    /\ Nobody # Somebody /\ Nobody # Gone
    /\ Absent \notin [type : {"Normal", "Strict"},
                      owner : TaskNode \union {Nobody, Somebody, Gone}]

\* Of the mutex r when the scheduler is in state s. An id that no task has is that
\* of a task that has ended.
Owner(s, r) ==
    IF r.lock = 0 THEN Nobody
    ELSE IF r.type = "Normal" THEN Somebody
    ELSE IF \E t \in TaskNode : s.task[t].id = r.lock
         THEN CHOOSE t \in TaskNode : s.task[t].id = r.lock
         ELSE Gone

LockOf(s, r) ==
    IF r.valid THEN [type |-> r.type, owner |-> Owner(s, r)] ELSE Absent

locks == [m \in MutexAddr |-> LockOf(kern, mutex[m])]
users == [m \in MutexAddr |-> {t \in TaskNode : m \in inside[t]}]

Abstract == INSTANCE Lock WITH
    Client  <- TaskNode,
    Mutex   <- MutexAddr,
    lock    <- locks,
    in      <- users,
    starved <- kern.heap = 0

\* Whatever applications do and however their system calls and the timer
\* interleave, entering is one step that needs a free mutex, although a waiter
\* sleeps, is woken with all others, and may find the mutex taken, destroyed or
\* created again with another type (mutex.c:43-173, syscall.c:54-63).
LockImplemented == Abstract!LockSpec
=============================================================================
