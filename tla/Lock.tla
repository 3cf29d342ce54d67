--------------------------------- MODULE Lock ---------------------------------
(***************************************************************************)
(* What the system calls for mutexes (src/src/syscall.c 45-77, mutex.c)    *)
(* promise to applications, without queues, events and retries: a client   *)
(* enters a mutex in one step, when it is free. A normal mutex may be left *)
(* by anybody, a strict one only by its owner. A client that ends keeps    *)
(* what it has locked.                                                     *)
(***************************************************************************)
CONSTANTS
    Client,    \* who uses mutexes
    Mutex,     \* the mutexes, by their addresses
    Absent,    \* instead of a mutex: there is none at the address
    Nobody,    \* owner of a mutex that is free
    Somebody,  \* owner of a normal mutex that is locked
    Gone       \* owner of a strict mutex whose owner has ended

ASSUME LockAssumption ==
    {Nobody, Somebody, Gone} \intersect Client = {} /\ Nobody # Somebody
    /\ Nobody # Gone
    /\ Absent \notin [type : {"Normal", "Strict"},
                      owner : Client \union {Nobody, Somebody, Gone}]

VARIABLES
    lock,     \* the mutexes
    in,       \* the clients that were let into a mutex and have not left it;
              \* a normal mutex is left for all by whoever unlocks it
    starved   \* no memory is left

lockVars == << lock, in >>

LockInit ==
    /\ lock = [m \in Mutex |-> Absent]
    /\ in = [m \in Mutex |-> {}]

Exists(m) == lock[m] # Absent
IsFree(m) == Exists(m) /\ lock[m].owner = Nobody

-----------------------------------------------------------------------------

\* A task that was in an earlier mutex at the address is not in the new one.
Create(m, type) ==
    /\ ~Exists(m)
    /\ lock' = [lock EXCEPT ![m] = [type |-> type, owner |-> Nobody]]
    /\ in' = [in EXCEPT ![m] = {}]

\* A locked mutex is not destroyed: the call fails.
Destroy(m) ==
    /\ IsFree(m)
    /\ lock' = [lock EXCEPT ![m] = Absent]
    /\ UNCHANGED in

\* Whether a strict mutex is the client's own would not be looked at.
Enter_Bug(c, m) ==
    /\ Exists(m)
    /\ lock[m].owner = Nobody \/ lock[m].type = "Strict"
    /\ lock' = [lock EXCEPT ![m].owner =
                  IF lock[m].type = "Strict" THEN c ELSE Somebody]
    /\ in' = [in EXCEPT ![m] = @ \union {c}]

\* The owner of a strict mutex may enter again, which does not count.
Enter(c, m) ==
    /\ Exists(m)
    /\ lock[m].owner = Nobody \/ (lock[m].type = "Strict" /\ lock[m].owner = c)
    /\ lock' = [lock EXCEPT ![m].owner =
                  IF lock[m].type = "Strict" THEN c ELSE Somebody]
    /\ in' = [in EXCEPT ![m] = @ \union {c}]

\* Without memory a client cannot wait for a mutex that is taken.
EnterUnlocked(c, m) ==
    /\ starved
    /\ Exists(m) /\ lock[m].owner \notin {Nobody, c}
    /\ in' = [in EXCEPT ![m] = @ \union {c}]
    /\ UNCHANGED lock

Exit(c, m) ==
    /\ Exists(m)
    /\ lock[m].type = "Strict" => lock[m].owner = c
    /\ lock' = [lock EXCEPT ![m].owner = Nobody]
    /\ in' = [in EXCEPT ![m] = IF lock[m].type = "Normal" THEN {} ELSE @ \ {c}]

\* A client ends, also because it left a strict mutex of another one.
Die(c) ==
    /\ lock' = [m \in Mutex |-> IF Exists(m) /\ lock[m].owner = c
                                THEN [lock[m] EXCEPT !.owner = Gone] ELSE lock[m]]
    /\ in' = [m \in Mutex |-> in[m] \ {c}]

LockNext ==
    \/ \E m \in Mutex : Destroy(m)
    \/ \E m \in Mutex, type \in {"Normal", "Strict"} : Create(m, type)
    \/ \E c \in Client, m \in Mutex : Enter(c, m) \/ Exit(c, m)
    \/ \E c \in Client, m \in Mutex : EnterUnlocked(c, m)
    \/ \E c \in Client : Die(c)

LockSpec == LockInit /\ [][LockNext]_lockVars

-----------------------------------------------------------------------------
(* Properties *)

\* As long as memory suffices, one client at most is in a mutex, nobody when it is
\* free and could be destroyed, and only its owner if it is strict: whatever
\* clients call, end, destroy and create again (mutex.c:43-68, 82-115, 135-154).
Exclusive ==
    \A m \in Mutex : Exists(m) =>
        /\ \A c, d \in in[m] : c = d
        /\ IsFree(m) => in[m] = {}
        /\ lock[m].type = "Strict" => in[m] \subseteq {lock[m].owner}
=============================================================================
