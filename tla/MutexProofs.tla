----------------------------- MODULE MutexProofs ------------------------------
(***************************************************************************)
(* Mutexes lose no wakeup, lose no memory and keep the promise of module   *)
(* Lock, for every number of tasks and mutexes. The scheduler is seen      *)
(* through what TaskProofs says of its functions: ids only grow, and the   *)
(* queue of a mutex changes only when a task waits for it or its waiters   *)
(* are woken. What the functions do to the heap is added at the end.       *)
(***************************************************************************)
EXTENDS MutexLock, TaskProofs

\* Besides the properties it implies, the inductive invariant says that no id to
\* be given is in the lock of a strict mutex.
MutexInv ==
    /\ TaskInv /\ IdsOK(kern)
    /\ mutex \in [MutexAddr -> MutexRecord]
    /\ entering \in [TaskNode -> MutexAddr \union {NULL}]
    /\ inside \in [TaskNode -> SUBSET MutexAddr]
    /\ NoLostWakeup
    /\ \A m \in MutexAddr : mutex[m].type = "Strict" => mutex[m].lock < kern.pid

-----------------------------------------------------------------------------
(* The current task, and the heap *)

LEMMA CurrentHasId ==
    ASSUME NEW s, Settled(s), IdsOK(s), s.cur # IdleTask
    PROVE  /\ s.cur \in TaskNode /\ s.cur \in Node
           /\ s.task[s.cur].id \in Nat \ {0} /\ s.task[s.cur].id < s.pid
<1>1. /\ s \in KernelState /\ NoDuplicate(s.queue) /\ s.queue[RunningQ] # << >>
      /\ s.cur = s.queue[RunningQ][1] /\ Between(s)
  BY DEF Settled, Between
<1>2. s.cur \in Node /\ s.cur \in TaskNode
  BY <1>1, StateFields DEF Node
<1>3. 1 \in 1 .. Len(s.queue[RunningQ])
  BY <1>1, FrontFacts
<1>4. s.task[s.cur].id # 0
  <2>1. SUFFICES ASSUME s.task[s.cur].id = 0 PROVE FALSE
    OBVIOUS
  <2>2. PICK i \in 1 .. Len(s.queue[FreeQ]) : s.queue[FreeQ][i] = s.cur
    BY <1>2, <2>1 DEF IdsOK
  <2> QED
    BY <1>1, <1>3, <2>2, QueueIds DEF NoDuplicate
<1> QED
  BY <1>1, <1>2, <1>4, Ids DEF IdsOK

LEMMA HeapSettled ==
    ASSUME NEW s, Settled(s), IdsOK(s), NEW h \in Nat
    PROVE  LET r == [s EXCEPT !.heap = h]
           IN  /\ Settled(r) /\ IdsOK(r) /\ r.queue = s.queue /\ r.pid = s.pid
               /\ Grows(s, r, Node) /\ Kept(s, r, {}) /\ r.cur = s.cur
               /\ r.task = s.task
<1> DEFINE r == [s EXCEPT !.heap = h]
<1>1. s \in KernelState /\ Between(s)
  BY DEF Settled, Between
<1>2. r \in KernelState /\ r.queue = s.queue /\ r.task = s.task /\ r.cur = s.cur
      /\ r.pid = s.pid
  BY <1>1 DEF KernelState
<1> HIDE DEF r
<1>3. Between(r)
  BY <1>1, <1>2, SameQueues
<1>4. Settled(r)
  BY <1>2, <1>3 DEF Settled
<1>5. Alike(s, r, {})
  BY <1>2 DEF Alike, Kept
<1>6. IdsOK(r) /\ Grows(s, r, Node) /\ Kept(s, r, {})
  BY <1>1, <1>5, AlikeIds DEF Alike
<1> QED
  BY <1>2, <1>4, <1>6 DEF r

-----------------------------------------------------------------------------
(* The owner of a mutex *)

LEMMA OwnerCases ==
    ASSUME NEW s, IdsOK(s), NEW r \in MutexRecord
    PROVE  /\ Owner(s, r) \in TaskNode \union {Nobody, Somebody, Gone}
           /\ Owner(s, r) = Nobody <=> r.lock = 0
           /\ r.type = "Normal" /\ r.lock # 0 => Owner(s, r) = Somebody
           /\ \A t \in TaskNode :
                Owner(s, r) = t <=> /\ r.type = "Strict" /\ r.lock # 0
                                    /\ s.task[t].id = r.lock
<1> DEFINE S == {t \in TaskNode : s.task[t].id = r.lock}
<1>1. r.type \in {"Normal", "Strict"} /\ "Normal" # "Strict"
  BY DEF MutexRecord
<1>2. Nobody # Somebody /\ Nobody # Gone
      /\ \A t \in TaskNode : t # Nobody /\ t # Somebody /\ t # Gone
  BY OwnerAssumption
<1>3. CASE r.lock = 0
  BY <1>2, <1>3 DEF Owner
<1>4. CASE r.lock # 0 /\ r.type = "Normal"
  BY <1>1, <1>2, <1>4 DEF Owner
<1>5. CASE r.lock # 0 /\ r.type = "Strict" /\ \A t \in TaskNode : s.task[t].id # r.lock
  <2>1. Owner(s, r) = Gone
    BY <1>1, <1>5 DEF Owner
  <2> QED
    BY <1>1, <1>2, <1>5, <2>1
<1>6. ASSUME r.lock # 0, r.type = "Strict", NEW t \in TaskNode, s.task[t].id = r.lock
      PROVE  Owner(s, r) = t /\ \A u \in TaskNode : s.task[u].id = r.lock => u = t
  <2>1. \A u \in TaskNode : s.task[u].id = r.lock => u = t
    BY <1>6 DEF IdsOK, Node
  <2>2. Owner(s, r) = CHOOSE u \in TaskNode : s.task[u].id = r.lock
    BY <1>1, <1>6 DEF Owner
  <2> QED
    BY <1>6, <2>1, <2>2
<1>7. CASE r.lock # 0 /\ r.type = "Strict" /\ \E t \in TaskNode : s.task[t].id = r.lock
  <2>1. PICK t \in TaskNode : s.task[t].id = r.lock
    BY <1>7
  <2>2. Owner(s, r) = t /\ \A u \in TaskNode : s.task[u].id = r.lock => u = t
    BY <1>6, <1>7, <2>1
  <2> QED
    BY <1>1, <1>2, <1>7, <2>1, <2>2
<1> QED
  BY <1>1, <1>3, <1>4, <1>5, <1>7

\* While no task ends, mutexes keep their owners; the task that ends is no owner.
LEMMA OwnerKept ==
    ASSUME NEW s \in KernelState, NEW u \in KernelState, IdsOK(s), IdsOK(u),
           NEW r \in MutexRecord, r.type = "Strict" => r.lock < s.pid,
           NEW T \in SUBSET TaskNode, Grows(s, u, T),
           \A t \in TaskNode \ T : u.task[t].id = 0 \/ s.pid <= u.task[t].id
    PROVE  Owner(u, r) = IF Owner(s, r) \in TaskNode \ T THEN Gone ELSE Owner(s, r)
<1>1. /\ s.pid \in Nat /\ TaskNode \subseteq Node
      /\ \A t \in Node : s.task[t].id \in Nat /\ u.task[t].id \in Nat
      /\ r.lock \in Nat /\ r.type \in {"Normal", "Strict"}
  BY Ids DEF MutexRecord, Node
<1>2. \A t \in TaskNode : t # Nobody /\ t # Somebody /\ t # Gone
  BY OwnerAssumption
<1>3. CASE r.lock = 0 \/ r.type = "Normal"
  <2>1. Owner(u, r) = Owner(s, r) /\ Owner(s, r) \in {Nobody, Somebody}
    BY <1>3 DEF Owner
  <2> QED
    BY <1>2, <2>1
<1>4. CASE r.lock # 0 /\ r.type = "Strict"
  <2>1. \A t \in T : u.task[t].id = r.lock <=> s.task[t].id = r.lock
    <3>1. SUFFICES ASSUME NEW t \in T
                   PROVE  u.task[t].id = r.lock <=> s.task[t].id = r.lock
      OBVIOUS
    <3>2. \/ u.task[t].id = s.task[t].id
          \/ s.task[t].id = 0 /\ s.pid <= u.task[t].id
      BY <3>1 DEF Grows
    <3>3. r.lock < s.pid /\ u.task[t].id \in Nat
      BY <1>1, <1>4, <3>1
    <3> QED
      BY <1>1, <1>4, <3>2, <3>3
  <2>2. \A t \in TaskNode \ T : u.task[t].id # r.lock
    BY <1>1, <1>4
  <2>3. \A t \in TaskNode : Owner(s, r) = t <=> s.task[t].id = r.lock
    BY <1>4, OwnerCases
  <2>4. \A t \in TaskNode : Owner(u, r) = t <=> u.task[t].id = r.lock
    BY <1>4, OwnerCases
  <2>5. (\A t \in TaskNode : u.task[t].id # r.lock) => Owner(u, r) = Gone
    BY <1>1, <1>4 DEF Owner
  <2>6. (\A t \in TaskNode : s.task[t].id # r.lock) => Owner(s, r) = Gone
    BY <1>1, <1>4 DEF Owner
  <2>7. CASE \E t \in T : s.task[t].id = r.lock
    <3>1. PICK t \in T : s.task[t].id = r.lock
      BY <2>7
    <3>2. Owner(s, r) = t /\ Owner(u, r) = t
      BY <2>1, <2>3, <2>4, <3>1
    <3> QED
      BY <3>1, <3>2
  <2>8. CASE \A t \in T : s.task[t].id # r.lock
    <3>1. Owner(u, r) = Gone
      BY <2>1, <2>2, <2>5, <2>8
    <3>2. Owner(s, r) \notin TaskNode => Owner(s, r) = Gone
      BY <2>3, <2>6
    <3>3. Owner(s, r) \notin T
      BY <2>3, <2>8
    <3> QED
      BY <3>1, <3>2, <3>3
  <2> QED
    BY <2>7, <2>8
<1> QED
  BY <1>1, <1>3, <1>4

LEMMA LockOfCases ==
    ASSUME NEW s, IdsOK(s), NEW r \in MutexRecord
    PROVE  /\ LockOf(s, r) # Absent <=> r.valid
           /\ r.valid => LockOf(s, r) = [type |-> r.type, owner |-> Owner(s, r)]
<1>1. r.type \in {"Normal", "Strict"}
  BY DEF MutexRecord
<1>2. [type |-> r.type, owner |-> Owner(s, r)]
        \in [type : {"Normal", "Strict"},
             owner : TaskNode \union {Nobody, Somebody, Gone}]
  BY <1>1, OwnerCases
<1>3. [type |-> r.type, owner |-> Owner(s, r)] # Absent
  BY <1>2, OwnerAssumption
<1> QED
  BY <1>3 DEF LockOf

-----------------------------------------------------------------------------
(* How the variables of module Lock change *)

\* Nothing is seen of a step that ends no task.
LEMMA LockKept ==
    ASSUME NEW s \in KernelState, NEW u \in KernelState, IdsOK(s), IdsOK(u),
           Grows(s, u, Node), NEW r \in MutexRecord,
           r.type = "Strict" => r.lock < s.pid
    PROVE  LockOf(u, r) = LockOf(s, r)
<1>1. Grows(s, u, TaskNode)
  BY DEF Grows, Node
<1>2. Owner(u, r) = Owner(s, r)
  BY <1>1, OwnerKept
<1> QED
  BY <1>2 DEF LockOf

LEMMA OneLock ==
    ASSUME MutexInv, kern' \in KernelState, IdsOK(kern'), Grows(kern, kern', Node),
           NEW m \in MutexAddr, NEW r \in MutexRecord,
           r.type = "Strict" => r.lock < kern.pid, mutex' = [mutex EXCEPT ![m] = r]
    PROVE  locks' = [locks EXCEPT ![m] = LockOf(kern, r)]
<1>1. /\ kern \in KernelState /\ IdsOK(kern)
      /\ mutex \in [MutexAddr -> MutexRecord]
      /\ \A x \in MutexAddr : mutex[x].type = "Strict" => mutex[x].lock < kern.pid
  BY DEF MutexInv, TaskInv, Settled, Between
<1>2. LockOf(kern', r) = LockOf(kern, r)
  BY <1>1, LockKept
<1>3. \A x \in MutexAddr : LockOf(kern', mutex[x]) = LockOf(kern, mutex[x])
  BY <1>1, LockKept
<1>4. \A x \in MutexAddr : mutex'[x] = IF x = m THEN r ELSE mutex[x]
  BY <1>1
<1>5. locks' = [x \in MutexAddr |-> IF x = m THEN LockOf(kern, r)
                                              ELSE LockOf(kern, mutex[x])]
  BY <1>2, <1>3, <1>4 DEF locks
<1> QED
  BY <1>5 DEF locks

LEMMA SameLocks ==
    ASSUME MutexInv, kern' \in KernelState, IdsOK(kern'), Grows(kern, kern', Node),
           mutex' = mutex
    PROVE  locks' = locks
<1>1. /\ kern \in KernelState /\ IdsOK(kern)
      /\ mutex \in [MutexAddr -> MutexRecord]
      /\ \A x \in MutexAddr : mutex[x].type = "Strict" => mutex[x].lock < kern.pid
  BY DEF MutexInv, TaskInv, Settled, Between
<1>2. \A x \in MutexAddr : LockOf(kern', mutex[x]) = LockOf(kern, mutex[x])
  BY <1>1, LockKept
<1> QED
  BY <1>2 DEF locks

LEMMA OwnerField ==
    ASSUME MutexInv, NEW m \in MutexAddr, mutex[m].valid, NEW v
    PROVE  /\ locks[m] = [type |-> mutex[m].type, owner |-> Owner(kern, mutex[m])]
           /\ [locks EXCEPT ![m].owner = v]
                = [locks EXCEPT ![m] = [type |-> mutex[m].type, owner |-> v]]
<1>1. mutex[m] \in MutexRecord /\ IdsOK(kern)
  BY DEF MutexInv
<1>2. locks[m] = [type |-> mutex[m].type, owner |-> Owner(kern, mutex[m])]
  BY <1>1, LockOfCases DEF locks
<1>3. [locks[m] EXCEPT !.owner = v] = [type |-> mutex[m].type, owner |-> v]
  BY <1>2
<1> QED
  BY <1>2, <1>3

LEMMA UsersEnter ==
    ASSUME MutexInv, NEW c \in TaskNode, NEW m \in MutexAddr,
           inside' = [inside EXCEPT ![c] = @ \union {m}]
    PROVE  users' = [users EXCEPT ![m] = @ \union {c}]
<1>1. inside \in [TaskNode -> SUBSET MutexAddr]
  BY DEF MutexInv
<1>2. \A t \in TaskNode : inside'[t] = IF t = c THEN inside[c] \union {m} ELSE inside[t]
  BY <1>1
<1>3. users' = [x \in MutexAddr |-> IF x = m THEN users[m] \union {c} ELSE users[x]]
  <2>1. \A x \in MutexAddr : {t \in TaskNode : x \in inside'[t]} =
          IF x = m THEN users[m] \union {c} ELSE users[x]
    BY <1>2 DEF users
  <2> QED
    BY <2>1 DEF users
<1> QED
  BY <1>3 DEF users

LEMMA UsersLeave ==
    ASSUME MutexInv, NEW c \in TaskNode, NEW m \in MutexAddr,
           inside' = [inside EXCEPT ![c] = @ \ {m}]
    PROVE  users' = [users EXCEPT ![m] = @ \ {c}]
<1>1. inside \in [TaskNode -> SUBSET MutexAddr]
  BY DEF MutexInv
<1>2. \A t \in TaskNode : inside'[t] = IF t = c THEN inside[c] \ {m} ELSE inside[t]
  BY <1>1
<1>3. users' = [x \in MutexAddr |-> IF x = m THEN users[m] \ {c} ELSE users[x]]
  <2>1. \A x \in MutexAddr : {t \in TaskNode : x \in inside'[t]} =
          IF x = m THEN users[m] \ {c} ELSE users[x]
    BY <1>2 DEF users
  <2> QED
    BY <2>1 DEF users
<1> QED
  BY <1>3 DEF users

LEMMA UsersAllLeave ==
    ASSUME NEW m \in MutexAddr, inside' = [t \in TaskNode |-> inside[t] \ {m}]
    PROVE  users' = [users EXCEPT ![m] = {}]
<1>1. \A x \in MutexAddr : {t \in TaskNode : x \in inside'[t]} =
        IF x = m THEN {} ELSE users[x]
  BY DEF users
<1>2. users' = [x \in MutexAddr |-> IF x = m THEN {} ELSE users[x]]
  BY <1>1 DEF users
<1> QED
  BY <1>2 DEF users

LEMMA UsersDie ==
    ASSUME MutexInv, NEW c \in TaskNode, inside' = [inside EXCEPT ![c] = {}]
    PROVE  users' = [x \in MutexAddr |-> users[x] \ {c}]
<1>1. inside \in [TaskNode -> SUBSET MutexAddr]
  BY DEF MutexInv
<1>2. \A t \in TaskNode : inside'[t] = IF t = c THEN {} ELSE inside[t]
  BY <1>1
<1>3. \A x \in MutexAddr : {t \in TaskNode : x \in inside'[t]} = users[x] \ {c}
  BY <1>2 DEF users
<1> QED
  BY <1>3 DEF users

-----------------------------------------------------------------------------
(* Steps *)

LEMMA KeepInv ==
    ASSUME MutexInv, TaskInv', IdsOK(kern'), Grows(kern, kern', {}),
           mutex' \in [MutexAddr -> MutexRecord],
           entering' \in [TaskNode -> MutexAddr \union {NULL}],
           inside' \in [TaskNode -> SUBSET MutexAddr],
           \A m \in MutexAddr :
              /\ mutex'[m] = mutex[m]
                   \/ (mutex'[m].type = "Strict" => mutex'[m].lock < kern.pid)
              /\ ~mutex'[m].valid \/ mutex'[m].lock = 0 => kern'.queue[m] = << >>
    PROVE  MutexInv'
<1>1. kern \in KernelState /\ kern' \in KernelState
  BY DEF MutexInv, TaskInv, Settled, Between
<1>2. kern.pid \in Nat /\ kern'.pid \in Nat /\ kern.pid <= kern'.pid
  BY <1>1, Ids DEF Grows
<1>3. \A m \in MutexAddr :
         mutex[m].type = "Strict" => mutex[m].lock < kern.pid /\ mutex[m].lock \in Nat
  BY DEF MutexInv, MutexRecord
<1>4. \A m \in MutexAddr : mutex'[m].lock \in Nat
  BY DEF MutexRecord
<1>5. \A m \in MutexAddr : mutex'[m].type = "Strict" => mutex'[m].lock < kern'.pid
  BY <1>2, <1>3, <1>4
<1> QED
  BY <1>5 DEF MutexInv, NoLostWakeup

\* The current task ends and keeps what it has locked.
LEMMA TaskDies ==
    ASSUME MutexInv, TaskInv', kern.cur # IdleTask, IdsOK(kern'), Kept(kern, kern', {}),
           Grows(kern, kern', Node \ {kern.cur}),
           kern'.task[kern.cur].id = 0 \/ kern.pid <= kern'.task[kern.cur].id,
           inside' = [inside EXCEPT ![kern.cur] = {}], mutex' = mutex,
           entering' \in [TaskNode -> MutexAddr \union {NULL}]
    PROVE  MutexInv' /\ Abstract!Die(kern.cur)
<1> DEFINE c == kern.cur
<1>1. /\ kern \in KernelState /\ kern' \in KernelState /\ IdsOK(kern) /\ Settled(kern)
      /\ mutex \in [MutexAddr -> MutexRecord]
      /\ inside \in [TaskNode -> SUBSET MutexAddr]
      /\ \A x \in MutexAddr : mutex[x].type = "Strict" => mutex[x].lock < kern.pid
  BY Zenon DEF MutexInv, TaskInv, Settled, Between
<1>2. c \in TaskNode
  BY <1>1, CurrentHasId
<1>3. MutexInv'
  <2>1. MutexAddr \subseteq ObjectQ
    BY MutexAssumption
  <2>2. \A m \in MutexAddr :
           ~mutex[m].valid \/ mutex[m].lock = 0 => kern'.queue[m] = << >>
    BY <2>1 DEF MutexInv, NoLostWakeup, Kept
  <2>3. Grows(kern, kern', {})
    BY DEF Grows
  <2>4. inside' \in [TaskNode -> SUBSET MutexAddr]
    BY <1>1
  <2> QED
    BY <1>1, <2>2, <2>3, <2>4, KeepInv
<1>4. \A x \in MutexAddr :
         Owner(kern', mutex[x]) = IF Owner(kern, mutex[x]) = c THEN Gone
                                  ELSE Owner(kern, mutex[x])
  <2>1. Grows(kern, kern', TaskNode \ {c})
    BY DEF Grows, Node
  <2>2. ASSUME NEW x \in MutexAddr
        PROVE  Owner(kern', mutex[x]) =
                 IF Owner(kern, mutex[x]) \in TaskNode \ (TaskNode \ {c})
                 THEN Gone ELSE Owner(kern, mutex[x])
    <3>1. mutex[x] \in MutexRecord
      BY <1>1, <2>2
    <3>2. \A t \in TaskNode \ (TaskNode \ {c}) :
             kern'.task[t].id = 0 \/ kern.pid <= kern'.task[t].id
      OBVIOUS
    <3>3. TaskNode \ {c} \in SUBSET TaskNode
      OBVIOUS
    <3>4. mutex[x].type = "Strict" => mutex[x].lock < kern.pid
      BY <1>1, <2>2
    <3> HIDE DEF c
    <3> QED
      BY <1>1, <2>1, <3>1, <3>2, <3>3, <3>4, OwnerKept
  <2> QED
    BY <1>2, <2>2
<1>5. ASSUME NEW x \in MutexAddr
      PROVE  LockOf(kern', mutex[x]) =
               IF locks[x] # Absent /\ locks[x].owner = c
               THEN [locks[x] EXCEPT !.owner = Gone] ELSE locks[x]
  <2>1. locks[x] = LockOf(kern, mutex[x]) /\ mutex[x] \in MutexRecord
    BY <1>1, <1>5 DEF locks
  <2>2. CASE ~mutex[x].valid
    BY <2>1, <2>2 DEF LockOf
  <2>3. CASE mutex[x].valid
    <3>1. /\ locks[x] # Absent
          /\ locks[x] = [type |-> mutex[x].type, owner |-> Owner(kern, mutex[x])]
          /\ LockOf(kern', mutex[x])
               = [type |-> mutex[x].type, owner |-> Owner(kern', mutex[x])]
      BY <1>1, <2>1, <2>3, LockOfCases
    <3>2. /\ locks[x].owner = Owner(kern, mutex[x])
          /\ [locks[x] EXCEPT !.owner = Gone] = [type |-> mutex[x].type, owner |-> Gone]
      BY <3>1
    <3>3. Owner(kern', mutex[x]) = IF Owner(kern, mutex[x]) = c THEN Gone
                                   ELSE Owner(kern, mutex[x])
      BY <1>4, <1>5
    <3> HIDE DEF c
    <3> QED
      BY <3>1, <3>2, <3>3
  <2> QED
    BY <2>2, <2>3
<1>6. locks' = [x \in MutexAddr |-> IF locks[x] # Absent /\ locks[x].owner = c
                                    THEN [locks[x] EXCEPT !.owner = Gone] ELSE locks[x]]
  <2>1. locks' = [x \in MutexAddr |-> LockOf(kern', mutex[x])]
    BY DEF locks
  <2> HIDE DEF c
  <2> QED
    BY <1>5, <2>1
<1>7. users' = [x \in MutexAddr |-> users[x] \ {c}]
  BY <1>2, UsersDie
<1> QED
  BY <1>3, <1>6, <1>7, Zenon DEF Abstract!Die, Abstract!Exists

\* A step of the scheduler that ends no task is not seen.
LEMMA Unseen ==
    ASSUME MutexInv, TaskInv', IdsOK(kern'), Kept(kern, kern', {}),
           Grows(kern, kern', Node), UNCHANGED << mutex, entering, inside >>
    PROVE  MutexInv' /\ UNCHANGED Abstract!lockVars
<1>1. kern' \in KernelState
  BY DEF TaskInv, Settled, Between
<1>2. locks' = locks
  BY <1>1, SameLocks
<1>3. users' = users
  BY DEF users
<1>4. MutexInv'
  <2>1. MutexAddr \subseteq ObjectQ
    BY MutexAssumption
  <2>2. \A m \in MutexAddr :
           ~mutex[m].valid \/ mutex[m].lock = 0 => kern'.queue[m] = << >>
    BY <2>1 DEF MutexInv, NoLostWakeup, Kept
  <2>3. Grows(kern, kern', {})
    BY DEF Grows
  <2> QED
    BY <2>2, <2>3, KeepInv DEF MutexInv
<1> QED
  BY <1>2, <1>3, <1>4 DEF Abstract!lockVars

LEMMA CurrentFacts ==
    ASSUME MutexInv
    PROVE  /\ Settled(kern) /\ kern \in KernelState /\ IdsOK(kern)
           /\ mutex \in [MutexAddr -> MutexRecord]
           /\ kern.heap \in Nat /\ kern.pid \in Nat /\ 0 < kern.pid
           /\ UserMode => /\ Me \in TaskNode /\ kern.cur # IdleTask
                          /\ CurrentTaskId \in Nat \ {0} /\ CurrentTaskId < kern.pid
<1>1. Settled(kern) /\ kern \in KernelState /\ IdsOK(kern)
  BY DEF MutexInv, TaskInv, Settled, Between
<1> QED
  BY <1>1, StateFields, CurrentHasId DEF MutexInv, IdsOK, Me, CurrentTaskId, UserMode

LEMMA CreateStep ==
    ASSUME MutexInv, NEW m \in MutexAddr, NEW type \in {"Normal", "Strict"},
           SysCreateMutex(m, type)
    PROVE  MutexInv' /\ (Abstract!Create(m, type) \/ UNCHANGED Abstract!lockVars)
<1>1. UNCHANGED << tick, lost, entering >> /\ ~mutex[m].valid
  BY DEF SysCreateMutex
<1>2. /\ Settled(kern) /\ kern \in KernelState /\ IdsOK(kern) /\ kern.heap \in Nat
      /\ mutex \in [MutexAddr -> MutexRecord] /\ kern.pid \in Nat
      /\ inside \in [TaskNode -> SUBSET MutexAddr] /\ 0 < kern.pid
  BY CurrentFacts DEF MutexInv
<1>3. CASE kern.heap = 0
  <2>1. UNCHANGED << kern, mutex, inside >>
    BY <1>3 DEF SysCreateMutex
  <2>2. MutexInv'
    BY <1>1, <2>1 DEF MutexInv, TaskInv, NoLostWakeup
  <2>3. locks' = locks /\ users' = users
    BY <2>1 DEF locks, users
  <2> QED
    BY <2>2, <2>3 DEF Abstract!lockVars
<1>4. CASE kern.heap # 0
  <2> DEFINE r == [valid |-> TRUE, type |-> type, lock |-> 0]
  <2>1. /\ kern' = [kern EXCEPT !.heap = kern.heap - 1]
        /\ mutex' = [mutex EXCEPT ![m] = r]
        /\ inside' = [t \in TaskNode |-> inside[t] \ {m}]
    BY <1>4 DEF SysCreateMutex
  <2>2. r \in MutexRecord /\ r.valid /\ r.type = type /\ r.lock = 0
    BY DEF MutexRecord
  <2> HIDE DEF r
  <2>3. kern.heap - 1 \in Nat
    <3>1. kern.heap \in Nat
      BY <1>2
    <3> QED
      BY ONLY <1>4, <3>1
  <2>4. /\ Settled(kern') /\ IdsOK(kern') /\ kern'.queue = kern.queue
        /\ Grows(kern, kern', Node) /\ kern' \in KernelState
    <3>1. /\ Settled(kern') /\ IdsOK(kern') /\ kern'.queue = kern.queue
          /\ Grows(kern, kern', Node)
      BY <1>2, <2>1, <2>3, HeapSettled
    <3> QED
      BY <3>1 DEF Settled, Between
  <2>5. locks' = [locks EXCEPT ![m] = LockOf(kern, r)]
    BY <1>2, <2>1, <2>2, <2>4, OneLock
  <2>6. LockOf(kern, r) = [type |-> type, owner |-> Nobody]
    BY <1>2, <2>2, OwnerCases, LockOfCases
  <2>7. locks[m] = Absent
    BY <1>1 DEF locks, LockOf
  <2>8. users' = [users EXCEPT ![m] = {}]
    BY <2>1, UsersAllLeave
  <2>9. Abstract!Create(m, type)
    BY <2>5, <2>6, <2>7, <2>8 DEF Abstract!Create, Abstract!Exists
  <2>10. MutexInv'
    <3>1. TaskInv'
      BY <1>1, <2>4 DEF MutexInv, TaskInv
    <3>2. \A x \in MutexAddr : mutex'[x] = IF x = m THEN r ELSE mutex[x]
      BY <1>2, <2>1
    <3>3. \A x \in MutexAddr :
             /\ mutex'[x] = mutex[x]
                  \/ (mutex'[x].type = "Strict" => mutex'[x].lock < kern.pid)
             /\ ~mutex'[x].valid \/ mutex'[x].lock = 0 => kern'.queue[x] = << >>
      BY <1>1, <1>2, <2>2, <2>4, <3>2 DEF MutexInv, NoLostWakeup
    <3>4. /\ mutex' \in [MutexAddr -> MutexRecord]
          /\ inside' \in [TaskNode -> SUBSET MutexAddr]
          /\ entering' \in [TaskNode -> MutexAddr \union {NULL}]
          /\ Grows(kern, kern', {})
      BY <1>1, <1>2, <2>1, <2>2, <2>4 DEF MutexInv, Grows
    <3> QED
      BY <2>4, <3>1, <3>3, <3>4, KeepInv
  <2> QED
    BY <2>9, <2>10
<1> QED
  BY <1>3, <1>4

LEMMA DestroyStep ==
    ASSUME MutexInv, NEW m \in MutexAddr, SysDestroyMutex(m)
    PROVE  MutexInv' /\ (Abstract!Destroy(m) \/ UNCHANGED Abstract!lockVars)
<1>1. UNCHANGED << tick, lost, entering, inside >> /\ mutex[m].valid
  BY DEF SysDestroyMutex
<1>2. /\ Settled(kern) /\ kern \in KernelState /\ IdsOK(kern) /\ kern.heap \in Nat
      /\ mutex \in [MutexAddr -> MutexRecord] /\ kern.pid \in Nat /\ 0 < kern.pid
  BY CurrentFacts
<1>3. users' = users
  BY <1>1 DEF users
<1>4. CASE mutex[m].lock # 0
  <2>1. UNCHANGED << kern, mutex >>
    BY <1>4 DEF SysDestroyMutex
  <2>2. MutexInv'
    BY <1>1, <2>1 DEF MutexInv, TaskInv, NoLostWakeup
  <2>3. locks' = locks
    BY <2>1 DEF locks
  <2> QED
    BY <1>3, <2>2, <2>3 DEF Abstract!lockVars
<1>5. CASE mutex[m].lock = 0
  <2>1. /\ kern' = [kern EXCEPT !.heap = kern.heap + 1]
        /\ mutex' = [mutex EXCEPT ![m] = NoMutex]
    BY <1>5 DEF SysDestroyMutex
  <2>2. NoMutex \in MutexRecord /\ ~NoMutex.valid /\ NoMutex.lock = 0
    BY DEF MutexRecord, NoMutex
  <2>3. kern.heap + 1 \in Nat
    <3>1. kern.heap \in Nat
      BY <1>2
    <3> QED
      BY ONLY <3>1
  <2>4. /\ Settled(kern') /\ IdsOK(kern') /\ kern'.queue = kern.queue
        /\ Grows(kern, kern', Node) /\ kern' \in KernelState
    <3>1. /\ Settled(kern') /\ IdsOK(kern') /\ kern'.queue = kern.queue
          /\ Grows(kern, kern', Node)
      BY <1>2, <2>1, <2>3, HeapSettled
    <3> QED
      BY <3>1 DEF Settled, Between
  <2>5. locks' = [locks EXCEPT ![m] = LockOf(kern, NoMutex)]
    BY <1>2, <2>1, <2>2, <2>4, OneLock
  <2>6. LockOf(kern, NoMutex) = Absent
    BY <2>2 DEF LockOf
  <2>7. /\ locks[m] # Absent
        /\ locks[m] = [type |-> mutex[m].type, owner |-> Owner(kern, mutex[m])]
        /\ Owner(kern, mutex[m]) = Nobody
    BY <1>1, <1>2, <1>5, LockOfCases, OwnerCases DEF locks
  <2>8. locks[m].owner = Nobody
    BY <2>7
  <2>9. Abstract!Destroy(m)
    BY <1>3, <2>5, <2>6, <2>7, <2>8
       DEF Abstract!Destroy, Abstract!IsFree, Abstract!Exists
  <2>10. MutexInv'
    <3>1. TaskInv'
      BY <1>1, <2>4 DEF MutexInv, TaskInv
    <3>2. \A x \in MutexAddr : mutex'[x] = IF x = m THEN NoMutex ELSE mutex[x]
      BY <1>2, <2>1
    <3>3. \A x \in MutexAddr :
             /\ mutex'[x] = mutex[x]
                  \/ (mutex'[x].type = "Strict" => mutex'[x].lock < kern.pid)
             /\ ~mutex'[x].valid \/ mutex'[x].lock = 0 => kern'.queue[x] = << >>
      BY <1>2, <1>5, <2>2, <2>4, <3>2 DEF MutexInv, NoLostWakeup
    <3>4. /\ mutex' \in [MutexAddr -> MutexRecord]
          /\ inside' \in [TaskNode -> SUBSET MutexAddr]
          /\ entering' \in [TaskNode -> MutexAddr \union {NULL}]
          /\ Grows(kern, kern', {})
      BY <1>1, <1>2, <2>1, <2>2, <2>4 DEF MutexInv, Grows
    <3> QED
      BY <2>4, <3>1, <3>3, <3>4, KeepInv
  <2> QED
    BY <2>9, <2>10
<1> QED
  BY <1>4, <1>5

LEMMA AcquireStep ==
    ASSUME MutexInv, NEW m \in MutexAddr, UserMode, mutex[m].valid, Acquire(m),
           UNCHANGED << tick, lost >>
    PROVE  MutexInv' /\ Abstract!Enter(Me, m)
<1> DEFINE k == IF mutex[m].type = "Strict" THEN CurrentTaskId ELSE 1
           r == [mutex[m] EXCEPT !.lock = k]
           own == IF mutex[m].type = "Strict" THEN Me ELSE Somebody
<1>1. /\ Settled(kern) /\ kern \in KernelState /\ IdsOK(kern)
      /\ mutex \in [MutexAddr -> MutexRecord] /\ kern.pid \in Nat /\ 0 < kern.pid
      /\ Me \in TaskNode /\ CurrentTaskId \in Nat \ {0} /\ CurrentTaskId < kern.pid
      /\ mutex[m] \in MutexRecord
  BY CurrentFacts
<1>2. /\ kern' = kern
      /\ mutex' = [mutex EXCEPT ![m].lock = k]
      /\ entering' = [entering EXCEPT ![Me] = NULL]
      /\ inside' = [inside EXCEPT ![Me] = @ \union {m}]
      /\ mutex[m].lock = 0 \/ (mutex[m].type = "Strict" /\ mutex[m].lock = CurrentTaskId)
  BY DEF Acquire
<1>3. k \in Nat \ {0} /\ (mutex[m].type = "Strict" => k = CurrentTaskId)
  BY <1>1
<1> HIDE DEF k
<1>4. /\ r \in MutexRecord /\ r.valid /\ r.type = mutex[m].type /\ r.lock = k
      /\ mutex[m].type \in {"Normal", "Strict"}
  BY <1>1, <1>3 DEF MutexRecord
<1>5. mutex' = [mutex EXCEPT ![m] = r]
  BY <1>1, <1>2
<1> HIDE DEF r
<1>6. r.type = "Strict" => r.lock < kern.pid
  BY <1>1, <1>3, <1>4
<1>7. Grows(kern, kern', Node) /\ Grows(kern, kern', {})
  BY <1>1, <1>2, Ids DEF Grows
<1>8. locks' = [locks EXCEPT ![m] = LockOf(kern, r)]
  BY <1>1, <1>2, <1>4, <1>5, <1>6, <1>7, OneLock
<1>9. Owner(kern, r) = own
  <2>1. CASE mutex[m].type = "Strict"
    <3>1. kern.task[Me].id = r.lock /\ r.lock # 0
      BY <1>3, <1>4, <2>1 DEF CurrentTaskId
    <3> QED
      BY <1>1, <1>4, <2>1, <3>1, OwnerCases
  <2>2. CASE mutex[m].type = "Normal"
    BY <1>1, <1>3, <1>4, <2>2, OwnerCases
  <2> QED
    BY <1>4, <2>1, <2>2
<1>10. LockOf(kern, r) = [type |-> mutex[m].type, owner |-> own]
  BY <1>1, <1>4, <1>9, LockOfCases
<1> HIDE DEF own
<1>11. /\ locks[m] = [type |-> mutex[m].type, owner |-> Owner(kern, mutex[m])]
       /\ [locks EXCEPT ![m].owner = own]
            = [locks EXCEPT ![m] = [type |-> mutex[m].type, owner |-> own]]
  BY OwnerField
<1>12. locks' = [locks EXCEPT ![m].owner = own]
  BY <1>8, <1>10, <1>11
<1>13. locks[m] # Absent /\ locks[m].type = mutex[m].type
       /\ locks[m].owner = Owner(kern, mutex[m])
  BY <1>1, <1>11, LockOfCases DEF locks
<1>14. locks[m].owner = Nobody \/ (locks[m].type = "Strict" /\ locks[m].owner = Me)
  <2>1. CASE mutex[m].lock = 0
    BY <1>1, <1>13, <2>1, OwnerCases
  <2>2. CASE mutex[m].type = "Strict" /\ mutex[m].lock = CurrentTaskId
    <3>1. kern.task[Me].id = mutex[m].lock /\ mutex[m].lock # 0
      BY <1>1, <2>2 DEF CurrentTaskId
    <3> QED
      BY <1>1, <1>13, <2>2, <3>1, OwnerCases
  <2> QED
    BY <1>2, <2>1, <2>2
<1>15. users' = [users EXCEPT ![m] = @ \union {Me}]
  BY <1>1, <1>2, UsersEnter
<1>16. locks' = [locks EXCEPT ![m].owner =
                   IF locks[m].type = "Strict" THEN Me ELSE Somebody]
  BY <1>12, <1>13 DEF own
<1>17. Abstract!Enter(Me, m)
  BY <1>13, <1>14, <1>15, <1>16 DEF Abstract!Enter, Abstract!Exists
<1>18. MutexInv'
  <2>1. TaskInv' /\ IdsOK(kern')
    BY <1>1, <1>2 DEF MutexInv, TaskInv
  <2>2. \A x \in MutexAddr : mutex'[x] = IF x = m THEN r ELSE mutex[x]
    BY <1>1, <1>5
  <2>3. \A x \in MutexAddr :
           /\ mutex'[x] = mutex[x]
                \/ (mutex'[x].type = "Strict" => mutex'[x].lock < kern.pid)
           /\ ~mutex'[x].valid \/ mutex'[x].lock = 0 => kern'.queue[x] = << >>
    BY <1>2, <1>3, <1>4, <1>6, <2>2 DEF MutexInv, NoLostWakeup
  <2>4. /\ mutex' \in [MutexAddr -> MutexRecord]
        /\ inside' \in [TaskNode -> SUBSET MutexAddr]
        /\ entering' \in [TaskNode -> MutexAddr \union {NULL}]
    BY <1>1, <1>2, <1>4, <1>5 DEF MutexInv
  <2> QED
    BY <1>7, <2>1, <2>3, <2>4, KeepInv
<1> QED
  BY <1>17, <1>18

\* A task that finds the mutex taken goes to sleep unseen, or is let in when no
\* memory is left.
LEMMA DoWaitStep ==
    ASSUME MutexInv, NEW m \in MutexAddr, UserMode, mutex[m].valid, DoWait(m),
           UNCHANGED << tick, lost >>
    PROVE  MutexInv' /\ (Abstract!EnterUnlocked(Me, m) \/ UNCHANGED Abstract!lockVars)
<1>1. /\ Settled(kern) /\ kern \in KernelState /\ IdsOK(kern) /\ kern.cur # IdleTask
      /\ mutex \in [MutexAddr -> MutexRecord] /\ mutex[m] \in MutexRecord
      /\ Me \in TaskNode /\ kern.cur = Me /\ CurrentTaskId = kern.task[Me].id
      /\ inside \in [TaskNode -> SUBSET MutexAddr]
      /\ entering \in [TaskNode -> MutexAddr \union {NULL}]
  BY CurrentFacts DEF Me, CurrentTaskId, MutexInv
<1>2. /\ mutex' = mutex /\ mutex[m].lock # 0
      /\ mutex[m].type = "Strict" => mutex[m].lock # CurrentTaskId
  BY DEF DoWait
<1>3. CASE kern.heap = 0
  <2>1. UNCHANGED << kern, entering >>
    BY <1>3 DEF DoWait
  <2>2. inside' = inside \/ inside' = [inside EXCEPT ![Me] = @ \union {m}]
    BY <1>3 DEF DoWait
  <2>3. inside' \in [TaskNode -> SUBSET MutexAddr]
    BY <1>1, <2>2
  <2>4. MutexInv'
    BY <1>2, <2>1, <2>3 DEF MutexInv, TaskInv, NoLostWakeup
  <2>5. locks' = locks
    BY <1>2, <2>1 DEF locks
  <2>6. CASE inside' = inside
    BY <2>4, <2>5, <2>6 DEF Abstract!lockVars, users
  <2>7. CASE inside' = [inside EXCEPT ![Me] = @ \union {m}]
    <3>1. users' = [users EXCEPT ![m] = @ \union {Me}]
      BY <1>1, <2>7, UsersEnter
    <3>2. /\ locks[m] # Absent
          /\ locks[m] = [type |-> mutex[m].type, owner |-> Owner(kern, mutex[m])]
      BY <1>1, LockOfCases DEF locks
    <3>3. Owner(kern, mutex[m]) \notin {Nobody, Me}
      BY <1>1, <1>2, OwnerCases
    <3>4. locks[m].owner \notin {Nobody, Me}
      BY <3>2, <3>3
    <3> QED
      BY <1>3, <2>4, <2>5, <3>1, <3>2, <3>4
         DEF Abstract!EnterUnlocked, Abstract!Exists
  <2> QED
    BY <2>2, <2>6, <2>7
<1>4. CASE kern.heap # 0
  <2>1. /\ kern' = WaitEvent(kern, m) /\ entering' = [entering EXCEPT ![Me] = m]
        /\ inside' = inside
    BY <1>4 DEF DoWait
  <2>2. m \in WaitQ /\ m \notin Node /\ MutexAddr \subseteq ObjectQ
    BY MutexAssumption, QueueAssumption DEF WaitQ
  <2>3. Settled(kern')
    BY <1>1, <1>4, <2>1, <2>2, WaitEventSettled
  <2>4. IdsOK(kern') /\ Grows(kern, kern', Node) /\ Kept(kern, kern', {m})
    BY <1>1, <1>4, <2>1, <2>2, WaitEventIds
  <2>5. kern' \in KernelState
    BY <2>3 DEF Settled, Between
  <2>6. locks' = locks
    BY <1>2, <2>4, <2>5, SameLocks
  <2>7. users' = users
    BY <2>1 DEF users
  <2>8. TaskInv'
    BY <2>3 DEF MutexInv, TaskInv
  <2>9. \A x \in MutexAddr :
           ~mutex[x].valid \/ mutex[x].lock = 0 => kern'.queue[x] = << >>
    BY <1>2, <2>2, <2>4 DEF MutexInv, NoLostWakeup, Kept
  <2>10. entering' \in [TaskNode -> MutexAddr \union {NULL}] /\ Grows(kern, kern', {})
    BY <1>1, <2>1, <2>4 DEF Grows
  <2>11. MutexInv'
    BY <1>1, <1>2, <2>1, <2>4, <2>8, <2>9, <2>10, KeepInv
  <2> QED
    BY <2>6, <2>7, <2>11 DEF Abstract!lockVars
<1> QED
  BY <1>3, <1>4

\* SysNormalExit, whoever leaves; users stands for who is let out.
LEMMA UnlockStep ==
    ASSUME MutexInv, NEW m \in MutexAddr, mutex[m].valid, SysNormalExit(m),
           UNCHANGED << tick, lost, entering >>,
           inside' \in [TaskNode -> SUBSET MutexAddr]
    PROVE  MutexInv' /\ locks' = [locks EXCEPT ![m].owner = Nobody]
<1> DEFINE r == [mutex[m] EXCEPT !.lock = 0]
<1>1. /\ Settled(kern) /\ kern \in KernelState /\ IdsOK(kern) /\ Between(kern)
      /\ mutex \in [MutexAddr -> MutexRecord] /\ mutex[m] \in MutexRecord
      /\ kern.pid \in Nat /\ 0 < kern.pid
  BY CurrentFacts DEF Settled
<1>2. kern' = WaittingToReady(kern, m) /\ mutex' = [mutex EXCEPT ![m].lock = 0]
  BY DEF SysNormalExit
<1>3. m \in WaitQ /\ MutexAddr \subseteq ObjectQ
  <2>1. MutexAddr \subseteq ObjectQ
    BY MutexAssumption
  <2> QED
    BY <2>1, Zenon DEF WaitQ
<1>4. Settled(kern') /\ kern' \in KernelState
  <2>1. Settled(kern')
    BY <1>1, <1>2, <1>3, WaittingToReadySettled
  <2> QED
    BY <2>1 DEF Settled, Between
<1>5. Alike(kern, kern', {m})
  BY <1>1, <1>2, <1>3, WaittingToReadyAlike
<1>6. IdsOK(kern') /\ Grows(kern, kern', Node) /\ Kept(kern, kern', {m})
  BY <1>1, <1>5, AlikeIds DEF Alike
<1>7. kern'.queue[m] = << >>
  BY <1>1, <1>2, <1>3, WaittingToReadyBetween
<1>8. r \in MutexRecord /\ r.valid /\ r.type = mutex[m].type /\ r.lock = 0
  BY <1>1 DEF MutexRecord
<1>9. mutex' = [mutex EXCEPT ![m] = r]
  BY <1>1, <1>2
<1> HIDE DEF r
<1>10. locks' = [locks EXCEPT ![m] = LockOf(kern, r)]
  BY <1>1, <1>4, <1>6, <1>8, <1>9, OneLock
<1>11. LockOf(kern, r) = [type |-> mutex[m].type, owner |-> Nobody]
  BY <1>1, <1>8, LockOfCases, OwnerCases
<1>12. locks' = [locks EXCEPT ![m].owner = Nobody]
  <2>1. [locks EXCEPT ![m].owner = Nobody]
          = [locks EXCEPT ![m] = [type |-> mutex[m].type, owner |-> Nobody]]
    BY OwnerField
  <2> QED
    BY <1>10, <1>11, <2>1, Zenon
<1>13. TaskInv'
  BY <1>4 DEF MutexInv, TaskInv
<1>14. \A x \in MutexAddr : mutex'[x] = IF x = m THEN r ELSE mutex[x]
  BY <1>1, <1>9
<1>15. \A x \in MutexAddr :
         /\ mutex'[x] = mutex[x]
              \/ (mutex'[x].type = "Strict" => mutex'[x].lock < kern.pid)
         /\ ~mutex'[x].valid \/ mutex'[x].lock = 0 => kern'.queue[x] = << >>
  BY <1>1, <1>3, <1>6, <1>7, <1>8, <1>14 DEF MutexInv, NoLostWakeup, Kept
<1>16. /\ mutex' \in [MutexAddr -> MutexRecord] /\ Grows(kern, kern', {})
       /\ entering' \in [TaskNode -> MutexAddr \union {NULL}]
  BY <1>1, <1>6, <1>8, <1>9 DEF MutexInv, Grows
<1> QED
  BY <1>6, <1>12, <1>13, <1>15, <1>16, KeepInv

LEMMA ExitStep ==
    ASSUME MutexInv, NEW m \in MutexAddr, SysExitCritical(m)
    PROVE  MutexInv' /\ (Abstract!Exit(Me, m) \/ Abstract!Die(Me))
<1>1. UserMode /\ mutex[m].valid /\ UNCHANGED << tick, lost, entering >>
  BY DEF SysExitCritical, InApplication
<1>2. /\ Settled(kern) /\ kern \in KernelState /\ IdsOK(kern) /\ kern.cur # IdleTask
      /\ mutex \in [MutexAddr -> MutexRecord] /\ mutex[m] \in MutexRecord
      /\ Me \in TaskNode /\ kern.cur = Me /\ CurrentTaskId = kern.task[Me].id
      /\ CurrentTaskId \in Nat \ {0}
      /\ inside \in [TaskNode -> SUBSET MutexAddr]
      /\ entering \in [TaskNode -> MutexAddr \union {NULL}]
  BY <1>1, CurrentFacts DEF Me, CurrentTaskId, MutexInv
<1>3. /\ locks[m] # Absent /\ locks[m].type = mutex[m].type
      /\ locks[m].owner = Owner(kern, mutex[m])
  <2>1. locks[m] # Absent
        /\ locks[m] = [type |-> mutex[m].type, owner |-> Owner(kern, mutex[m])]
    BY <1>1, <1>2, LockOfCases DEF locks
  <2> QED
    BY <2>1
<1>4. CASE mutex[m].type = "Normal"
  <2>1. SysNormalExit(m) /\ inside' = [t \in TaskNode |-> inside[t] \ {m}]
    BY <1>4 DEF SysExitCritical
  <2>2. inside' \in [TaskNode -> SUBSET MutexAddr]
    BY <1>2, <2>1
  <2>3. MutexInv' /\ locks' = [locks EXCEPT ![m].owner = Nobody]
    BY <1>1, <2>1, <2>2, UnlockStep
  <2>4. users' = [users EXCEPT ![m] = {}]
    BY <2>1, UsersAllLeave
  <2>5. Abstract!Exit(Me, m)
    BY <1>3, <1>4, <2>3, <2>4 DEF Abstract!Exit, Abstract!Exists
  <2> QED
    BY <2>3, <2>5
<1>5. CASE mutex[m].type # "Normal" /\ mutex[m].lock = CurrentTaskId
  <2>1. SysNormalExit(m) /\ inside' = [inside EXCEPT ![Me] = @ \ {m}]
    BY <1>5 DEF SysExitCritical, SysStrictExit
  <2>2. inside' \in [TaskNode -> SUBSET MutexAddr]
    BY <1>2, <2>1
  <2>3. MutexInv' /\ locks' = [locks EXCEPT ![m].owner = Nobody]
    BY <1>1, <2>1, <2>2, UnlockStep
  <2>4. users' = [users EXCEPT ![m] = @ \ {Me}]
    BY <1>2, <2>1, UsersLeave
  <2>5. Owner(kern, mutex[m]) = Me
    <3>1. mutex[m].type = "Strict" /\ mutex[m].lock # 0
      BY <1>2, <1>5 DEF MutexRecord
    <3> QED
      BY <1>2, <1>5, <3>1, OwnerCases
  <2>6. Abstract!Exit(Me, m)
    BY <1>3, <1>5, <2>3, <2>4, <2>5 DEF Abstract!Exit, Abstract!Exists
  <2> QED
    BY <2>3, <2>6
<1>6. CASE mutex[m].type # "Normal" /\ mutex[m].lock # CurrentTaskId
  <2>1. /\ kern' = KillTask(kern, 2) /\ mutex' = mutex
        /\ inside' = [inside EXCEPT ![kern.cur] = {}]
    BY <1>2, <1>6 DEF SysExitCritical, SysStrictExit
  <2>2. Settled(kern')
    BY <1>2, <2>1, MutexAssumption, KillTaskSettled
  <2>3. TaskInv'
    BY <1>1, <2>2 DEF MutexInv, TaskInv
  <2>4. /\ IdsOK(kern') /\ Grows(kern, kern', Node \ {kern.cur})
        /\ Kept(kern, kern', {})
        /\ kern'.task[kern.cur].id = 0 \/ kern.pid <= kern'.task[kern.cur].id
    BY <1>2, <2>1, MutexAssumption, KillTaskIds
  <2>5. entering' \in [TaskNode -> MutexAddr \union {NULL}]
    BY <1>1, <1>2
  <2> QED
    BY <1>2, <2>1, <2>3, <2>4, <2>5, TaskDies
<1> QED
  BY <1>4, <1>5, <1>6

LEMMA EnterStep ==
    ASSUME MutexInv, NEW m \in MutexAddr, SysEnterCritical(m)
    PROVE  /\ MutexInv'
           /\ \/ Abstract!Enter(Me, m) \/ Abstract!EnterUnlocked(Me, m)
              \/ UNCHANGED Abstract!lockVars
<1>1. UserMode /\ UNCHANGED << tick, lost >>
  BY DEF SysEnterCritical
<1>2. CASE mutex[m].valid
  <2>1. Acquire(m) \/ DoWait(m)
    BY <1>2 DEF SysEnterCritical
  <2> QED
    BY <1>1, <1>2, <2>1, AcquireStep, DoWaitStep
<1>3. CASE ~mutex[m].valid
  <2>1. UNCHANGED << kern, mutex, entering, inside >>
    BY <1>3 DEF SysEnterCritical
  <2>2. MutexInv'
    BY <1>1, <2>1 DEF MutexInv, TaskInv, NoLostWakeup
  <2>3. locks' = locks /\ users' = users
    BY <2>1 DEF locks, users
  <2> QED
    BY <2>2, <2>3 DEF Abstract!lockVars
<1> QED
  BY <1>2, <1>3

\* TaskEntry's end of a task may leave it alive; every other end is one.
LEMMA EndStep ==
    ASSUME MutexInv, UserMode, TaskEnds
    PROVE  MutexInv' /\ (Abstract!Die(Me) \/ UNCHANGED Abstract!lockVars)
<1>1. /\ TaskNext /\ UNCHANGED << mutex, entering >>
      /\ inside' = IF kern'.task[kern.cur].id # CurrentTaskId
                   THEN [inside EXCEPT ![kern.cur] = {}] ELSE inside
  BY DEF TaskEnds, TaskNext, Me
<1>2. TaskInv /\ TaskInv'
  BY <1>1, NextInv DEF MutexInv
<1>3. /\ IdsOK(kern') /\ Kept(kern, kern', {})
      /\ Grows(kern, kern', Node \ {kern.cur})
      /\ \/ Grows(kern, kern', Node)
         \/ kern'.task[kern.cur].id = 0 \/ kern.pid <= kern'.task[kern.cur].id
  BY <1>1, <1>2, StepIds, Zenon DEF MutexInv
<1>4. /\ kern \in KernelState /\ kern' \in KernelState /\ kern.cur \in TaskNode
      /\ kern.cur \in Node /\ kern.cur # IdleTask
      /\ CurrentTaskId = kern.task[kern.cur].id
      /\ CurrentTaskId \in Nat \ {0} /\ CurrentTaskId < kern.pid
      /\ entering' \in [TaskNode -> MutexAddr \union {NULL}]
  BY <1>1, <1>2, CurrentFacts, Zenon
     DEF MutexInv, TaskInv, Settled, Between, Me, CurrentTaskId, Node
<1>5. kern.pid \in Nat /\ kern'.task[kern.cur].id \in Nat
  BY <1>4, Ids
<1>6. CASE kern'.task[kern.cur].id = CurrentTaskId
  <2>1. Grows(kern, kern', Node)
    BY <1>3, <1>4, <1>5, <1>6
  <2>2. UNCHANGED << mutex, entering, inside >>
    BY <1>1, <1>6
  <2> QED
    BY <1>2, <1>3, <2>1, <2>2, Unseen
<1>7. CASE kern'.task[kern.cur].id # CurrentTaskId
  <2>1. kern'.task[kern.cur].id = 0 \/ kern.pid <= kern'.task[kern.cur].id
    BY <1>3, <1>4, <1>7 DEF Grows
  <2> QED
    BY <1>1, <1>2, <1>3, <1>4, <1>7, <2>1, TaskDies DEF Me
<1> QED
  BY <1>6, <1>7

LEMMA FaultStep ==
    ASSUME MutexInv, TaskFaults
    PROVE  MutexInv' /\ Abstract!Die(Me) /\ Me \in TaskNode
<1>1. /\ TaskNext /\ mutex' = mutex
      /\ inside' = [inside EXCEPT ![kern.cur] = {}]
      /\ entering' = [entering EXCEPT ![kern.cur] = NULL]
  BY DEF TaskFaults, TaskNext, Me
<1>2. TaskInv /\ TaskInv'
  BY <1>1, NextInv DEF MutexInv
<1>3. /\ kern.cur # IdleTask /\ \E ebx \in Ebx : kern' = KillTask(kern, ebx)
  BY DEF TaskFaults, Fault
<1>4. Settled(kern) /\ IdsOK(kern)
  BY <1>2 DEF MutexInv, TaskInv
<1>5. kern.cur \in TaskNode
  BY <1>3, <1>4, CurrentHasId
<1>6. /\ IdsOK(kern') /\ Grows(kern, kern', Node \ {kern.cur})
      /\ Kept(kern, kern', {})
      /\ kern'.task[kern.cur].id = 0 \/ kern.pid <= kern'.task[kern.cur].id
  BY <1>3, <1>4, KillTaskIds
<1>7. entering' \in [TaskNode -> MutexAddr \union {NULL}]
  BY <1>1, <1>5 DEF MutexInv
<1> QED
  BY <1>1, <1>2, <1>3, <1>5, <1>6, <1>7, TaskDies DEF Me

\* The timer, and the other calls of the scheduler.
LEMMA SchedulerStep ==
    ASSUME MutexInv, UNCHANGED << mutex, entering, inside >>,
           \/ TimerHandler
           \/ \E name \in Name \union {IdleName} : Wait(name)
           \/ \E name \in Name, pri \in Priority : RegApp(name, pri)
    PROVE  MutexInv' /\ UNCHANGED Abstract!lockVars
<1>1. TaskNext
  BY DEF TaskNext
<1>2. TaskInv /\ TaskInv' /\ IdsOK(kern)
  BY <1>1, NextInv DEF MutexInv
<1>3. Settled(kern) /\ kern \in KernelState
  BY <1>2 DEF TaskInv, Settled, Between
<1>4. IdsOK(kern') /\ Kept(kern, kern', {}) /\ Grows(kern, kern', Node)
  <2>1. CASE UNCHANGED kern
    BY <1>2, <1>3, <2>1, Ids DEF Kept, Grows
  <2>2. CASE kern' = Schedule(kern)
    BY <1>2, <1>3, <2>2, HeldSlices, ScheduleIds DEF Settled
  <2>3. CASE TimerHandler
    BY <2>1, <2>2, <2>3 DEF TimerHandler
  <2>4. CASE \E name \in Name \union {IdleName} : Wait(name)
    BY <1>2, <1>3, <2>4, WaitTaskIds DEF Wait, UserMode
  <2>5. CASE \E name \in Name, pri \in Priority : RegApp(name, pri)
    BY <1>2, <1>3, <2>5, AppInfoToRunIds DEF RegApp
  <2> QED
    BY <2>3, <2>4, <2>5
<1> QED
  BY <1>2, <1>4, Unseen

LEMMA MutexStep ==
    MutexInv /\ [MutexNext]_mutexVars
      => MutexInv' /\ [Abstract!LockNext]_Abstract!lockVars
<1> SUFFICES ASSUME MutexInv, [MutexNext]_mutexVars
             PROVE  MutexInv' /\ (Abstract!LockNext \/ UNCHANGED Abstract!lockVars)
  OBVIOUS
<1>1. UserMode => Me \in TaskNode
  BY CurrentFacts
<1>2. CASE TimerHandler /\ UNCHANGED << mutex, entering, inside >>
  BY <1>2, SchedulerStep
<1>3. CASE TaskFaults
  BY <1>3, FaultStep DEF Abstract!LockNext
<1>4. CASE InApplication /\ TaskEnds
  BY <1>1, <1>4, EndStep DEF Abstract!LockNext, InApplication
<1>5. CASE /\ \/ \E name \in Name \union {IdleName} : Wait(name)
              \/ \E name \in Name, pri \in Priority : RegApp(name, pri)
           /\ UNCHANGED << mutex, entering, inside >>
  BY <1>5, SchedulerStep
<1>6. ASSUME NEW m \in MutexAddr, NEW type \in {"Normal", "Strict"},
             SysCreateMutex(m, type)
      PROVE  MutexInv' /\ (Abstract!LockNext \/ UNCHANGED Abstract!lockVars)
  BY <1>6, CreateStep DEF Abstract!LockNext
<1>7. ASSUME NEW m \in MutexAddr, SysDestroyMutex(m)
      PROVE  MutexInv' /\ (Abstract!LockNext \/ UNCHANGED Abstract!lockVars)
  BY <1>7, DestroyStep DEF Abstract!LockNext
<1>8. ASSUME NEW m \in MutexAddr, SysEnterCritical(m)
      PROVE  MutexInv' /\ (Abstract!LockNext \/ UNCHANGED Abstract!lockVars)
  <2>1. Me \in TaskNode
    BY <1>1, <1>8 DEF SysEnterCritical
  <2> QED
    BY <1>8, <2>1, EnterStep DEF Abstract!LockNext
<1>9. ASSUME NEW m \in MutexAddr, SysExitCritical(m)
      PROVE  MutexInv' /\ (Abstract!LockNext \/ UNCHANGED Abstract!lockVars)
  <2>1. Me \in TaskNode
    BY <1>1, <1>9 DEF SysExitCritical, InApplication
  <2> QED
    BY <1>9, <2>1, ExitStep DEF Abstract!LockNext
<1>10. CASE UNCHANGED mutexVars
  <2>1. MutexInv'
    BY <1>10 DEF mutexVars, taskVars, MutexInv, TaskInv, NoLostWakeup
  <2>2. locks' = locks /\ users' = users
    BY <1>10 DEF mutexVars, taskVars, locks, users
  <2> QED
    BY <2>1, <2>2 DEF Abstract!lockVars
<1> QED
  BY <1>2, <1>3, <1>4, <1>5, <1>6, <1>7, <1>8, <1>9, <1>10 DEF MutexNext

LEMMA MutexInitInv == MutexInit => MutexInv /\ Abstract!LockInit
<1> SUFFICES ASSUME MutexInit PROVE MutexInv /\ Abstract!LockInit
  OBVIOUS
<1>1. TaskInv /\ IdsOK(kern)
  BY InitInv, InitIds DEF MutexInit
<1>2. /\ mutex = [m \in MutexAddr |-> NoMutex]
      /\ entering = [t \in TaskNode |-> NULL]
      /\ inside = [t \in TaskNode |-> {}]
  BY DEF MutexInit
<1>3. /\ NoMutex \in MutexRecord /\ ~NoMutex.valid /\ NoMutex.type = "Normal"
  BY DEF NoMutex, MutexRecord
<1>4. locks = [m \in MutexAddr |-> Absent] /\ users = [m \in MutexAddr |-> {}]
  BY <1>2, <1>3 DEF locks, users, LockOf
<1>5. \A m \in MutexAddr : kern.queue[m] = << >>
  BY InitIds, MutexAssumption DEF MutexInit
<1> QED
  BY <1>1, <1>2, <1>3, <1>4, <1>5 DEF MutexInv, Abstract!LockInit, NoLostWakeup

THEOREM MutexInvariance == MutexSpec => []MutexInv
BY MutexInitInv, MutexStep, PTL DEF MutexSpec

-----------------------------------------------------------------------------
(* The properties *)

\* Whatever applications do with mutexes, the state of mutex.c stays in its types,
\* and the scheduler below keeps its own.
THEOREM MutexTypesHold == MutexSpec => []MutexTypeOK
<1>1. MutexInv => MutexTypeOK
  BY DEF MutexInv, TaskInv, Settled, Between, MutexTypeOK, TaskTypeOK
<1> QED
  BY <1>1, MutexInvariance, PTL

\* No task sleeps on a mutex that is free or was destroyed, however the steps of
\* EnterCritical, its retries, ExitCritical, ends of tasks and reuse of addresses
\* follow each other.
THEOREM NoWakeupLost == MutexSpec => []NoLostWakeup
<1>1. MutexInv => NoLostWakeup
  BY DEF MutexInv
<1> QED
  BY <1>1, MutexInvariance, PTL

\* Mutexes with their queues, events and retries implement module Lock: entering is
\* one step that needs a free mutex or one's own.
THEOREM MutexImplements == MutexSpec => LockImplemented
BY MutexInitInv, MutexStep, PTL DEF MutexSpec, LockImplemented, Abstract!LockSpec

-----------------------------------------------------------------------------
(* Heap objects *)

\* The tasks that have an event, and the heap objects in use by the scheduler.
Holders(s) == {t \in Node : s.task[t].event # NULL}
NamedApps(s, n) == {i \in 1 .. n : s.app[i].name # NoName}
Units(s)   == Cardinality(Holders(s)) + AppUnits(s, Len(s.app))

\* Nothing is lost and nothing is freed twice.
Conserves(s, r) == r.heap + Units(r) = s.heap + Units(s)

LEMMA UnitsFinite ==
    ASSUME NEW s \in KernelState
    PROVE  /\ IsFiniteSet(Holders(s)) /\ Cardinality(Holders(s)) \in Nat
           /\ Len(s.app) \in Nat
           /\ \A n \in Nat : /\ IsFiniteSet(NamedApps(s, n))
                             /\ Cardinality(NamedApps(s, n)) \in Nat
                             /\ AppUnits(s, n) = n + Cardinality(NamedApps(s, n))
                             /\ AppUnits(s, n) \in Nat
           /\ Units(s) \in Nat /\ s.heap \in Nat
<1>1. IsFiniteSet(Holders(s)) /\ Cardinality(Holders(s)) \in Nat
  BY NodesFinite, FS_Subset, FS_CardinalityType DEF Holders
<1>2. Len(s.app) \in Nat /\ s.heap \in Nat
  BY DEF KernelState
<1>3. ASSUME NEW n \in Nat
      PROVE  /\ IsFiniteSet(NamedApps(s, n)) /\ Cardinality(NamedApps(s, n)) \in Nat
             /\ AppUnits(s, n) = n + Cardinality(NamedApps(s, n))
             /\ AppUnits(s, n) \in Nat
  <2>1. IsFiniteSet(1 .. n)
    BY FS_Interval
  <2>2. IsFiniteSet(NamedApps(s, n)) /\ Cardinality(NamedApps(s, n)) \in Nat
    BY <2>1, FS_Subset, FS_CardinalityType DEF NamedApps
  <2>3. AppUnits(s, n) = n + Cardinality(NamedApps(s, n))
    BY DEF NamedApps, AppUnits
  <2>4. n + Cardinality(NamedApps(s, n)) \in Nat
    BY <2>2
  <2> QED
    BY <2>2, <2>3, <2>4
<1>4. Units(s) \in Nat
  <2>1. AppUnits(s, Len(s.app)) \in Nat
    BY <1>2, <1>3
  <2> QED
    BY <1>1, <2>1 DEF Units
<1> QED
  BY <1>1, <1>2, <1>3, <1>4

\* Equal events and applications are equal units.
LEMMA SameUnits ==
    ASSUME NEW s, NEW r, \A t \in Node : r.task[t].event = s.task[t].event,
           r.app = s.app
    PROVE  Units(r) = Units(s)
<1>1. Holders(r) = Holders(s)
  BY DEF Holders
<1> QED
  BY <1>1 DEF Units, AppUnits

\* CreateTask frees what it takes from the list of applications.
LEMMA AppsTaken ==
    ASSUME NEW s \in KernelState, NEW n \in 0 .. Len(s.app), NEW r,
           r.app = SubSeq(s.app, n + 1, Len(s.app))
    PROVE  AppUnits(s, Len(s.app)) = AppUnits(s, n) + AppUnits(r, Len(r.app))
<1> DEFINE l == Len(s.app)
           rest == {i \in (n + 1) .. l : s.app[i].name # NoName}
           named == NamedApps(r, l - n)
<1>1. l \in Nat /\ n \in Nat /\ l - n \in Nat /\ s.app \in Seq(App) /\ n <= l
  BY DEF KernelState
<1>2. Len(r.app) = l - n /\ \A i \in 1 .. l - n : r.app[i] = s.app[n + i]
  <2>1. /\ n + 1 \in 1 .. Len(s.app) + 1 /\ Len(s.app) - (n + 1) + 1 = l - n
        /\ n + 1 \in Int /\ Len(s.app) \in Int
    BY <1>1
  <2>2. \A i \in 1 .. l - n : (n + 1) + i - 1 = n + i
    BY <1>1
  <2>3. /\ Len(r.app) = l - n
        /\ \A i \in 1 .. l - n : r.app[i] = s.app[(n + 1) + i - 1]
    BY <1>1, <2>1
  <2> QED
    BY <2>2, <2>3
<1>3. /\ NamedApps(s, l) = NamedApps(s, n) \union rest
      /\ NamedApps(s, n) \intersect rest = {}
  BY <1>1 DEF NamedApps
<1>4. IsFiniteSet(NamedApps(s, n)) /\ IsFiniteSet(rest)
  <2>1. IsFiniteSet((n + 1) .. l)
    BY <1>1, FS_Interval
  <2> QED
    BY <1>1, <2>1, UnitsFinite, FS_Subset
<1>5. Cardinality(NamedApps(s, l)) = Cardinality(NamedApps(s, n)) + Cardinality(rest)
  <2>1. Cardinality(NamedApps(s, l))
          = Cardinality(NamedApps(s, n)) + Cardinality(rest) - Cardinality({})
    BY <1>3, <1>4, FS_Union
  <2>2. /\ Cardinality({}) = 0 /\ Cardinality(rest) \in Nat
        /\ Cardinality(NamedApps(s, n)) \in Nat
    BY <1>4, FS_EmptySet, FS_CardinalityType
  <2> HIDE DEF l, rest
  <2> QED
    BY <2>1, <2>2
<1>6. Cardinality(named) = Cardinality(rest)
  <2> DEFINE f == [i \in rest |-> i - n]
  <2>1. \A i \in rest : i - n \in 1 .. l - n /\ n + (i - n) = i
    BY <1>1
  <2>2. \A j \in 1 .. l - n : n + j \in (n + 1) .. l /\ (n + j) - n = j
    BY <1>1
  <2>3. f \in [rest -> named]
    BY <1>2, <2>1 DEF NamedApps
  <2>4. \A i, j \in rest : f[i] = f[j] => i = j
    BY <1>1
  <2>5. ASSUME NEW j \in named PROVE \E i \in rest : f[i] = j
    <3>1. n + j \in rest
      BY <1>2, <2>2 DEF NamedApps
    <3>2. f[n + j] = j
      BY <2>2, <3>1 DEF NamedApps
    <3> QED
      BY <3>1, <3>2
  <2> HIDE DEF f, rest, named
  <2>6. f \in Bijection(rest, named)
    BY <2>3, <2>4, <2>5 DEF Bijection, Injection, Surjection, IsInjective
  <2>7. ExistsBijection(rest, named)
    BY <2>6 DEF ExistsBijection
  <2> QED
    BY <1>4, <2>7, FS_Bijection
<1>7. AppUnits(r, Len(r.app)) = (l - n) + Cardinality(named)
  BY <1>2 DEF AppUnits, NamedApps
<1>8. /\ AppUnits(s, l) = l + Cardinality(NamedApps(s, l))
      /\ AppUnits(s, n) = n + Cardinality(NamedApps(s, n))
      /\ Cardinality(NamedApps(s, n)) \in Nat
  BY <1>1, UnitsFinite
<1>9. Cardinality(rest) \in Nat
  BY <1>4, FS_CardinalityType
<1> HIDE DEF rest, named, l
<1> QED
  BY <1>1, <1>5, <1>6, <1>7, <1>8, <1>9 DEF l

LEMMA AppInfoToRunUnits ==
    ASSUME NEW s \in KernelState, NEW name \in Name \union {NoName},
           NEW pri \in Priority \union {MainPri}
    PROVE  Conserves(s, AppInfoToRun(s, name, pri))
<1> DEFINE named == name # NoName /\ s.heap >= 2
           an == [name |-> IF named THEN name ELSE NoName, pri |-> pri]
           r == AppInfoToRun(s, name, pri)
           l == Len(s.app)
<1>1. CASE s.heap = 0
  BY <1>1 DEF AppInfoToRun, Conserves
<1>2. CASE s.heap # 0
  <2>1. /\ r.app = Append(s.app, an) /\ r.task = s.task
        /\ r.heap = s.heap - (IF named THEN 2 ELSE 1)
    BY <1>2 DEF AppInfoToRun, KernelState
  <2>2. s.app \in Seq(App) /\ l \in Nat /\ s.heap \in Nat /\ an \in App
    BY NameAssumption DEF KernelState, App
  <2>3. an.name # NoName <=> named
    OBVIOUS
  <2> HIDE DEF an, r, named
  <2>4. /\ Len(r.app) = l + 1 /\ r.app[l + 1] = an
        /\ \A i \in 1 .. l : r.app[i] = s.app[i]
    BY <2>1, <2>2
  <2>5. NamedApps(r, l + 1) = IF named THEN NamedApps(s, l) \union {l + 1}
                                       ELSE NamedApps(s, l)
    <3>1. 1 .. l + 1 = (1 .. l) \union {l + 1} /\ l + 1 \notin 1 .. l
      BY <2>2
    <3> HIDE DEF l
    <3> QED
      BY <2>3, <2>4, <3>1 DEF NamedApps
  <2>6. IsFiniteSet(NamedApps(s, l)) /\ l + 1 \notin NamedApps(s, l)
        /\ Cardinality(NamedApps(s, l)) \in Nat
    <3>1. IsFiniteSet(NamedApps(s, l)) /\ Cardinality(NamedApps(s, l)) \in Nat
      BY <2>2, UnitsFinite
    <3>2. l + 1 \notin 1 .. l
      BY <2>2
    <3> QED
      BY <3>1, <3>2 DEF NamedApps
  <2>7. /\ named => Cardinality(NamedApps(r, l + 1)) = Cardinality(NamedApps(s, l)) + 1
        /\ ~named => Cardinality(NamedApps(r, l + 1)) = Cardinality(NamedApps(s, l))
    <3>1. Cardinality(NamedApps(s, l) \union {l + 1}) = Cardinality(NamedApps(s, l)) + 1
      BY <2>6, FS_AddElement
    <3> QED
      BY <2>5, <3>1
  <2>8. Holders(r) = Holders(s)
    BY <2>1 DEF Holders
  <2>9. /\ Units(s) = Cardinality(Holders(s)) + (l + Cardinality(NamedApps(s, l)))
        /\ Units(r) = Cardinality(Holders(s))
                        + (l + 1 + Cardinality(NamedApps(r, l + 1)))
    BY <2>4, <2>8 DEF Units, AppUnits, NamedApps
  <2>10. Cardinality(Holders(s)) \in Nat
    BY UnitsFinite
  <2> HIDE DEF l
  <2> DEFINE a == Cardinality(Holders(s))
             b == Cardinality(NamedApps(s, l))
             c == Cardinality(NamedApps(r, l + 1))
  <2>11. /\ a \in Nat /\ b \in Nat /\ l \in Nat /\ s.heap \in Nat
         /\ Units(s) = a + (l + b) /\ Units(r) = a + (l + 1 + c)
    BY <2>2, <2>6, <2>9, <2>10
  <2>12. ASSUME named PROVE Conserves(s, r)
    <3>1. r.heap = s.heap - 2 /\ c = b + 1
      BY <2>1, <2>7, <2>12
    <3> HIDE DEF a, b, c
    <3> QED
      BY <2>11, <3>1 DEF Conserves
  <2>13. ASSUME ~named PROVE Conserves(s, r)
    <3>1. r.heap = s.heap - 1 /\ c = b
      BY <2>1, <2>7, <2>13
    <3> HIDE DEF a, b, c
    <3> QED
      BY <2>11, <3>1 DEF Conserves
  <2>14. Conserves(s, r)
    BY <2>12, <2>13
  <2> QED
    BY <2>14 DEF r
<1> QED
  BY <1>1, <1>2

LEMMA CreateTaskUnits ==
    ASSUME NEW s, Between(s), EventsOK(s)
    PROVE  Conserves(s, CreateTask(s)) /\ CreateTask(s).heap \in Nat
<1> DEFINE n == Creatable(s)
           c == CreateTask(s)
<1>1. s \in KernelState /\ c \in KernelState
  BY CreateTaskBetween DEF Between
<1>2. n \in 0 .. Len(s.app) /\ n \in Nat
  <2>1. s.app \in Seq(App) /\ FreeQ \in QueueId /\ ReadyQ \in QueueId
    BY <1>1, StateFields, QueueIds
  <2>2. n \in 0 .. Len(s.app)
    BY <1>1, CreatableBounds
  <2> HIDE DEF n
  <2> QED
    BY <2>1, <2>2
<1>3. c.app = SubSeq(s.app, n + 1, Len(s.app)) /\ c.heap = s.heap + AppUnits(s, n)
  BY <1>1, Zenon DEF CreateTask, KernelState
<1> HIDE DEF n, c
<1>4. AppUnits(s, Len(s.app)) = AppUnits(s, n) + AppUnits(c, Len(c.app))
  BY <1>1, <1>2, <1>3, AppsTaken
<1>5. Holders(c) = Holders(s)
  BY CreateTaskWaits DEF SameWaits, Holders, c
<1>6. /\ Cardinality(Holders(s)) \in Nat /\ s.heap \in Nat /\ c.heap \in Nat
      /\ AppUnits(s, n) \in Nat /\ AppUnits(c, Len(c.app)) \in Nat
  <2>1. Len(c.app) \in Nat
    BY <1>1, UnitsFinite
  <2> QED
    BY <1>1, <1>2, <2>1, UnitsFinite
<1>7. Conserves(s, c)
  <2> DEFINE a == Cardinality(Holders(s))
             x == AppUnits(s, n)
             y == AppUnits(c, Len(c.app))
  <2>1. /\ Units(s) = a + (x + y) /\ Units(c) = a + y /\ c.heap = s.heap + x
        /\ a \in Nat /\ x \in Nat /\ y \in Nat /\ s.heap \in Nat
    BY <1>3, <1>4, <1>5, <1>6 DEF Units
  <2> HIDE DEF a, x, y
  <2> QED
    BY <2>1 DEF Conserves
<1> QED
  BY <1>6, <1>7 DEF c

\* What comes after CreateTask moves tasks only.
LEMMA AfterCreateTask ==
    ASSUME NEW s, Between(s), SlicesLeft(s)
    PROVE  /\ ScheduleNext(s).heap = CreateTask(s).heap
           /\ ScheduleNext(s).app = CreateTask(s).app
<1> DEFINE c == CreateTask(s)
           d == ReadyToRunning(s)
           e == CheckRunningTask(d)
           f == [e EXCEPT !.queue[RunningQ] = Queue_Rotate(@)]
           r == ScheduleNext(s)
<1>1. c \in KernelState
  BY CreateTaskBetween DEF Between
<1>2. Between(d) /\ SlicesLeft(d) /\ d \in KernelState
  BY ReadyToRunningBetween DEF Between
<1>3. e \in KernelState
  BY <1>2, CheckRunningTaskBetween DEF Between
<1>4. d.heap = c.heap /\ d.app = c.app
  BY <1>1 DEF ReadyToRunning, KernelState
<1>5. r = Dispatch(f)
  BY DEF ScheduleNext
<1> HIDE DEF c, d
<1>6. e.heap = d.heap /\ e.app = d.app
  BY <1>2 DEF CheckRunningTask, KernelState
<1> HIDE DEF e
<1>7. f.heap = e.heap /\ f.app = e.app /\ DOMAIN f = DOMAIN e
      /\ "heap" \in DOMAIN e /\ "app" \in DOMAIN e
  BY <1>3 DEF KernelState
<1> HIDE DEF f
<1>8. r.heap = f.heap /\ r.app = f.app
  BY <1>5, <1>7 DEF Dispatch
<1> QED
  BY <1>4, <1>6, <1>7, <1>8 DEF c, r

LEMMA ScheduleNextUnits ==
    ASSUME NEW s, Between(s), SlicesLeft(s), EventsOK(s)
    PROVE  Conserves(s, ScheduleNext(s))
<1> DEFINE c == CreateTask(s)
           r == ScheduleNext(s)
<1>1. Conserves(s, c)
  BY CreateTaskUnits
<1>2. r.heap = c.heap /\ r.app = c.app
  BY AfterCreateTask
<1>3. \A t \in Node : r.task[t].event = c.task[t].event
  BY ScheduleNextEvents, CreateTaskWaits DEF SameWaits
<1> HIDE DEF c, r
<1>4. Units(r) = Units(c)
  BY <1>2, <1>3, SameUnits
<1>5. Conserves(s, r)
  BY <1>1, <1>2, <1>4 DEF Conserves
<1> QED
  BY <1>5 DEF r

LEMMA ScheduleUnits ==
    ASSUME NEW s, Between(s), SlicesHeld(s), EventsOK(s)
    PROVE  Conserves(s, Schedule(s))
<1> DEFINE d == RunningToReady(s)
<1>1. Between(d) /\ SlicesLeft(d) /\ s \in KernelState
  BY RunningToReadyBetween DEF Between
<1>2. d.heap = s.heap /\ d.app = s.app /\ d.task = s.task
  BY <1>1 DEF RunningToReady, KernelState
<1>3. SameWaits(s, d)
  <2>1. CASE d = s
    BY <2>1 DEF SameWaits
  <2>2. CASE d = [s EXCEPT !.queue = MoveFront(@, RunningQ, ReadyQ, 1)]
    <3>1. d.queue = MoveFront(s.queue, RunningQ, ReadyQ, 1)
      BY <1>1, <2>2 DEF KernelState
    <3> QED
      BY <1>1, <1>2, <3>1, NoWaitQ, MoveWaits
  <2> QED
    BY <2>1, <2>2 DEF RunningToReady
<1>4. Schedule(s) = ScheduleNext(d)
  BY DEF Schedule
<1> HIDE DEF d
<1>5. EventsOK(d)
  BY <1>1, <1>3, SameWaitsKeep
<1>6. Conserves(d, ScheduleNext(d))
  BY <1>1, <1>5, ScheduleNextUnits
<1>7. Units(d) = Units(s)
  BY <1>2, SameUnits
<1> QED
  BY <1>2, <1>4, <1>6, <1>7 DEF Conserves

\* Every event of those who are woken is freed.
LEMMA WaittingToReadyUnits ==
    ASSUME NEW s \in KernelState, NEW wq \in QueueId
    PROVE  Conserves(s, WaittingToReady(s, wq))
<1> DEFINE woken == Members(s.queue[wq])
           freed == {t \in woken : s.task[t].event # NULL}
           r == WaittingToReady(s, wq)
<1>1. woken \subseteq Node /\ s.task \in [Node -> TaskRecord]
  BY StateFields DEF Members
<1>2. r.heap = s.heap + Cardinality(freed) /\ r.app = s.app
  BY DEF WaittingToReady, KernelState
<1>3. \A t \in Node : r.task[t].event = IF t \in woken THEN NULL ELSE s.task[t].event
  <2>1. \A t \in Node : r.task[t] = IF t \in woken THEN [s.task[t] EXCEPT !.event = NULL]
                                    ELSE s.task[t]
    BY DEF WaittingToReady, KernelState
  <2>2. \A t \in Node : [s.task[t] EXCEPT !.event = NULL].event = NULL
    BY <1>1 DEF TaskRecord
  <2> HIDE DEF r, woken
  <2> QED
    BY <2>1, <2>2
<1> HIDE DEF r, woken
<1>4. /\ Holders(s) = Holders(r) \union freed /\ Holders(r) \intersect freed = {}
      /\ freed \subseteq Node /\ Holders(r) \subseteq Node
  BY <1>1, <1>3 DEF Holders
<1>5. /\ IsFiniteSet(Holders(r)) /\ IsFiniteSet(freed)
      /\ Cardinality(Holders(r)) \in Nat /\ Cardinality(freed) \in Nat
  BY <1>4, NodesFinite, FS_Subset
<1> HIDE DEF freed
<1>6. Cardinality(Holders(s)) = Cardinality(Holders(r)) + Cardinality(freed)
  <2>1. Cardinality(Holders(s))
          = Cardinality(Holders(r)) + Cardinality(freed) - Cardinality({})
    BY <1>4, <1>5, FS_Union
  <2> QED
    BY <1>5, <2>1, FS_EmptySet
<1>7. /\ s.heap \in Nat /\ AppUnits(s, Len(s.app)) \in Nat
      /\ AppUnits(r, Len(r.app)) = AppUnits(s, Len(s.app))
  <2>1. s.heap \in Nat /\ AppUnits(s, Len(s.app)) \in Nat
    BY UnitsFinite
  <2>2. AppUnits(r, Len(r.app)) = AppUnits(s, Len(s.app))
    BY <1>2 DEF AppUnits
  <2> QED
    BY <2>1, <2>2
<1>8. Conserves(s, r)
  <2> DEFINE a == Cardinality(Holders(r))
             b == Cardinality(freed)
             x == AppUnits(s, Len(s.app))
  <2>1. /\ a \in Nat /\ b \in Nat /\ x \in Nat /\ s.heap \in Nat
        /\ Units(s) = (a + b) + x /\ Units(r) = a + x /\ r.heap = s.heap + b
    BY <1>2, <1>5, <1>6, <1>7 DEF Units
  <2> HIDE DEF a, b, x
  <2> QED
    BY <2>1 DEF Conserves
<1> QED
  BY <1>8 DEF r

\* The event that is allocated belongs to the task that waits.
LEMMA WaitEventUnits ==
    ASSUME NEW s, Settled(s), s.cur # IdleTask, s.heap # 0, NEW wq \in WaitQ,
           wq \in Node => s.task[wq].id # 0, wq # IdleTask, EventsOK(s)
    PROVE  Conserves(s, WaitEvent(s, wq))
<1>1. PICK d : Blocked(s, d, wq) /\ WaitEvent(s, wq) = ScheduleNext(d)
  BY WaitEventState
<1>2. /\ Between(s) /\ s \in KernelState /\ s.queue[RunningQ] # << >>
      /\ s.cur = s.queue[RunningQ][1] /\ s.cur \in Node
  BY StateFields DEF Settled, Between
<1>3. EventsOK(d) /\ Between(d) /\ SlicesLeft(d)
  BY <1>1, <1>2, BlockedEvents DEF Blocked
<1>4. s.task[s.cur].event = NULL
  <2>1. s.queue[RunningQ] \in Seq(Node)
    BY <1>2, StateFields, QueueIds
  <2>2. 1 \in 1 .. Len(s.queue[RunningQ])
    BY <1>2, <2>1
  <2> QED
    BY <1>2, <2>2, NotWaiting
<1>5. Holders(d) = Holders(s) \union {s.cur} /\ s.cur \notin Holders(s)
  <2>1. wq # NULL
    BY QueueAssumption DEF QueueId
  <2> QED
    BY <1>1, <1>2, <1>4, <2>1 DEF Holders, Blocked
<1>6. /\ IsFiniteSet(Holders(s)) /\ Cardinality(Holders(s)) \in Nat
      /\ s.heap \in Nat /\ AppUnits(s, Len(s.app)) \in Nat
  BY <1>2, UnitsFinite
<1>7. Cardinality(Holders(d)) = Cardinality(Holders(s)) + 1
  BY <1>5, <1>6, FS_AddElement
<1>8. /\ d.heap = s.heap - 1
      /\ AppUnits(d, Len(d.app)) = AppUnits(s, Len(s.app))
  BY <1>1 DEF Blocked, AppUnits
<1>9. Conserves(s, d)
  <2> DEFINE a == Cardinality(Holders(s))
             x == AppUnits(s, Len(s.app))
  <2>1. /\ a \in Nat /\ x \in Nat /\ s.heap \in Nat
        /\ Units(s) = a + x /\ Units(d) = (a + 1) + x /\ d.heap = s.heap - 1
    BY <1>6, <1>7, <1>8 DEF Units
  <2> HIDE DEF a, x
  <2> QED
    BY <2>1 DEF Conserves
<1>10. Conserves(d, ScheduleNext(d))
  BY <1>3, ScheduleNextUnits
<1> QED
  BY <1>1, <1>9, <1>10 DEF Conserves

LEMMA KillTaskUnits ==
    ASSUME NEW s, Settled(s), s.cur # IdleTask, NEW ebx \in Ebx, EventsOK(s)
    PROVE  Conserves(s, KillTask(s, ebx))
<1> DEFINE n == WaittingToReady(s, s.cur)
<1>1. PICK d : Killed(n, d) /\ KillTask(s, ebx) = Schedule(d)
  BY KillTaskState
<1>2. Between(s) /\ s \in KernelState /\ s.cur \in WaitQ /\ s.cur \in QueueId
  BY StateFields, QueueIds DEF Settled, Between
<1>3. EventsOK(n) /\ n \in KernelState /\ Conserves(s, n)
  BY <1>2, WaittingToReadyEvents, WaittingToReadyBetween, WaittingToReadyUnits
     DEF Between
<1> HIDE DEF n
<1>4. EventsOK(d)
  BY <1>1, <1>3, NoWaitQ, MoveWaits, SameWaitsKeep DEF Killed
<1>5. Conserves(d, Schedule(d))
  BY <1>1, <1>4, HeldSlices, ScheduleUnits DEF Killed
<1>6. Units(d) = Units(n) /\ d.heap = n.heap
  BY <1>1, SameUnits DEF Killed
<1> QED
  BY <1>1, <1>3, <1>5, <1>6 DEF Conserves

LEMMA WaitTaskUnits ==
    ASSUME NEW s, Settled(s), s.cur # IdleTask, NEW name, EventsOK(s), IdsOK(s)
    PROVE  Conserves(s, WaitTask(s, name))
<1> DEFINE t == FindTaskByName(s, name)
           r == WaitTask(s, name)
<1>1. s \in KernelState
  BY DEF Settled, Between
<1>2. CASE r = WaitEvent(s, t) /\ t # NULL /\ s.heap # 0
  <2>1. t \in Node /\ s.task[t].id # 0
    BY <1>1, <1>2, FoundIsLive
  <2>2. t # IdleTask
    BY <2>1 DEF IdsOK
  <2> HIDE DEF t
  <2> QED
    BY <1>2, <2>1, <2>2, QueueIds, WaitEventUnits
<1>3. CASE r = s
  BY <1>3 DEF Conserves
<1> QED
  BY <1>2, <1>3 DEF WaitTask

LEMMA InitUnits == TaskInit => kern.heap + Units(kern) = HeapUnits
<1> DEFINE b == BootState
           a == AppInfoToRun(b, MainName, MainPri)
           c == CreateTask(a)
           d == ReadyToRunning(a)
           e == CheckRunningTask(d)
<1>1. SUFFICES ASSUME TaskInit PROVE kern.heap + Units(kern) = HeapUnits
  OBVIOUS
<1>2. b \in KernelState /\ Between(b)
  BY BootBetween DEF Between
<1>3. b.heap + Units(b) = HeapUnits
  <2>1. b.app = << >> /\ b.heap = HeapUnits /\ \A t \in Node : b.task[t].event = NULL
    BY DEF BootState
  <2> HIDE DEF b
  <2>2. Holders(b) = {}
    BY <2>1 DEF Holders
  <2>3. Len(b.app) = 0 /\ NamedApps(b, 0) = {}
    BY <2>1 DEF NamedApps
  <2>4. Units(b) = 0
    BY <2>2, <2>3, FS_EmptySet DEF Units, AppUnits, NamedApps
  <2> QED
    BY <2>1, <2>4, SizeAssumption
<1>4. MainName \in Name \union {NoName} /\ MainPri \in Priority \union {MainPri}
  BY NameAssumption
<1>5. /\ a \in KernelState /\ a.queue = b.queue /\ a.task = b.task
      /\ Conserves(b, a)
  BY <1>2, <1>4, AppInfoToRunState, AppInfoToRunUnits
<1>6. EventsOK(a)
  <2>1. \A w \in WaitQ : w \in QueueId /\ w # FreeQ
    BY QueueIds
  <2>2. \A w \in WaitQ : b.queue[w] = << >>
    BY <2>1 DEF BootState
  <2>3. \A t \in Node : b.task[t].event = NULL
    BY DEF BootState
  <2>4. IdleTask \in WaitQ
    BY QueueIds DEF Node
  <2> HIDE DEF a, b
  <2> QED
    BY <1>5, <2>2, <2>3, <2>4 DEF EventsOK
<1> HIDE DEF a
<1>7. Between(a) /\ SlicesLeft(a)
  <2>1. a.queue[RunningQ] = << >>
    BY <1>5, BootBetween
  <2>2. 1 .. Len(a.queue[RunningQ]) = {}
    BY <2>1
  <2> QED
    BY <1>2, <1>5, <2>2, SameQueues DEF SlicesLeft
<1> HIDE DEF b
<1>8. c \in KernelState /\ Conserves(a, c)
  BY <1>6, <1>7, CreateTaskBetween, CreateTaskUnits DEF Between
<1>9. Between(d) /\ SlicesLeft(d) /\ d \in KernelState
  BY <1>7, ReadyToRunningBetween DEF Between
<1>10. e \in KernelState
  BY <1>9, CheckRunningTaskBetween DEF Between
<1>11. SameWaits(c, d) /\ SameWaits(d, e) /\ SameWaits(e, Dispatch(e))
  BY <1>7, <1>8, <1>9, <1>10, ReadyToRunningWaits, CheckRunningTaskWaits, DispatchWaits
<1>12. kern = Dispatch(e)
  BY <1>1 DEF TaskInit, TaskModInit, LaunchTask, e, d, a, b
<1>13. d.heap = c.heap /\ d.app = c.app
  BY <1>8 DEF ReadyToRunning, KernelState
<1> HIDE DEF c, d
<1>14. e.heap = d.heap /\ e.app = d.app
  BY <1>9 DEF CheckRunningTask, KernelState
<1> HIDE DEF e
<1>15. kern.heap = e.heap /\ kern.app = e.app
  BY <1>10, <1>12 DEF Dispatch, KernelState
<1>16. \A t \in Node : kern.task[t].event = c.task[t].event
  BY <1>11, <1>12 DEF SameWaits
<1>17. Units(kern) = Units(c) /\ kern.heap = c.heap
  BY <1>13, <1>14, <1>15, <1>16, SameUnits
<1> QED
  BY <1>3, <1>5, <1>8, <1>17 DEF Conserves

LEMMA StepUnits ==
    ASSUME TaskInv, IdsOK(kern), EventsOK(kern), [TaskNext]_taskVars
    PROVE  Conserves(kern, kern')
<1>1. Settled(kern) /\ kern \in KernelState
  BY DEF TaskInv, Settled, Between
<1>2. ASSUME NEW ebx \in Ebx, kern' = KillTask(kern, ebx), kern.cur # IdleTask
      PROVE  Conserves(kern, kern')
  BY <1>1, <1>2, KillTaskUnits
<1>3. ASSUME NEW name, kern' = WaitTask(kern, name), kern.cur # IdleTask
      PROVE  Conserves(kern, kern')
  BY <1>1, <1>3, WaitTaskUnits
<1>4. ASSUME NEW name \in Name \union {NoName}, NEW pri \in Priority \union {MainPri},
             kern' = AppInfoToRun(kern, name, pri)
      PROVE  Conserves(kern, kern')
  BY <1>1, <1>4, AppInfoToRunUnits
<1>5. CASE kern' = kern
  BY <1>5 DEF Conserves
<1>6. CASE kern' = Schedule(kern)
  BY <1>1, <1>6, HeldSlices, ScheduleUnits DEF Settled
<1>7. CASE TimerHandler
  BY <1>5, <1>6, <1>7 DEF TimerHandler
<1>8. CASE Exit
  BY <1>2, <1>8, NameAssumption DEF Exit, UserMode
<1>9. CASE \E name \in Name \union {IdleName} : Wait(name)
  BY <1>3, <1>9 DEF Wait, UserMode
<1>10. CASE \E name \in Name, pri \in Priority : RegApp(name, pri)
  BY <1>4, <1>10 DEF RegApp
<1>11. CASE TaskEntryEnd
  <2>1. kern.cur # IdleTask
    BY <1>11 DEF TaskEntryEnd, UserMode
  <2>2. \/ kern' = KillTask(kern, 0)
        \/ \E name \in Name : kern' = WaitTask(kern, name)
        \/ \E name \in Name \union {NoName}, pri \in Priority :
              kern' = AppInfoToRun(kern, name, pri)
        \/ kern' = kern
    BY <1>11 DEF TaskEntryEnd
  <2> QED
    BY <1>2, <1>3, <1>4, <1>5, <2>1, <2>2, NameAssumption
<1>12. CASE Fault
  BY <1>2, <1>12 DEF Fault
<1>13. CASE UNCHANGED taskVars
  BY <1>5, <1>13 DEF taskVars
<1> QED
  BY <1>7, <1>8, <1>9, <1>10, <1>11, <1>12, <1>13 DEF TaskNext

ValidMutexes == {m \in MutexAddr : mutex[m].valid}

\* Only finitely many mutexes exist at a time, whatever the addresses Malloc has.
HeapInv ==
    /\ MutexInv /\ EventsOK(kern)
    /\ IsFiniteSet(ValidMutexes)
    /\ kern.heap + Units(kern) + Cardinality(ValidMutexes) = HeapUnits

\* A step that makes and destroys no mutex.
LEMMA SameMutexes ==
    ASSUME HeapInv, MutexInv', EventsOK(kern'), Conserves(kern, kern'),
           \A m \in MutexAddr : mutex'[m].valid <=> mutex[m].valid
    PROVE  HeapInv'
<1>1. ValidMutexes' = ValidMutexes
  BY DEF ValidMutexes
<1>2. kern'.heap + Units(kern') = kern.heap + Units(kern)
  BY DEF Conserves
<1>3. IsFiniteSet(ValidMutexes')
  BY <1>1 DEF HeapInv
<1>4. kern'.heap + Units(kern') + Cardinality(ValidMutexes') = HeapUnits
  BY <1>1, <1>2 DEF HeapInv
<1>5. Units(kern)' = Units(kern') /\ EventsOK(kern)'
  BY DEF Units, AppUnits, Holders
<1> QED
  BY <1>3, <1>4, <1>5 DEF HeapInv

\* The heap alone, without the scheduler.
LEMMA HeapChanges ==
    ASSUME NEW s \in KernelState, EventsOK(s), NEW h
    PROVE  LET r == [s EXCEPT !.heap = h]
           IN  EventsOK(r) /\ r.heap = h /\ Units(r) = Units(s)
<1> DEFINE r == [s EXCEPT !.heap = h]
<1>1. r.queue = s.queue /\ r.task = s.task /\ r.app = s.app /\ r.heap = h
  BY DEF KernelState
<1> HIDE DEF r
<1>2. EventsOK(r)
  BY <1>1, SameWaitsKeep DEF SameWaits
<1>3. Units(r) = Units(s)
  BY <1>1, SameUnits
<1> QED
  BY <1>1, <1>2, <1>3 DEF r

LEMMA CreateUnits ==
    ASSUME HeapInv, MutexInv', NEW m \in MutexAddr, NEW type \in {"Normal", "Strict"},
           SysCreateMutex(m, type)
    PROVE  HeapInv'
<1>1. /\ kern \in KernelState /\ kern.heap \in Nat /\ Units(kern) \in Nat
      /\ mutex \in [MutexAddr -> MutexRecord] /\ ~mutex[m].valid
  BY CurrentFacts, UnitsFinite DEF HeapInv, SysCreateMutex
<1>2. CASE kern.heap = 0
  <2>1. kern' = kern /\ mutex' = mutex
    BY <1>2 DEF SysCreateMutex
  <2> QED
    BY <2>1, SameMutexes DEF HeapInv, Conserves
<1>3. CASE kern.heap # 0
  <2> DEFINE r == [valid |-> TRUE, type |-> type, lock |-> 0]
             h == kern.heap - 1
  <2>1. kern' = [kern EXCEPT !.heap = h] /\ mutex' = [mutex EXCEPT ![m] = r]
    BY <1>3 DEF SysCreateMutex
  <2>2. \A x \in MutexAddr : mutex'[x] = IF x = m THEN r ELSE mutex[x]
    BY <1>1, <2>1
  <2>3. ValidMutexes' = ValidMutexes \union {m} /\ m \notin ValidMutexes
    BY <1>1, <2>2 DEF ValidMutexes
  <2>4. IsFiniteSet(ValidMutexes) /\ Cardinality(ValidMutexes) \in Nat
    BY FS_CardinalityType DEF HeapInv
  <2>5. /\ IsFiniteSet(ValidMutexes')
        /\ Cardinality(ValidMutexes') = Cardinality(ValidMutexes) + 1
    BY <2>3, <2>4, FS_AddElement
  <2>6. EventsOK(kern') /\ kern'.heap = kern.heap - 1 /\ Units(kern') = Units(kern)
    BY <1>1, <2>1, HeapChanges DEF HeapInv
  <2> HIDE DEF h, r
  <2>7. kern'.heap + Units(kern') + Cardinality(ValidMutexes') = HeapUnits
    BY <1>1, <2>4, <2>5, <2>6 DEF HeapInv
  <2>8. Units(kern)' = Units(kern') /\ EventsOK(kern)' = EventsOK(kern')
    BY DEF Units, AppUnits, Holders, EventsOK
  <2> QED
    BY <2>5, <2>6, <2>7, <2>8 DEF HeapInv
<1> QED
  BY <1>2, <1>3

LEMMA DestroyUnits ==
    ASSUME HeapInv, MutexInv', NEW m \in MutexAddr, SysDestroyMutex(m)
    PROVE  HeapInv'
<1>1. /\ kern \in KernelState /\ kern.heap \in Nat /\ Units(kern) \in Nat
      /\ mutex \in [MutexAddr -> MutexRecord] /\ mutex[m].valid
  BY CurrentFacts, UnitsFinite DEF HeapInv, SysDestroyMutex
<1>2. CASE mutex[m].lock # 0
  <2>1. kern' = kern /\ mutex' = mutex
    BY <1>2 DEF SysDestroyMutex
  <2> QED
    BY <2>1, SameMutexes DEF HeapInv, Conserves
<1>3. CASE mutex[m].lock = 0
  <2> DEFINE h == kern.heap + 1
  <2>1. kern' = [kern EXCEPT !.heap = h] /\ mutex' = [mutex EXCEPT ![m] = NoMutex]
    BY <1>3 DEF SysDestroyMutex
  <2>2. \A x \in MutexAddr : mutex'[x] = IF x = m THEN NoMutex ELSE mutex[x]
    BY <1>1, <2>1
  <2>3. ValidMutexes' = ValidMutexes \ {m} /\ m \in ValidMutexes
    BY <1>1, <2>2 DEF ValidMutexes, NoMutex
  <2>4. IsFiniteSet(ValidMutexes) /\ Cardinality(ValidMutexes) \in Nat
    BY FS_CardinalityType DEF HeapInv
  <2>5. /\ IsFiniteSet(ValidMutexes')
        /\ Cardinality(ValidMutexes') = Cardinality(ValidMutexes) - 1
    BY <2>3, <2>4, FS_RemoveElement
  <2>6. EventsOK(kern') /\ kern'.heap = kern.heap + 1 /\ Units(kern') = Units(kern)
    BY <1>1, <2>1, HeapChanges DEF HeapInv
  <2> HIDE DEF h
  <2>7. kern'.heap + Units(kern') + Cardinality(ValidMutexes') = HeapUnits
    BY <1>1, <2>4, <2>5, <2>6 DEF HeapInv
  <2>8. Units(kern)' = Units(kern') /\ EventsOK(kern)' = EventsOK(kern')
    BY DEF Units, AppUnits, Holders, EventsOK
  <2> QED
    BY <2>5, <2>6, <2>7, <2>8 DEF HeapInv
<1> QED
  BY <1>2, <1>3

LEMMA EnterUnits ==
    ASSUME HeapInv, MutexInv', NEW m \in MutexAddr, SysEnterCritical(m)
    PROVE  HeapInv'
<1>1. /\ Settled(kern) /\ kern \in KernelState /\ kern.cur # IdleTask
      /\ mutex \in [MutexAddr -> MutexRecord] /\ EventsOK(kern)
  BY CurrentFacts DEF HeapInv, SysEnterCritical
<1>2. CASE kern' = kern /\ mutex' = mutex
  BY <1>2, SameMutexes DEF HeapInv, Conserves
<1>3. CASE Acquire(m)
  <2>1. kern' = kern /\ \A x \in MutexAddr : mutex'[x].valid <=> mutex[x].valid
    <3> DEFINE k == IF mutex[m].type = "Strict" THEN CurrentTaskId ELSE 1
    <3>1. kern' = kern /\ mutex' = [mutex EXCEPT ![m].lock = k]
      BY <1>3 DEF Acquire
    <3>2. \A r \in MutexRecord : [r EXCEPT !.lock = k].valid <=> r.valid
      BY DEF MutexRecord
    <3> HIDE DEF k
    <3> QED
      BY <1>1, <3>1, <3>2
  <2> QED
    BY <2>1, SameMutexes DEF HeapInv, Conserves
<1>4. CASE DoWait(m) /\ kern.heap # 0
  <2>1. kern' = WaitEvent(kern, m) /\ mutex' = mutex
    BY <1>4 DEF DoWait
  <2>2. m \in WaitQ /\ m \notin Node /\ m # IdleTask
    BY MutexAssumption, QueueAssumption DEF WaitQ, Node
  <2>3. EventsOK(kern') /\ Conserves(kern, kern')
    BY <1>1, <1>4, <2>1, <2>2, WaitEventEvents, WaitEventUnits
  <2> QED
    BY <2>1, <2>3, SameMutexes
<1> QED
  BY <1>2, <1>3, <1>4 DEF SysEnterCritical, DoWait

LEMMA ExitUnits ==
    ASSUME HeapInv, MutexInv', NEW m \in MutexAddr, SysExitCritical(m)
    PROVE  HeapInv'
<1>1. /\ Settled(kern) /\ kern \in KernelState /\ kern.cur # IdleTask
      /\ mutex \in [MutexAddr -> MutexRecord] /\ EventsOK(kern) /\ Between(kern)
  BY CurrentFacts DEF HeapInv, SysExitCritical, InApplication, Settled
<1>2. CASE SysNormalExit(m)
  <2>1. kern' = WaittingToReady(kern, m) /\ mutex' = [mutex EXCEPT ![m].lock = 0]
    BY <1>2 DEF SysNormalExit
  <2>2. \A x \in MutexAddr : mutex'[x].valid <=> mutex[x].valid
    <3>1. \A r \in MutexRecord : [r EXCEPT !.lock = 0].valid <=> r.valid
      BY DEF MutexRecord
    <3> QED
      BY <1>1, <2>1, <3>1
  <2>3. m \in WaitQ /\ m \in QueueId
    BY MutexAssumption DEF WaitQ, QueueId
  <2>4. EventsOK(kern') /\ Conserves(kern, kern')
    BY <1>1, <2>1, <2>3, WaittingToReadyEvents, WaittingToReadyUnits
  <2> QED
    BY <2>2, <2>4, SameMutexes
<1>3. CASE kern' = KillTask(kern, 2) /\ mutex' = mutex
  BY <1>1, <1>3, MutexAssumption, KillTaskEvents, KillTaskUnits, SameMutexes
<1> QED
  BY <1>2, <1>3 DEF SysExitCritical, SysStrictExit

LEMMA HeapStep == HeapInv /\ [MutexNext]_mutexVars => HeapInv'
<1> SUFFICES ASSUME HeapInv, [MutexNext]_mutexVars PROVE HeapInv'
  OBVIOUS
<1>1. MutexInv'
  BY MutexStep DEF HeapInv
<1>2. ASSUME [TaskNext]_taskVars, mutex' = mutex PROVE HeapInv'
  <2>1. TaskInv /\ IdsOK(kern) /\ EventsOK(kern)
    BY DEF HeapInv, MutexInv
  <2> QED
    BY <1>1, <1>2, <2>1, StepEvents, StepUnits, SameMutexes
<1>3. CASE \E m \in MutexAddr :
             \/ \E type \in {"Normal", "Strict"} : SysCreateMutex(m, type)
             \/ SysDestroyMutex(m)
             \/ SysEnterCritical(m)
             \/ SysExitCritical(m)
  BY <1>1, <1>3, CreateUnits, DestroyUnits, EnterUnits, ExitUnits
<1>4. CASE UNCHANGED mutexVars
  BY <1>2, <1>4 DEF mutexVars
<1>5. CASE TaskFaults \/ TaskEnds
  BY <1>2, <1>5 DEF TaskFaults, TaskEnds, TaskNext
<1>6. CASE /\ \/ TimerHandler
              \/ \E name \in Name \union {IdleName} : Wait(name)
              \/ \E name \in Name, pri \in Priority : RegApp(name, pri)
           /\ UNCHANGED << mutex, entering, inside >>
  BY <1>2, <1>6 DEF TaskNext
<1> QED
  BY <1>3, <1>4, <1>5, <1>6 DEF MutexNext

LEMMA HeapInit == MutexInit => HeapInv
<1> SUFFICES ASSUME MutexInit PROVE HeapInv
  OBVIOUS
<1>1. MutexInv /\ EventsOK(kern) /\ kern.heap + Units(kern) = HeapUnits
  BY MutexInitInv, InitEvents, InitUnits DEF MutexInit
<1>2. ValidMutexes = {}
  BY DEF ValidMutexes, MutexInit, NoMutex
<1>3. IsFiniteSet(ValidMutexes) /\ Cardinality(ValidMutexes) = 0
  BY <1>2, FS_EmptySet
<1>4. HeapUnits \in Nat
  BY SizeAssumption
<1> QED
  BY <1>1, <1>3, <1>4 DEF HeapInv

\* No kernel object is lost or freed twice, whether its task is woken, dies, or
\* exits a mutex that is not its own: each is free, the event of a task, a registered
\* application or its name, or a valid mutex (mutex.c:11, 59, 72, task.c:217-230).
THEOREM NoObjectLost == MutexSpec => []MutexHeapBalanced
<1>1. MutexInit => HeapInv
  BY HeapInit
<1>2. HeapInv /\ [MutexNext]_mutexVars => HeapInv'
  BY HeapStep
<1>3. HeapInv => MutexHeapBalanced
  <2>1. SUFFICES ASSUME HeapInv PROVE MutexHeapBalanced
    OBVIOUS
  <2>2. TaskUnits = Units(kern)
    BY DEF TaskUnits, Units, Holders
  <2> QED
    BY <2>1, <2>2 DEF HeapInv, ValidMutexes, MutexHeapBalanced
<1> QED
  BY <1>1, <1>2, <1>3, PTL DEF MutexSpec
=============================================================================
