----------------------------- MODULE TaskProofs -----------------------------
(***************************************************************************)
(* Proofs about the scheduler, for any number of tasks, queues, priorities *)
(* and names: the inductive invariant TaskInv holds in every state, and    *)
(* the properties of module Task that follow from it. The second part is   *)
(* about the life of tasks: module Lifecycle is implemented.               *)
(***************************************************************************)
EXTENDS TaskLifecycle, WellFoundedInduction, SequenceTheorems,
        FiniteSetTheorems, TLAPS

Queues == [QueueId -> Seq(Node)]

\* The first n nodes of from have become the last n nodes of to.
IsMove(r, q, from, to, n) ==
    /\ Len(r[from]) = Len(q[from]) - n
    /\ Len(r[to]) = Len(q[to]) + n
    /\ \A i \in 1 .. Len(r[from]) : r[from][i] = q[from][n + i]
    /\ \A i \in 1 .. Len(r[to]) :
          r[to][i] = IF i <= Len(q[to]) THEN q[to][i] ELSE q[from][i - Len(q[to])]
    /\ \A a \in QueueId \ {from, to} : r[a] = q[a]

LEMMA MoveElements ==
    ASSUME NEW q \in Queues, NEW from \in QueueId, NEW to \in QueueId,
           from # to, NEW n \in 0 .. Len(q[from])
    PROVE  /\ MoveFront(q, from, to, n) \in Queues
           /\ IsMove(MoveFront(q, from, to, n), q, from, to, n)
<1> DEFINE r == MoveFront(q, from, to, n)
           f == SubSeq(q[from], n + 1, Len(q[from]))
           m == SubSeq(q[from], 1, n)
<1>1. q[from] \in Seq(Node) /\ q[to] \in Seq(Node)
  BY DEF Queues
<1>2. /\ f \in Seq(Node) /\ Len(f) = Len(q[from]) - n
      /\ \A i \in 1 .. Len(f) : f[i] = q[from][n + i]
  BY <1>1
<1>3. /\ m \in Seq(Node) /\ Len(m) = n
      /\ \A i \in 1 .. n : m[i] = q[from][i]
  BY <1>1
<1>4. r = [q EXCEPT ![from] = f, ![to] = q[to] \o m]
  BY DEF MoveFront
<1>5. r[from] = f /\ r[to] = q[to] \o m /\ \A a \in QueueId \ {from, to} : r[a] = q[a]
  BY <1>4 DEF Queues
<1>6. q[to] \o m \in Seq(Node) /\ Len(q[to] \o m) = Len(q[to]) + n
  <2>1. m \in Seq(Node) /\ q[to] \in Seq(Node)
    BY <1>1, <1>3
  <2>2. Len(m) = n
    BY <1>3
  <2> HIDE DEF m
  <2>3. QED BY <2>1, <2>2, ConcatProperties
<1>7. \A i \in 1 .. Len(r[to]) :
         r[to][i] = IF i <= Len(q[to]) THEN q[to][i] ELSE q[from][i - Len(q[to])]
  <2>1. m \in Seq(Node) /\ q[to] \in Seq(Node)
    BY <1>1, <1>3
  <2> HIDE DEF m, r
  <2>2. QED BY <1>3, <1>5, <1>6, <2>1, ConcatProperties
<1>8. r \in Queues
  BY <1>2, <1>4, <1>6 DEF Queues
<1>9. QED BY <1>2, <1>5, <1>6, <1>7, <1>8 DEF IsMove

\* Where the node at position i of queue a was before MoveFront.
Source(q, from, to, n, a, i) ==
    IF a = from THEN << from, n + i >>
    ELSE IF a = to /\ i > Len(q[to]) THEN << from, i - Len(q[to]) >>
    ELSE << a, i >>

LEMMA MoveSource ==
    ASSUME NEW q \in Queues, NEW from \in QueueId, NEW to \in QueueId,
           from # to, NEW n \in 0 .. Len(q[from]),
           NEW a \in QueueId, NEW i \in 1 .. Len(MoveFront(q, from, to, n)[a])
    PROVE  LET s == Source(q, from, to, n, a, i)
           IN  /\ s[1] \in QueueId
               /\ s[2] \in 1 .. Len(q[s[1]])
               /\ MoveFront(q, from, to, n)[a][i] = q[s[1]][s[2]]
<1> DEFINE r == MoveFront(q, from, to, n)
<1>1. IsMove(r, q, from, to, n)
  BY MoveElements
<1>2. Len(q[from]) \in Nat /\ Len(q[to]) \in Nat
  BY LenProperties DEF Queues
<1>3. i \in 1 .. Len(r[a])
  OBVIOUS
<1> HIDE DEF r
<1>4. CASE a = from
  <2> DEFINE l == Len(q[from])
  <2>3. i \in 1 .. l - n /\ l \in Nat
    BY <1>1, <1>2, <1>3, <1>4 DEF IsMove
  <2>4. r[from][i] = q[from][n + i]
    BY <1>1, <1>3, <1>4 DEF IsMove
  <2> HIDE DEF l
  <2>5. n \in Nat /\ n + i \in 1 .. l
    BY <2>3 DEF l
  <2>1. n + i \in 1 .. Len(q[from]) /\ r[from][i] = q[from][n + i]
    BY <2>4, <2>5 DEF l
  <2>2. QED BY <1>4, <2>1 DEF Source, r
<1>5. CASE a = to /\ i <= Len(q[to])
  <2>1. i \in 1 .. Len(q[to]) /\ r[to][i] = q[to][i]
    BY <1>1, <1>2, <1>3, <1>5 DEF IsMove
  <2>2. QED BY <1>2, <1>3, <1>5, <2>1 DEF Source, r
<1>6. CASE a = to /\ ~(i <= Len(q[to]))
  <2>1. i \in 1 .. Len(q[to]) + n
    BY <1>1, <1>3, <1>6 DEF IsMove
  <2>2. i - Len(q[to]) \in 1 .. Len(q[from]) /\ i > Len(q[to])
    BY <1>2, <1>6, <2>1
  <2>3. r[to][i] = q[from][i - Len(q[to])]
    BY <1>1, <1>3, <1>6 DEF IsMove
  <2>4. QED BY <1>6, <2>2, <2>3 DEF Source, r
<1>7. CASE a \notin {from, to}
  BY <1>1, <1>3, <1>7 DEF IsMove, Source, r
<1>8. QED BY <1>4, <1>5, <1>6, <1>7

LEMMA MoveNoDuplicate ==
    ASSUME NEW q \in Queues, NEW from \in QueueId, NEW to \in QueueId,
           from # to, NEW n \in 0 .. Len(q[from]), NoDuplicate(q)
    PROVE  NoDuplicate(MoveFront(q, from, to, n))
<1> DEFINE r == MoveFront(q, from, to, n)
<1>1. SUFFICES ASSUME NEW a \in QueueId, NEW b \in QueueId,
                      NEW i \in 1 .. Len(r[a]), NEW j \in 1 .. Len(r[b]),
                      r[a][i] = r[b][j]
               PROVE  a = b /\ i = j
  BY DEF NoDuplicate
<1> DEFINE s == Source(q, from, to, n, a, i)
           t == Source(q, from, to, n, b, j)
<1>2. /\ s[1] \in QueueId /\ s[2] \in 1 .. Len(q[s[1]])
      /\ r[a][i] = q[s[1]][s[2]]
  BY MoveSource
<1>3. /\ t[1] \in QueueId /\ t[2] \in 1 .. Len(q[t[1]])
      /\ r[b][j] = q[t[1]][t[2]]
  BY MoveSource
<1>4. s[1] = t[1] /\ s[2] = t[2]
  <2> HIDE DEF s, t, r
  <2>1. q[s[1]][s[2]] = q[t[1]][t[2]]
    BY <1>1, <1>2, <1>3
  <2>2. \A x, y \in QueueId : \A k \in 1 .. Len(q[x]), l \in 1 .. Len(q[y]) :
           q[x][k] = q[y][l] => x = y /\ k = l
    BY DEF NoDuplicate
  <2> DEFINE x == s[1]
             y == t[1]
             k == s[2]
             l == t[2]
  <2>3. /\ x \in QueueId /\ y \in QueueId
        /\ k \in 1 .. Len(q[x]) /\ l \in 1 .. Len(q[y]) /\ q[x][k] = q[y][l]
    BY <1>2, <1>3, <2>1
  <2> HIDE DEF x, y, k, l
  <2>4. x = y /\ k = l
    BY <2>2, <2>3
  <2>5. QED BY <2>4 DEF x, y, k, l
<1>5. Len(q[from]) \in Nat /\ Len(q[to]) \in Nat
  BY LenProperties DEF Queues
<1>6. Len(r[from]) = Len(q[from]) - n /\ Len(r[to]) = Len(q[to]) + n
  <2>1. IsMove(r, q, from, to, n)
    BY MoveElements
  <2> HIDE DEF r
  <2>2. QED BY <2>1 DEF IsMove
<1>7. i \in Nat /\ j \in Nat /\ i >= 1 /\ j >= 1
      /\ (a = to => i <= Len(q[to]) + n) /\ (b = to => j <= Len(q[to]) + n)
  BY <1>5, <1>6
<1>8. QED
  <2> HIDE DEF r
  <2>1. QED BY <1>4, <1>5, <1>7 DEF Source

LEMMA MoveNothingLost ==
    ASSUME NEW q \in Queues, NEW from \in QueueId, NEW to \in QueueId,
           from # to, NEW n \in 0 .. Len(q[from]), NothingLost(q)
    PROVE  NothingLost(MoveFront(q, from, to, n))
<1> DEFINE r == MoveFront(q, from, to, n)
<1>1. SUFFICES ASSUME NEW t \in TaskNode
               PROVE  \E a \in QueueId : \E i \in 1 .. Len(r[a]) : r[a][i] = t
  BY DEF NothingLost
<1>2. IsMove(r, q, from, to, n)
  BY MoveElements
<1>3. \A c \in QueueId : Len(q[c]) \in Nat
  BY LenProperties DEF Queues
<1> HIDE DEF r
<1>4. PICK b \in QueueId : \E k \in 1 .. Len(q[b]) : q[b][k] = t
  BY DEF NothingLost
<1>10. PICK j \in 1 .. Len(q[b]) : q[b][j] = t
  BY <1>4
<1>5. CASE b = from /\ j > n
  <2>1. j - n \in 1 .. Len(r[from]) /\ r[from][j - n] = t
    BY <1>2, <1>3, <1>10, <1>5 DEF IsMove
  <2>2. QED BY <2>1
<1>6. CASE b = from /\ j <= n
  <2> DEFINE k == Len(q[to]) + j
  <2>1. k \in 1 .. Len(r[to]) /\ ~(k <= Len(q[to])) /\ k - Len(q[to]) = j
    BY <1>2, <1>3, <1>10, <1>6 DEF IsMove
  <2> HIDE DEF k
  <2>2. r[to][k] = t
    BY <1>2, <1>10, <1>6, <2>1 DEF IsMove
  <2>3. QED BY <2>1, <2>2
<1>7. CASE b = to
  <2>1. j \in 1 .. Len(r[to]) /\ r[to][j] = t
    BY <1>2, <1>3, <1>10, <1>7 DEF IsMove
  <2>2. QED BY <2>1
<1>8. CASE b \notin {from, to}
  BY <1>2, <1>10, <1>8 DEF IsMove
<1>9. QED BY <1>3, <1>5, <1>6, <1>7, <1>8

-----------------------------------------------------------------------------
(* Moves and the idle task *)

LEMMA MoveIdleFirst ==
    ASSUME NEW q \in Queues, NEW from \in QueueId, NEW to \in QueueId,
           from # to, NEW n \in 0 .. Len(q[from]), IdleFirst(q),
           from = RunningQ /\ n # 0 => q[from][1] # IdleTask
    PROVE  IdleFirst(MoveFront(q, from, to, n))
<1> DEFINE r == MoveFront(q, from, to, n)
<1>1. SUFFICES ASSUME NEW a \in QueueId, NEW i \in 1 .. Len(r[a]),
                      r[a][i] = IdleTask
               PROVE  a = RunningQ /\ i = 1
  BY DEF IdleFirst
<1> DEFINE s == Source(q, from, to, n, a, i)
<1>2. /\ s[1] \in QueueId /\ s[2] \in 1 .. Len(q[s[1]])
      /\ r[a][i] = q[s[1]][s[2]]
  BY MoveSource
<1>3. s[1] = RunningQ /\ s[2] = 1 /\ q[RunningQ][1] = IdleTask
  <2> HIDE DEF s, r
  <2>1. QED BY <1>1, <1>2 DEF IdleFirst
<1>4. Len(q[from]) \in Nat /\ Len(q[to]) \in Nat
  BY LenProperties DEF Queues
<1>5. Len(r[from]) = Len(q[from]) - n /\ Len(r[to]) = Len(q[to]) + n
  <2>1. IsMove(r, q, from, to, n)
    BY MoveElements
  <2> HIDE DEF r
  <2>2. QED BY <2>1 DEF IsMove
<1>6. i \in Nat /\ i >= 1 /\ (a = to => i <= Len(q[to]) + n)
  BY <1>4, <1>5
<1>7. QED
  <2> HIDE DEF r
  <2>1. QED BY <1>3, <1>4, <1>6 DEF Source

-----------------------------------------------------------------------------
(* Creating tasks *)

LEMMA Bounds ==
    ASSUME NEW a \in Nat, NEW b \in Nat
    PROVE  /\ Smaller(a, b) \in Nat /\ Smaller(a, b) <= a /\ Smaller(a, b) <= b
           /\ Monus(a, b) \in Nat /\ Monus(a, b) <= a
BY DEF Smaller, Monus

LEMMA StateFields ==
    ASSUME NEW s \in KernelState
    PROVE  /\ s.queue \in Queues
           /\ \A a \in QueueId : s.queue[a] \in Seq(Node) /\ Len(s.queue[a]) \in Nat
           /\ s.task \in [Node -> TaskRecord]
           /\ s.app \in Seq(App) /\ Len(s.app) \in Nat
           /\ s.cur \in Node /\ s.pid \in Nat /\ s.heap \in Nat
BY LenProperties DEF KernelState, Queues

LEMMA CreatableBounds ==
    ASSUME NEW s \in KernelState
    PROVE  /\ Creatable(s) \in 0 .. Len(s.app)
           /\ Creatable(s) \in 0 .. Len(s.queue[FreeQ])
<1> DEFINE m == Monus(MAX_READY_TASK, Len(s.queue[ReadyQ]))
           k == Smaller(Len(s.app), Len(s.queue[FreeQ]))
<1>1. MAX_READY_TASK \in Nat
  BY SizeAssumption DEF MAX_READY_TASK
<1>2. /\ Len(s.app) \in Nat /\ Len(s.queue[FreeQ]) \in Nat
      /\ Len(s.queue[ReadyQ]) \in Nat
  BY StateFields DEF QueueId
<1>3. m \in Nat
  BY <1>1, <1>2, Bounds
<1>4. k \in Nat /\ k <= Len(s.app) /\ k <= Len(s.queue[FreeQ])
  BY <1>2, Bounds
<1> HIDE DEF m, k
<1>5. Smaller(k, m) \in Nat /\ Smaller(k, m) <= k
  BY <1>3, <1>4, Bounds
<1>6. QED
  BY <1>2, <1>4, <1>5 DEF Creatable, k, m

LEMMA AppUnitsType ==
    ASSUME NEW s, NEW n \in Nat
    PROVE  AppUnits(s, n) \in Nat
<1> DEFINE N == {i \in 1 .. n : s.app[i].name # NoName}
<1>1. IsFiniteSet(1 .. n)
  BY FS_Interval
<1>2. IsFiniteSet(N)
  BY <1>1, FS_Subset
<1>3. Cardinality(N) \in Nat
  BY <1>2, FS_CardinalityType
<1>4. QED BY <1>3 DEF AppUnits

LEMMA InitTaskType ==
    ASSUME NEW t \in TaskRecord, NEW id \in Nat, NEW an \in App
    PROVE  LET r == InitTask(t, id, an.name, an.pri)
           IN  /\ r \in TaskRecord
               /\ r.total \in 1 .. MAX_TIME_SLICE
               /\ r.current = 0
<1>1. an.pri \in Nat /\ an.pri + 2 <= MAX_TIME_SLICE /\ MAX_TIME_SLICE \in Nat
  BY SliceAssumption DEF App
<1>2. MAX_TIME_SLICE - an.pri \in 1 .. MAX_TIME_SLICE
  BY <1>1
<1>3. an.name \in Name \union {NoName}
  BY DEF App
<1>4. t.ebx \in Ebx /\ MAX_TIME_SLICE - an.pri \in Nat
  BY <1>2 DEF TaskRecord
<1>5. QED BY <1>2, <1>3, <1>4 DEF InitTask, TaskRecord

LEMMA QueueIds ==
    /\ FreeQ \in QueueId /\ ReadyQ \in QueueId /\ RunningQ \in QueueId
    /\ FreeQ # ReadyQ /\ FreeQ # RunningQ /\ ReadyQ # RunningQ
    /\ \A w \in WaitQ : /\ w \in QueueId
                        /\ w # FreeQ /\ w # ReadyQ /\ w # RunningQ
    /\ Node \subseteq WaitQ
BY QueueAssumption DEF QueueId, WaitQ

LEMMA PrefixMembers ==
    ASSUME NEW q \in Seq(Node), NEW n \in 0 .. Len(q)
    PROVE  Members(SubSeq(q, 1, n)) = {q[i] : i \in 1 .. n}
<1>1. /\ Len(SubSeq(q, 1, n)) = n
      /\ \A i \in 1 .. n : SubSeq(q, 1, n)[i] = q[i]
  OBVIOUS
<1> DEFINE p == SubSeq(q, 1, n)
<1> HIDE DEF p
<1>2. {p[i] : i \in 1 .. n} = {q[i] : i \in 1 .. n}
  BY <1>1 DEF p
<1>3. QED BY <1>1, <1>2 DEF Members, p

LEMMA CreateTaskQueue ==
    ASSUME NEW s \in KernelState, FreeIsUnused(s)
    PROVE  CreateTask(s).queue
             = MoveFront(s.queue, FreeQ, ReadyQ, Creatable(s))
<1> DEFINE n == Creatable(s)
           made == Members(SubSeq(s.queue[FreeQ], 1, n))
           moved == MoveFront(s.queue, FreeQ, ReadyQ, n)
<1>1. CreateTask(s).queue =
        [x \in QueueId |-> IF x \in made THEN << >> ELSE moved[x]]
  BY DEF CreateTask, KernelState
<1>2. n \in 0 .. Len(s.queue[FreeQ]) /\ s.queue \in Queues
      /\ s.queue[FreeQ] \in Seq(Node)
  BY CreatableBounds, StateFields, QueueIds
<1>3. made = {s.queue[FreeQ][i] : i \in 1 .. n}
  BY <1>2, PrefixMembers
<1>4. moved \in Queues /\ \A a \in QueueId \ {FreeQ, ReadyQ} : moved[a] = s.queue[a]
  BY <1>2, QueueIds, MoveElements DEF IsMove
<1> HIDE DEF moved, n, made
<1>5. \A x \in made : moved[x] = << >>
  <2>1. SUFFICES ASSUME NEW i \in 1 .. n
                 PROVE  moved[s.queue[FreeQ][i]] = << >>
    BY <1>3
  <2>2. i \in 1 .. Len(s.queue[FreeQ])
    BY <1>2
  <2>3. s.queue[FreeQ][i] \in Node
    BY <1>2, <2>2
  <2>4. s.queue[s.queue[FreeQ][i]] = << >>
    BY <2>2 DEF FreeIsUnused
  <2>5. QED BY <1>4, <2>3, <2>4, QueueIds
<1>6. moved = [x \in QueueId |-> moved[x]]
  BY <1>4 DEF Queues
<1>7. QED BY <1>1, <1>5, <1>6 DEF moved, n

LEMMA CreateTaskState ==
    ASSUME NEW s \in KernelState, FreeIsUnused(s)
    PROVE  LET n == Creatable(s)
           IN  /\ CreateTask(s) \in KernelState
               /\ \A t \in Node :
                    IF \E i \in 1 .. n : s.queue[FreeQ][i] = t
                    THEN CreateTask(s).task[t].total \in 1 .. MAX_TIME_SLICE
                    ELSE CreateTask(s).task[t] = s.task[t]
               /\ CreateTask(s).cur = s.cur
<1> DEFINE n == Creatable(s)
           made == Members(SubSeq(s.queue[FreeQ], 1, n))
           c == CreateTask(s)
           init(t) == LET i == CHOOSE i \in 1 .. n : s.queue[FreeQ][i] = t
                      IN  InitTask(s.task[t], s.pid + i - 1,
                                   s.app[i].name, s.app[i].pri)
           task == [t \in Node |-> IF t \in made THEN init(t) ELSE s.task[t]]
           app == SubSeq(s.app, n + 1, Len(s.app))
           pid == s.pid + n
           heap == s.heap + AppUnits(s, n)
<1>1. /\ n \in Nat /\ n \in 0 .. Len(s.app) /\ n \in 0 .. Len(s.queue[FreeQ])
      /\ s.queue \in Queues /\ s.queue[FreeQ] \in Seq(Node)
      /\ s.task \in [Node -> TaskRecord] /\ s.pid \in Nat /\ s.heap \in Nat
      /\ s.app \in Seq(App)
  BY CreatableBounds, StateFields, QueueIds
<1>2. made = {s.queue[FreeQ][i] : i \in 1 .. n}
  BY <1>1, PrefixMembers, Zenon
<1>3. c.queue \in Queues
  BY CreateTaskQueue, <1>1, QueueIds, MoveElements
<1>4. c = [s EXCEPT !.task = task, !.queue = c.queue, !.app = app,
                    !.pid = pid, !.heap = heap]
  BY DEF CreateTask, KernelState
<1>5. ASSUME NEW t \in Node, t \in made
      PROVE  init(t) \in TaskRecord /\ init(t).total \in 1 .. MAX_TIME_SLICE
  <2> DEFINE i == CHOOSE i \in 1 .. n : s.queue[FreeQ][i] = t
  <2>1. i \in 1 .. n
    BY <1>2, <1>5
  <2> HIDE DEF i
  <2>2. s.app[i] \in App /\ s.pid + i - 1 \in Nat /\ s.task[t] \in TaskRecord
    BY <1>1, <2>1
  <2>3. /\ InitTask(s.task[t], s.pid + i - 1, s.app[i].name, s.app[i].pri)
             \in TaskRecord
        /\ InitTask(s.task[t], s.pid + i - 1, s.app[i].name, s.app[i].pri).total
             \in 1 .. MAX_TIME_SLICE
    BY <2>2, InitTaskType
  <2>4. QED BY <2>3, Zenon DEF i
<1>6. app \in Seq(App)
  BY <1>1
<1>7. heap \in Nat /\ pid \in Nat
  BY <1>1, AppUnitsType
<1> HIDE DEF n, made, init, app, pid, heap
<1>8. task \in [Node -> TaskRecord]
  BY <1>1, <1>5
<1>9. c.task = task /\ c.cur = s.cur
  BY <1>4 DEF KernelState
<1>10. c \in KernelState
  <2> HIDE DEF task, c
  <2>1. QED BY <1>3, <1>4, <1>6, <1>7, <1>8 DEF KernelState, Queues
<1>11. \A t \in Node : IF \E i \in 1 .. n : s.queue[FreeQ][i] = t
                       THEN c.task[t].total \in 1 .. MAX_TIME_SLICE
                       ELSE c.task[t] = s.task[t]
  BY <1>2, <1>5, <1>9
<1>12. QED BY <1>9, <1>10, <1>11 DEF n


LEMMA CreateTaskBetween ==
    ASSUME NEW s, Between(s)
    PROVE  /\ Between(CreateTask(s)) /\ CreateTask(s).cur = s.cur
           /\ CreateTask(s).queue[RunningQ] = s.queue[RunningQ]
           /\ SlicesLeft(s) => SlicesLeft(CreateTask(s))
<1> DEFINE n == Creatable(s)
           c == CreateTask(s)
           free == s.queue[FreeQ]
<1>1. /\ s \in KernelState /\ FreeIsUnused(s) /\ HasSlices(s)
      /\ NoDuplicate(s.queue) /\ NothingLost(s.queue) /\ IdleFirst(s.queue)
      /\ Len(s.queue[RunningQ]) <= MAX_RUNNING_TASK
  BY DEF Between
<1>2. /\ n \in 0 .. Len(free) /\ s.queue \in Queues /\ Len(free) \in Nat
      /\ \A a \in QueueId : s.queue[a] \in Seq(Node)
      /\ FreeQ \in QueueId /\ ReadyQ \in QueueId /\ FreeQ # ReadyQ
      /\ Len(s.queue[ReadyQ]) \in Nat
  BY <1>1, CreatableBounds, StateFields, QueueIds
<1>3. c.queue = MoveFront(s.queue, FreeQ, ReadyQ, n)
  BY <1>1, CreateTaskQueue
<1>4. /\ c \in KernelState
      /\ \A t \in Node : IF \E i \in 1 .. n : free[i] = t
                         THEN c.task[t].total \in 1 .. MAX_TIME_SLICE
                         ELSE c.task[t] = s.task[t]
      /\ c.cur = s.cur
  BY <1>1, CreateTaskState
<1> HIDE DEF c, n
<1>5. IsMove(c.queue, s.queue, FreeQ, ReadyQ, n)
  BY <1>2, <1>3, MoveElements
<1>6. NoDuplicate(c.queue) /\ NothingLost(c.queue)
  BY <1>1, <1>2, <1>3, MoveNoDuplicate, MoveNothingLost
<1>7. IdleFirst(c.queue)
  BY <1>1, <1>2, <1>3, MoveIdleFirst, QueueIds
<1> HIDE DEF free
<1>8. \A a \in QueueId \ {FreeQ} : \A i \in 1 .. Len(s.queue[a]) :
         /\ s.queue[a][i] \in Node
         /\ c.task[s.queue[a][i]] = s.task[s.queue[a][i]]
  <2>1. SUFFICES ASSUME NEW a \in QueueId \ {FreeQ}, NEW i \in 1 .. Len(s.queue[a])
                 PROVE  /\ s.queue[a][i] \in Node
                        /\ c.task[s.queue[a][i]] = s.task[s.queue[a][i]]
    OBVIOUS
  <2>2. s.queue[a][i] \in Node
    BY <1>2
  <2>3. ASSUME NEW j \in 1 .. n
        PROVE  free[j] # s.queue[a][i]
    <3>1. j \in 1 .. Len(s.queue[FreeQ])
      BY <1>2 DEF free
    <3>2. QED BY <1>1, <1>2, <3>1 DEF NoDuplicate, free
  <2>4. QED BY <1>4, <2>2, <2>3
<1>9. FreeIsUnused(c)
  <2>1. SUFFICES ASSUME NEW i \in 1 .. Len(c.queue[FreeQ])
                 PROVE  /\ c.task[c.queue[FreeQ][i]].id = 0
                        /\ c.queue[c.queue[FreeQ][i]] = << >>
    BY DEF FreeIsUnused
  <2> DEFINE t == free[n + i]
  <2>2. n + i \in 1 .. Len(free) /\ c.queue[FreeQ][i] = t
    BY <1>2, <1>5 DEF IsMove, free
  <2>3. t \in Node /\ s.task[t].id = 0 /\ s.queue[t] = << >>
    BY <1>1, <1>2, <2>2 DEF FreeIsUnused, free
  <2>4. ASSUME NEW j \in 1 .. n
        PROVE  free[j] # t
    <3>1. j \in 1 .. Len(free) /\ j # n + i
      BY <1>2, <2>2
    <3>2. QED BY <1>1, <1>2, <2>2, <3>1 DEF NoDuplicate, free
  <2>5. c.task[t] = s.task[t]
    BY <1>4, <2>3, <2>4
  <2>6. c.queue[t] = s.queue[t]
    BY <1>5, <2>3, QueueIds DEF IsMove
  <2>7. QED BY <2>2, <2>3, <2>5, <2>6
<1>10. HasSlices(c)
  <2>1. SUFFICES ASSUME NEW a \in QueueId \ {FreeQ},
                        NEW i \in 1 .. Len(c.queue[a]),
                        c.queue[a][i] # IdleTask
                 PROVE  c.task[c.queue[a][i]].total \in 1 .. MAX_TIME_SLICE
    BY DEF HasSlices
  <2>2. CASE a # ReadyQ
    <3>1. c.queue[a] = s.queue[a]
      BY <1>5, <2>2 DEF IsMove
    <3>2. QED BY <1>1, <1>8, <2>1, <3>1 DEF HasSlices
  <2>3. CASE a = ReadyQ /\ i <= Len(s.queue[ReadyQ])
    <3>1. i \in 1 .. Len(s.queue[ReadyQ])
      BY <1>2, <1>5, <2>3 DEF IsMove
    <3>2. c.queue[ReadyQ][i] = s.queue[ReadyQ][i]
      BY <1>5, <2>3 DEF IsMove
    <3>3. s.task[s.queue[ReadyQ][i]].total \in 1 .. MAX_TIME_SLICE
      BY <1>1, <1>2, <2>1, <2>3, <3>1, <3>2 DEF HasSlices
    <3>4. c.task[s.queue[ReadyQ][i]] = s.task[s.queue[ReadyQ][i]]
      BY <1>2, <1>8, <3>1
    <3>5. QED BY <2>3, <3>2, <3>3, <3>4
  <2>4. CASE a = ReadyQ /\ ~(i <= Len(s.queue[ReadyQ]))
    <3>1. i \in 1 .. Len(s.queue[ReadyQ]) + n
      BY <1>5, <2>4 DEF IsMove, free
    <3>2. i - Len(s.queue[ReadyQ]) \in 1 .. n
      BY <1>2, <2>4, <3>1
    <3>3. c.queue[ReadyQ][i] = free[i - Len(s.queue[ReadyQ])]
      BY <1>5, <2>4 DEF IsMove, free
    <3>4. c.queue[ReadyQ][i] \in Node
      BY <1>2, <3>2, <3>3 DEF free
    <3>5. QED BY <1>4, <2>4, <3>2, <3>3, <3>4
  <2>5. QED BY <2>2, <2>3, <2>4
<1>11. c.queue[RunningQ] = s.queue[RunningQ]
  BY <1>5, QueueIds DEF IsMove
<1>12. ASSUME SlicesLeft(s) PROVE SlicesLeft(c)
  BY <1>8, <1>11, <1>12, QueueIds DEF SlicesLeft
<1>13. QED
  BY <1>1, <1>4, <1>6, <1>7, <1>9, <1>10, <1>11, <1>12 DEF Between, c

-----------------------------------------------------------------------------
(* Moving tasks in use *)

LEMMA MoveBetween ==
    ASSUME NEW s, Between(s), NEW from \in QueueId \ {FreeQ},
           NEW to \in QueueId \ {FreeQ}, from # to,
           NEW n \in 0 .. Len(s.queue[from]),
           from = RunningQ /\ n # 0 => s.queue[RunningQ][1] # IdleTask,
           to \in Node => s.task[to].id # 0,
           to = RunningQ => Len(s.queue[RunningQ]) + n <= MAX_RUNNING_TASK,
           NEW r \in KernelState, r.queue = MoveFront(s.queue, from, to, n),
           \A t \in Node : /\ r.task[t].id = s.task[t].id
                           /\ r.task[t].total = s.task[t].total
    PROVE  Between(r) /\ IsMove(r.queue, s.queue, from, to, n)
<1>1. /\ s \in KernelState /\ FreeIsUnused(s) /\ HasSlices(s)
      /\ NoDuplicate(s.queue) /\ NothingLost(s.queue) /\ IdleFirst(s.queue)
      /\ Len(s.queue[RunningQ]) <= MAX_RUNNING_TASK
  BY DEF Between
<1>2. /\ s.queue \in Queues /\ r.queue \in Queues
      /\ \A a \in QueueId : /\ s.queue[a] \in Seq(Node) /\ r.queue[a] \in Seq(Node)
                            /\ Len(s.queue[a]) \in Nat /\ Len(r.queue[a]) \in Nat
  BY <1>1, StateFields
<1>3. IsMove(r.queue, s.queue, from, to, n)
  BY <1>2, MoveElements
<1>4. NoDuplicate(r.queue) /\ NothingLost(r.queue)
  BY <1>1, <1>2, MoveNoDuplicate, MoveNothingLost
<1>5. IdleFirst(r.queue)
  BY <1>1, <1>2, MoveIdleFirst
<1>6. FreeIsUnused(r)
  <2>1. SUFFICES ASSUME NEW i \in 1 .. Len(r.queue[FreeQ])
                 PROVE  /\ r.task[r.queue[FreeQ][i]].id = 0
                        /\ r.queue[r.queue[FreeQ][i]] = << >>
    BY DEF FreeIsUnused
  <2> DEFINE t == s.queue[FreeQ][i]
  <2>2. r.queue[FreeQ] = s.queue[FreeQ]
    BY <1>3, QueueIds DEF IsMove
  <2>3. t \in Node /\ s.task[t].id = 0 /\ s.queue[t] = << >>
    BY <1>1, <1>2, <2>2, QueueIds DEF FreeIsUnused
  <2> HIDE DEF t
  <2>4. t # to
    BY <2>3
  <2>5. CASE t = from
    <3>1. n = 0
      BY <2>3, <2>5
    <3>2. Len(r.queue[t]) = 0
      BY <1>3, <2>3, <2>5, <3>1 DEF IsMove
    <3>3. r.queue[t] = << >>
      BY <1>2, <2>3, <3>2, QueueIds, EmptySeq
    <3>4. QED BY <2>2, <2>3, <3>3 DEF t
  <2>6. CASE t # from
    <3>1. r.queue[t] = s.queue[t]
      BY <1>3, <2>3, <2>4, <2>6, QueueIds DEF IsMove
    <3>2. QED BY <2>2, <2>3, <3>1 DEF t
  <2>7. QED BY <2>5, <2>6
<1>7. HasSlices(r)
  <2>1. SUFFICES ASSUME NEW a \in QueueId \ {FreeQ},
                        NEW i \in 1 .. Len(r.queue[a]),
                        r.queue[a][i] # IdleTask
                 PROVE  r.task[r.queue[a][i]].total \in 1 .. MAX_TIME_SLICE
    BY DEF HasSlices
  <2> DEFINE p == Source(s.queue, from, to, n, a, i)
  <2>2. /\ p[1] \in QueueId /\ p[2] \in 1 .. Len(s.queue[p[1]])
        /\ r.queue[a][i] = s.queue[p[1]][p[2]]
    BY <1>2, MoveSource
  <2>3. p[1] # FreeQ
    BY DEF Source
  <2> HIDE DEF p
  <2>4. s.queue[p[1]][p[2]] \in Node
    BY <1>2, <2>2
  <2>5. s.task[s.queue[p[1]][p[2]]].total \in 1 .. MAX_TIME_SLICE
    BY <1>1, <2>1, <2>2, <2>3 DEF HasSlices
  <2>6. QED BY <2>2, <2>4, <2>5
<1>9. Len(r.queue[RunningQ]) <= MAX_RUNNING_TASK
  <2> DEFINE l == Len(s.queue[RunningQ])
             k == Len(r.queue[RunningQ])
  <2>1. CASE RunningQ = to
    BY <1>3, <2>1 DEF IsMove
  <2>2. CASE RunningQ = from
    <3>1. l \in Nat /\ k = l - n /\ l <= MAX_RUNNING_TASK /\ n \in Nat
      BY <1>1, <1>2, <1>3, <2>2 DEF IsMove
    <3>2. MAX_RUNNING_TASK \in Nat
      BY SizeAssumption
    <3> HIDE DEF l, k
    <3>3. k <= MAX_RUNNING_TASK
      BY <3>1, <3>2
    <3>4. QED BY <3>3 DEF k
  <2>3. CASE RunningQ \notin {from, to}
    BY <1>1, <1>3, <2>3, QueueIds DEF IsMove
  <2>4. QED BY <2>1, <2>2, <2>3
<1>8. QED BY <1>3, <1>4, <1>5, <1>6, <1>7, <1>9 DEF Between

LEMMA ReadyToRunningBetween ==
    ASSUME NEW s, Between(s), SlicesLeft(s)
    PROVE  Between(ReadyToRunning(s)) /\ SlicesLeft(ReadyToRunning(s))
<1> DEFINE c == CreateTask(s)
           m == Monus(MAX_RUNNING_TASK, Len(c.queue[RunningQ]))
           n == Smaller(Len(c.queue[ReadyQ]), m)
           moved == Members(SubSeq(c.queue[ReadyQ], 1, n))
           r == ReadyToRunning(s)
           task == [t \in Node |-> IF t \in moved
                                   THEN [c.task[t] EXCEPT !.current = 0]
                                   ELSE c.task[t]]
<1>1. Between(c) /\ SlicesLeft(c)
  BY CreateTaskBetween
<1>2. c \in KernelState
  BY <1>1 DEF Between
<1> HIDE DEF c
<1>3. /\ c.queue \in Queues /\ c.task \in [Node -> TaskRecord]
      /\ \A a \in QueueId : c.queue[a] \in Seq(Node) /\ Len(c.queue[a]) \in Nat
      /\ MAX_RUNNING_TASK \in Nat
  BY <1>2, StateFields, SizeAssumption
<1>4. m \in Nat /\ Len(c.queue[RunningQ]) + m <= MAX_RUNNING_TASK
  <2>1. Len(c.queue[RunningQ]) <= MAX_RUNNING_TASK
    BY <1>1 DEF Between, c
  <2>2. Len(c.queue[RunningQ]) \in Nat
    BY <1>3, QueueIds
  <2> DEFINE l == Len(c.queue[RunningQ])
  <2> HIDE DEF l
  <2>3. l \in Nat /\ l <= MAX_RUNNING_TASK /\ MAX_RUNNING_TASK \in Nat
    BY <1>3, <2>1, <2>2 DEF l
  <2>4. Monus(MAX_RUNNING_TASK, l) \in Nat
        /\ l + Monus(MAX_RUNNING_TASK, l) <= MAX_RUNNING_TASK
    BY <2>3 DEF Monus
  <2>5. QED BY <2>4 DEF l
<1> HIDE DEF m
<1>5. n \in 0 .. Len(c.queue[ReadyQ]) /\ n <= m
  <2> DEFINE l == Len(c.queue[ReadyQ])
  <2>1. l \in Nat
    BY <1>3, QueueIds
  <2> HIDE DEF l
  <2>2. Smaller(l, m) \in Nat /\ Smaller(l, m) <= l /\ Smaller(l, m) <= m
    BY <1>4, <2>1, Bounds
  <2>3. Smaller(l, m) \in 0 .. l
    BY <2>1, <2>2
  <2>4. QED BY <2>2, <2>3 DEF l
<1>16. Len(c.queue[RunningQ]) + n <= MAX_RUNNING_TASK
  <2> DEFINE k == Len(c.queue[RunningQ])
  <2>1. k \in Nat /\ k + m <= MAX_RUNNING_TASK /\ n \in Nat /\ n <= m
    BY <1>3, <1>4, <1>5, QueueIds
  <2> HIDE DEF k, n
  <2>2. k + n <= MAX_RUNNING_TASK
    BY <1>3, <1>4, <2>1
  <2>3. QED BY <2>2 DEF k
<1> HIDE DEF n
<1>6. moved = {c.queue[ReadyQ][i] : i \in 1 .. n}
  BY <1>3, <1>5, PrefixMembers, QueueIds
<1>7. r = [c EXCEPT !.task = task,
                    !.queue = MoveFront(c.queue, ReadyQ, RunningQ, n)]
  BY <1>2 DEF ReadyToRunning, c, n, m, KernelState
<1> HIDE DEF moved, r
<1>8. \A t \in Node : /\ task[t] \in TaskRecord
                      /\ task[t].id = c.task[t].id
                      /\ task[t].total = c.task[t].total
                      /\ t \in moved => task[t].current = 0
                      /\ t \notin moved => task[t] = c.task[t]
  BY <1>3 DEF TaskRecord
<1>9. task \in [Node -> TaskRecord]
  BY <1>8
<1>10. MoveFront(c.queue, ReadyQ, RunningQ, n) \in Queues
  BY <1>3, <1>5, QueueIds, MoveElements
<1> HIDE DEF task
<1>11. /\ r \in KernelState /\ r.task = task
       /\ r.queue = MoveFront(c.queue, ReadyQ, RunningQ, n)
  <2> DEFINE q == MoveFront(c.queue, ReadyQ, RunningQ, n)
  <2> HIDE DEF q
  <2>1. q \in Queues /\ r = [c EXCEPT !.task = task, !.queue = q]
    BY <1>7, <1>10 DEF q
  <2>2. r \in KernelState /\ r.task = task /\ r.queue = q
    BY <1>2, <1>9, <2>1 DEF KernelState, Queues
  <2>3. QED BY <2>2 DEF q
<1>12. /\ ReadyQ \in QueueId \ {FreeQ} /\ RunningQ \in QueueId \ {FreeQ}
       /\ ReadyQ # RunningQ /\ RunningQ \notin Node
  BY QueueIds
<1>13. Between(r) /\ IsMove(r.queue, c.queue, ReadyQ, RunningQ, n)
  BY <1>1, <1>5, <1>8, <1>11, <1>12, <1>16, MoveBetween
<1>14. SlicesLeft(r)
  <2>1. SUFFICES ASSUME NEW i \in 1 .. Len(r.queue[RunningQ]),
                        r.queue[RunningQ][i] # IdleTask
                 PROVE  r.task[r.queue[RunningQ][i]].current
                          < r.task[r.queue[RunningQ][i]].total
    BY DEF SlicesLeft
  <2> DEFINE t == r.queue[RunningQ][i]
  <2>2. t \in Node
    BY <1>11, <1>12, StateFields
  <2>3. task[t].total \in 1 .. MAX_TIME_SLICE
    BY <1>11, <1>12, <1>13, <2>1 DEF Between, HasSlices
  <2>4. MAX_TIME_SLICE \in Nat
    BY SliceAssumption
  <2>5. CASE t \in moved
    BY <1>8, <1>11, <2>2, <2>3, <2>4, <2>5
  <2>6. CASE t \notin moved
    <3>1. i <= Len(c.queue[RunningQ])
      <4>1. SUFFICES ASSUME ~(i <= Len(c.queue[RunningQ]))
                     PROVE  FALSE
        OBVIOUS
      <4>2. i \in 1 .. Len(c.queue[RunningQ]) + n
        BY <1>13 DEF IsMove
      <4>3. i - Len(c.queue[RunningQ]) \in 1 .. n
        BY <1>3, <1>5, <1>12, <4>1, <4>2
      <4>4. t = c.queue[ReadyQ][i - Len(c.queue[RunningQ])]
        BY <1>13, <4>1 DEF IsMove
      <4>5. QED BY <1>6, <2>6, <4>3, <4>4
    <3>2. i \in 1 .. Len(c.queue[RunningQ]) /\ t = c.queue[RunningQ][i]
      BY <1>3, <1>12, <1>13, <3>1 DEF IsMove
    <3>3. c.task[t].current < c.task[t].total
      BY <1>1, <2>1, <3>2 DEF SlicesLeft
    <3>4. QED BY <1>8, <1>11, <2>2, <2>6, <3>3
  <2>7. QED BY <2>5, <2>6
<1>15. QED BY <1>13, <1>14 DEF r

\* v holds the same tasks as running, but for the idle task, which is first.
Reorders(v, running) ==
    /\ \A i, j \in 1 .. Len(v) : v[i] = v[j] => i = j
    /\ \A i \in 1 .. Len(v) :
          v[i] = IdleTask \/ \E k \in 1 .. Len(running) : running[k] = v[i]
    /\ \A k \in 1 .. Len(running) :
          running[k] = IdleTask \/ \E i \in 1 .. Len(v) : v[i] = running[k]
    /\ \A i \in 1 .. Len(v) : v[i] = IdleTask => i = 1

LEMMA ReplaceRunning ==
    ASSUME NEW s, Between(s), NEW v \in Seq(Node),
           Reorders(v, s.queue[RunningQ]), Len(v) <= MAX_RUNNING_TASK
    PROVE  LET r == [s EXCEPT !.queue[RunningQ] = v]
           IN  /\ Between(r)
               /\ r.queue[RunningQ] = v /\ r.task = s.task /\ r.cur = s.cur
               /\ \A a \in QueueId \ {RunningQ} : r.queue[a] = s.queue[a]
<1> DEFINE r == [s EXCEPT !.queue[RunningQ] = v]
           running == s.queue[RunningQ]
<1>1. /\ s \in KernelState /\ FreeIsUnused(s) /\ HasSlices(s)
      /\ NoDuplicate(s.queue) /\ NothingLost(s.queue) /\ IdleFirst(s.queue)
  BY DEF Between
<1>2. /\ s.queue \in Queues
      /\ \A a \in QueueId : s.queue[a] \in Seq(Node) /\ Len(s.queue[a]) \in Nat
      /\ RunningQ \in QueueId
  BY <1>1, StateFields, QueueIds
<1>3. /\ r.queue = [s.queue EXCEPT ![RunningQ] = v]
      /\ r.task = s.task /\ r.cur = s.cur
  BY <1>1 DEF KernelState
<1>4. r.queue[RunningQ] = v /\ \A a \in QueueId \ {RunningQ} : r.queue[a] = s.queue[a]
  BY <1>2, <1>3 DEF Queues
<1>5. r \in KernelState
  BY <1>1 DEF KernelState
<1>12. /\ \A i, j \in 1 .. Len(v) : v[i] = v[j] => i = j
       /\ \A i \in 1 .. Len(v) :
             v[i] = IdleTask \/ \E k \in 1 .. Len(running) : running[k] = v[i]
       /\ \A k \in 1 .. Len(running) :
             running[k] = IdleTask \/ \E i \in 1 .. Len(v) : v[i] = running[k]
       /\ \A i \in 1 .. Len(v) : v[i] = IdleTask => i = 1
  BY DEF Reorders
<1> HIDE DEF r
<1>6. NoDuplicate(r.queue)
  <2>1. SUFFICES ASSUME NEW a \in QueueId, NEW b \in QueueId,
                        NEW i \in 1 .. Len(r.queue[a]),
                        NEW j \in 1 .. Len(r.queue[b]),
                        r.queue[a][i] = r.queue[b][j]
                 PROVE  a = b /\ i = j
    BY DEF NoDuplicate
  <2>2. CASE a = RunningQ /\ b = RunningQ
    BY <1>4, <1>12, <2>1, <2>2
  <2>3. CASE a = RunningQ /\ b # RunningQ
    <3>1. /\ i \in 1 .. Len(v) /\ v[i] = s.queue[b][j]
          /\ j \in 1 .. Len(s.queue[b])
      BY <1>4, <2>1, <2>3
    <3>2. v[i] # IdleTask
      BY <1>1, <2>3, <3>1 DEF IdleFirst
    <3>3. PICK k \in 1 .. Len(running) : running[k] = v[i]
      BY <1>12, <3>1, <3>2
    <3>4. QED BY <1>1, <1>2, <2>3, <3>1, <3>3 DEF NoDuplicate
  <2>4. CASE a # RunningQ /\ b = RunningQ
    <3>1. /\ j \in 1 .. Len(v) /\ v[j] = s.queue[a][i]
          /\ i \in 1 .. Len(s.queue[a])
      BY <1>4, <2>1, <2>4
    <3>2. v[j] # IdleTask
      BY <1>1, <2>4, <3>1 DEF IdleFirst
    <3>3. PICK k \in 1 .. Len(running) : running[k] = v[j]
      BY <1>12, <3>1, <3>2
    <3>4. QED BY <1>1, <1>2, <2>4, <3>1, <3>3 DEF NoDuplicate
  <2>5. CASE a # RunningQ /\ b # RunningQ
    <3>1. r.queue[a] = s.queue[a] /\ r.queue[b] = s.queue[b]
      BY <1>4, <2>5
    <3>2. /\ i \in 1 .. Len(s.queue[a]) /\ j \in 1 .. Len(s.queue[b])
          /\ s.queue[a][i] = s.queue[b][j]
      BY <2>1, <3>1
    <3>3. QED BY <1>1, <3>2 DEF NoDuplicate
  <2>6. QED BY <2>2, <2>3, <2>4, <2>5
<1>7. NothingLost(r.queue)
  <2>1. SUFFICES ASSUME NEW t \in TaskNode
                 PROVE  \E a \in QueueId : \E i \in 1 .. Len(r.queue[a]) :
                           r.queue[a][i] = t
    BY DEF NothingLost
  <2>2. PICK a \in QueueId : \E i \in 1 .. Len(s.queue[a]) : s.queue[a][i] = t
    BY <1>1 DEF NothingLost
  <2>3. t # IdleTask
    BY SizeAssumption DEF TaskNode, IdleTask
  <2>4. CASE a = RunningQ
    BY <1>2, <1>4, <1>12, <2>2, <2>3, <2>4
  <2>5. CASE a # RunningQ
    BY <1>4, <2>2, <2>5
  <2>6. QED BY <2>4, <2>5
<1>8. IdleFirst(r.queue)
  BY <1>1, <1>4, <1>12 DEF IdleFirst
<1>9. FreeIsUnused(r)
  <2>1. r.queue[FreeQ] = s.queue[FreeQ] /\ \A t \in Node : r.queue[t] = s.queue[t]
    BY <1>4, QueueIds
  <2>2. \A i \in 1 .. Len(s.queue[FreeQ]) : s.queue[FreeQ][i] \in Node
    BY <1>2, QueueIds
  <2>3. QED BY <1>1, <1>3, <2>1, <2>2 DEF FreeIsUnused
<1>10. HasSlices(r)
  <2>1. SUFFICES ASSUME NEW a \in QueueId \ {FreeQ},
                        NEW i \in 1 .. Len(r.queue[a]),
                        r.queue[a][i] # IdleTask
                 PROVE  s.task[r.queue[a][i]].total \in 1 .. MAX_TIME_SLICE
    BY <1>3 DEF HasSlices
  <2>2. CASE a = RunningQ
    <3>1. PICK k \in 1 .. Len(running) : running[k] = r.queue[a][i]
      BY <1>4, <1>12, <2>1, <2>2
    <3>2. RunningQ \in QueueId \ {FreeQ} /\ running[k] # IdleTask
      BY <2>1, <3>1, QueueIds
    <3>3. s.task[running[k]].total \in 1 .. MAX_TIME_SLICE
      BY <1>1, <3>2 DEF HasSlices
    <3>4. QED BY <3>1, <3>3
  <2>3. CASE a # RunningQ
    BY <1>1, <1>4, <2>1, <2>3 DEF HasSlices
  <2>4. QED BY <2>2, <2>3
<1>11. QED BY <1>3, <1>4, <1>5, <1>6, <1>7, <1>8, <1>9, <1>10 DEF Between, r


LEMMA CheckRunningTaskBetween ==
    ASSUME NEW s, Between(s), SlicesLeft(s)
    PROVE  LET r == CheckRunningTask(s)
           IN  /\ Between(r) /\ SlicesLeft(r) /\ IdleAlone(r.queue)
               /\ r.queue[RunningQ] # << >>
<1> DEFINE r == CheckRunningTask(s)
           running == s.queue[RunningQ]
<1>1. s \in KernelState /\ IdleFirst(s.queue) /\ NoDuplicate(s.queue)
  BY DEF Between
<1>9. Len(running) <= MAX_RUNNING_TASK /\ MAX_RUNNING_TASK \in Nat
      /\ 1 <= MAX_RUNNING_TASK
  BY SizeAssumption DEF Between
<1>2. running \in Seq(Node) /\ Len(running) \in Nat /\ RunningQ \in QueueId
  BY <1>1, StateFields, QueueIds
<1>3. \A i, j \in 1 .. Len(running) : running[i] = running[j] => i = j
  BY <1>1, <1>2 DEF NoDuplicate
<1>4. \A i \in 1 .. Len(running) : running[i] = IdleTask => i = 1
  BY <1>1, <1>2 DEF IdleFirst
<1>5. CASE running = << >>
  <2> DEFINE v == << IdleTask >>
  <2>1. v \in Seq(Node) /\ Len(v) = 1 /\ v[1] = IdleTask /\ Len(running) = 0
    BY <1>5 DEF Node
  <2>2. r = [s EXCEPT !.queue[RunningQ] = v]
    BY <1>5 DEF CheckRunningTask
  <2> HIDE DEF v
  <2>3. /\ Between(r) /\ r.queue[RunningQ] = v
        /\ \A a \in QueueId \ {RunningQ} : r.queue[a] = s.queue[a]
    <3>1. \A i, j \in 1 .. Len(v) : v[i] = v[j] => i = j
      BY <2>1
    <3>2. \A i \in 1 .. Len(v) : v[i] = IdleTask /\ i = 1
      BY <2>1
    <3>3. 1 .. Len(running) = {}
      BY <2>1
    <3>4. Reorders(v, running)
      BY <3>1, <3>2, <3>3 DEF Reorders
    <3>5. Len(v) <= MAX_RUNNING_TASK
      BY <1>9, <2>1
    <3>6. v \in Seq(Node)
      BY <2>1
    <3> HIDE DEF r, running
    <3>7. Reorders(v, s.queue[RunningQ])
      BY <3>4 DEF running
    <3>8. QED BY <2>2, <3>5, <3>6, <3>7, ReplaceRunning
  <2> HIDE DEF r
  <2>4. SlicesLeft(r)
    <3>1. \A i \in 1 .. Len(v) : v[i] = IdleTask
      BY <2>1
    <3>2. QED BY <2>3, <3>1 DEF SlicesLeft
  <2>5. IdleAlone(r.queue)
    BY <1>1, <2>1, <2>3 DEF IdleAlone, IdleFirst
  <2>6. QED BY <2>1, <2>3, <2>4, <2>5 DEF r
<1>6. CASE Len(running) > 1 /\ Head(running) = IdleTask
  <2> DEFINE v == Tail(running)
  <2>1. /\ v \in Seq(Node) /\ Len(v) = Len(running) - 1
        /\ \A i \in 1 .. Len(v) : v[i] = running[i + 1]
        /\ running # << >> /\ running[1] = IdleTask
    BY <1>2, <1>6
  <2>2. r = [s EXCEPT !.queue[RunningQ] = v]
    BY <1>6, <2>1 DEF CheckRunningTask
  <2> HIDE DEF v
  <2>3. \A i \in 1 .. Len(v) : i + 1 \in 1 .. Len(running) /\ v[i] # IdleTask
    BY <1>2, <1>4, <2>1
  <2>4. \A k \in 1 .. Len(running) :
           running[k] = IdleTask \/ (k - 1 \in 1 .. Len(v) /\ v[k - 1] = running[k])
    BY <1>2, <2>1
  <2>5. /\ Between(r) /\ r.queue[RunningQ] = v /\ r.task = s.task
        /\ \A a \in QueueId \ {RunningQ} : r.queue[a] = s.queue[a]
    <3>1. \A i, j \in 1 .. Len(v) : v[i] = v[j] => i = j
      BY <1>2, <1>3, <2>1, <2>3
    <3>2. \A i \in 1 .. Len(v) :
             v[i] = IdleTask \/ \E k \in 1 .. Len(running) : running[k] = v[i]
      BY <2>1, <2>3
    <3>5. \A i \in 1 .. Len(v) : v[i] = IdleTask => i = 1
      BY <2>3
    <3>3. \A k \in 1 .. Len(running) :
             running[k] = IdleTask \/ \E i \in 1 .. Len(v) : v[i] = running[k]
      BY <2>4
    <3>4. Reorders(v, running)
      BY <3>1, <3>2, <3>3, <3>5 DEF Reorders
    <3>7. Len(v) <= MAX_RUNNING_TASK
      BY <1>2, <1>9, <2>1
    <3>6. QED BY <2>1, <2>2, <3>4, <3>7, ReplaceRunning
  <2> HIDE DEF r
  <2>6. SlicesLeft(r)
    BY <2>1, <2>3, <2>5 DEF SlicesLeft
  <2>7. IdleAlone(r.queue)
    BY <1>1, <2>3, <2>5 DEF IdleAlone, IdleFirst
  <2>8. v # << >>
    BY <1>2, <1>6, <2>1
  <2>9. QED BY <2>5, <2>6, <2>7, <2>8 DEF r
<1>7. CASE running # << >> /\ ~(Len(running) > 1 /\ Head(running) = IdleTask)
  <2>1. r = s
    BY <1>7 DEF CheckRunningTask
  <2>2. IdleAlone(s.queue)
    <3>1. SUFFICES ASSUME NEW a \in QueueId, NEW i \in 1 .. Len(s.queue[a]),
                          s.queue[a][i] = IdleTask
                   PROVE  a = RunningQ /\ Len(s.queue[a]) = 1
      BY DEF IdleAlone
    <3>2. a = RunningQ /\ i = 1
      BY <1>1, <3>1 DEF IdleFirst
    <3>3. Head(running) = IdleTask /\ Len(running) >= 1
      <4>1. running # << >> => Head(running) = running[1]
        OBVIOUS
      <4>2. QED BY <1>2, <1>7, <3>1, <3>2, <4>1
    <3>4. Len(running) = 1
      <4> DEFINE l == Len(running)
      <4>1. l \in Nat /\ l >= 1 /\ ~(l > 1)
        BY <1>2, <1>7, <3>3
      <4> HIDE DEF l
      <4>2. l = 1
        BY <4>1
      <4>3. QED BY <4>2 DEF l
    <3>5. QED BY <3>2, <3>4
  <2>3. QED BY <1>7, <2>1, <2>2
<1>8. QED BY <1>5, <1>6, <1>7

-----------------------------------------------------------------------------
(* Scheduling *)

LEMMA RotateReorders ==
    ASSUME NEW q \in Seq(Node), q # << >>,
           \A i, j \in 1 .. Len(q) : q[i] = q[j] => i = j,
           \A i \in 1 .. Len(q) : q[i] = IdleTask => Len(q) = 1
    PROVE  LET v == Queue_Rotate(q)
           IN  /\ v \in Seq(Node) /\ Len(v) = Len(q) /\ Reorders(v, q)
               /\ \A i \in 1 .. Len(v) : \E k \in 1 .. Len(q) : v[i] = q[k]
<1> DEFINE v == Queue_Rotate(q)
           l == Len(q)
<1>1. l \in Nat /\ l >= 1
  BY EmptySeq
<1>2. /\ Tail(q) \in Seq(Node) /\ Len(Tail(q)) = l - 1
      /\ \A i \in 1 .. Len(Tail(q)) : Tail(q)[i] = q[i + 1]
      /\ Head(q) = q[1] /\ Head(q) \in Node
  BY HeadTailProperties
<1>3. /\ v \in Seq(Node) /\ Len(v) = l
      /\ \A i \in 1 .. l - 1 : v[i] = q[i + 1]
      /\ v[l] = q[1]
  <2> DEFINE t == Tail(q)
             h == Head(q)
  <2> HIDE DEF t, h
  <2>1. /\ Append(t, h) \in Seq(Node) /\ Len(Append(t, h)) = Len(t) + 1
        /\ \A i \in 1 .. Len(t) : Append(t, h)[i] = t[i]
        /\ Append(t, h)[Len(t) + 1] = h
    BY <1>2, AppendProperties DEF t, h
  <2>2. v = Append(t, h)
    BY DEF Queue_Rotate, t, h
  <2> HIDE DEF v, l
  <2>3. Len(t) = l - 1 /\ h = q[1] /\ \A i \in 1 .. Len(t) : t[i] = q[i + 1]
    BY <1>2 DEF t, h
  <2>4. QED BY <1>1, <2>1, <2>2, <2>3
<1> HIDE DEF v
<1>4. \A i \in 1 .. l : v[i] = IF i = l THEN q[1] ELSE q[i + 1]
  BY <1>1, <1>3
<1> HIDE DEF l
<1>5. \A i, j \in 1 .. l : q[i] = q[j] => i = j
  BY DEF l
<1>6. \A i, j \in 1 .. l : v[i] = v[j] => i = j
  <2>1. SUFFICES ASSUME NEW i \in 1 .. l, NEW j \in 1 .. l, v[i] = v[j]
                 PROVE  i = j
    OBVIOUS
  <2> DEFINE p(k) == IF k = l THEN 1 ELSE k + 1
  <2>2. p(i) \in 1 .. l /\ p(j) \in 1 .. l /\ v[i] = q[p(i)] /\ v[j] = q[p(j)]
    BY <1>1, <1>4
  <2>3. p(i) = p(j)
    BY <1>5, <2>1, <2>2
  <2>4. QED BY <1>1, <2>3
<1>7. \A i \in 1 .. l : \E k \in 1 .. l : v[i] = q[k]
  <2>1. SUFFICES ASSUME NEW i \in 1 .. l
                 PROVE  \E k \in 1 .. l : v[i] = q[k]
    OBVIOUS
  <2>2. (IF i = l THEN 1 ELSE i + 1) \in 1 .. l
    BY <1>1
  <2>3. QED BY <1>4, <2>2
<1>8. \A k \in 1 .. l : \E i \in 1 .. l : v[i] = q[k]
  <2>1. SUFFICES ASSUME NEW k \in 1 .. l
                 PROVE  \E i \in 1 .. l : v[i] = q[k]
    OBVIOUS
  <2> DEFINE i == IF k = 1 THEN l ELSE k - 1
  <2>2. i \in 1 .. l /\ v[i] = q[k]
    BY <1>1, <1>4
  <2>3. QED BY <2>2
<1>9. \A i \in 1 .. l : v[i] = IdleTask => i = 1
  <2>1. \A k \in 1 .. l : q[k] = IdleTask => l = 1
    BY DEF l
  <2>2. SUFFICES ASSUME NEW i \in 1 .. l, v[i] = IdleTask
                 PROVE  i = 1
    OBVIOUS
  <2>3. PICK k \in 1 .. l : v[i] = q[k]
    BY <1>7
  <2>4. l = 1
    BY <2>1, <2>2, <2>3
  <2>5. QED BY <2>4
<1>10. Reorders(v, q)
  <2>1. Len(v) = l /\ Len(q) = l
    BY <1>3 DEF l
  <2>2. \A i \in 1 .. l : v[i] = IdleTask \/ \E k \in 1 .. l : q[k] = v[i]
    BY <1>7
  <2>3. \A k \in 1 .. l : q[k] = IdleTask \/ \E i \in 1 .. l : v[i] = q[k]
    BY <1>8
  <2>4. QED BY <1>6, <1>9, <2>1, <2>2, <2>3 DEF Reorders
<1>11. QED BY <1>3, <1>7, <1>10 DEF v, l

LEMMA SetTaskType ==
    ASSUME NEW s \in KernelState, NEW t \in Node, NEW r \in TaskRecord
    PROVE  /\ SetTask(s, t, r) \in [Node -> TaskRecord]
           /\ SetTask(s, t, r)[t] = r
           /\ \A u \in Node \ {t} : SetTask(s, t, r)[u] = s.task[u]
<1>1. s.task \in [Node -> TaskRecord]
  BY StateFields
<1>2. QED BY <1>1 DEF SetTask

\* Changes of TCBs that keep their ids and totals keep Between.
LEMMA SameQueues ==
    ASSUME NEW s, Between(s), NEW r \in KernelState, r.queue = s.queue,
           \A t \in Node : /\ r.task[t].id = s.task[t].id
                           /\ r.task[t].total = s.task[t].total
    PROVE  Between(r)
<1>1. /\ s \in KernelState /\ FreeIsUnused(s) /\ HasSlices(s)
      /\ NoDuplicate(s.queue) /\ NothingLost(s.queue) /\ IdleFirst(s.queue)
      /\ Len(s.queue[RunningQ]) <= MAX_RUNNING_TASK
  BY DEF Between
<1>2. \A a \in QueueId : \A i \in 1 .. Len(s.queue[a]) : s.queue[a][i] \in Node
  BY <1>1, StateFields
<1>3. FreeIsUnused(r)
  BY <1>1, <1>2, QueueIds DEF FreeIsUnused
<1>4. HasSlices(r)
  BY <1>1, <1>2 DEF HasSlices
<1>5. QED BY <1>1, <1>3, <1>4 DEF Between

LEMMA DispatchSettled ==
    ASSUME NEW s, Between(s), IdleAlone(s.queue), SlicesLeft(s),
           s.queue[RunningQ] # << >>
    PROVE  Settled(Dispatch(s))
<1> DEFINE running == s.queue[RunningQ]
           t == Head(running)
           new == [s.task[t] EXCEPT !.current = (@ + 1) % USHORT]
           r == Dispatch(s)
<1>1. s \in KernelState /\ HasSlices(s) /\ NoDuplicate(s.queue)
  BY DEF Between
<1>2. /\ running \in Seq(Node) /\ Len(running) \in Nat /\ RunningQ \in QueueId
      /\ s.task \in [Node -> TaskRecord]
  BY <1>1, StateFields, QueueIds
<1>3. t = running[1] /\ t \in Node /\ 1 \in 1 .. Len(running)
  BY <1>2, EmptySeq
<1> HIDE DEF t
<1>4. /\ new \in TaskRecord /\ new.id = s.task[t].id /\ new.total = s.task[t].total
      /\ new.current = (s.task[t].current + 1) % USHORT
  <2>1. s.task[t] \in TaskRecord /\ s.task[t].current \in Nat
    BY <1>2, <1>3 DEF TaskRecord
  <2>2. USHORT \in Nat /\ USHORT > 0
    BY SliceAssumption
  <2>3. (s.task[t].current + 1) % USHORT \in Nat
    BY <2>1, <2>2
  <2>4. QED BY <2>1, <2>3 DEF TaskRecord
<1>5. /\ r.task = SetTask(s, t, new) /\ r.cur = t /\ r.queue = s.queue
      /\ r = [s EXCEPT !.cur = t, !.task = SetTask(s, t, new)]
  BY <1>1 DEF Dispatch, KernelState, t
<1> HIDE DEF new, r
<1>6. /\ r.task \in [Node -> TaskRecord] /\ r.task[t] = new
      /\ \A u \in Node \ {t} : r.task[u] = s.task[u]
  <2>1. new \in TaskRecord /\ r.task = SetTask(s, t, new)
    BY <1>4, <1>5
  <2>2. QED BY <1>1, <1>3, <2>1, SetTaskType
<1>7. r \in KernelState
  BY <1>1, <1>3, <1>5, <1>6 DEF KernelState
<1>8. Between(r)
  <2>1. \A u \in Node : r.task[u].id = s.task[u].id /\ r.task[u].total = s.task[u].total
    BY <1>4, <1>6
  <2>2. QED BY <1>5, <1>7, <2>1, SameQueues
<1>9. ASSUME NEW i \in 1 .. Len(running), running[i] # IdleTask
      PROVE  IF i = 1
             THEN /\ 1 <= r.task[running[i]].current
                  /\ r.task[running[i]].current <= r.task[running[i]].total
             ELSE r.task[running[i]].current < r.task[running[i]].total
  <2>1. /\ running[i] \in Node
        /\ s.task[running[i]].current < s.task[running[i]].total
        /\ s.task[running[i]].total \in 1 .. MAX_TIME_SLICE
        /\ s.task[running[i]].current \in Nat
    <3>1. running[i] \in Node
      BY <1>2
    <3>2. s.task[running[i]].current < s.task[running[i]].total
      BY <1>9 DEF SlicesLeft
    <3>3. s.task[running[i]].total \in 1 .. MAX_TIME_SLICE
      BY <1>1, <1>2, <1>9, QueueIds DEF HasSlices
    <3>4. s.task[running[i]].current \in Nat
      BY <1>2, <3>1 DEF TaskRecord
    <3>5. QED BY <3>1, <3>2, <3>3, <3>4
  <2>2. CASE i = 1
    <3> DEFINE old == s.task[t]
    <3>5. running[i] = t
      BY <1>3, <2>2
    <3>6. /\ old.current \in Nat /\ old.current < old.total
          /\ old.total \in 1 .. MAX_TIME_SLICE
      BY <2>1, <3>5
    <3> HIDE DEF old
    <3>1. old.current + 1 \in 1 .. MAX_TIME_SLICE /\ old.current + 1 <= old.total
      <4>1. MAX_TIME_SLICE \in Nat
        BY SliceAssumption
      <4>2. QED BY <3>6, <4>1
    <3>2. MAX_TIME_SLICE < USHORT /\ MAX_TIME_SLICE \in Nat /\ USHORT \in Nat
      BY SliceAssumption
    <3>3. (old.current + 1) % USHORT = old.current + 1
      BY <3>1, <3>2
    <3>7. r.task[t].current = old.current + 1 /\ r.task[t].total = old.total
      BY <1>4, <1>6, <3>3 DEF old
    <3>4. QED BY <2>2, <3>1, <3>5, <3>7
  <2>3. CASE i # 1
    <3>1. running[i] # t
      BY <1>1, <1>2, <1>3, <2>3 DEF NoDuplicate
    <3>2. QED BY <1>6, <2>1, <2>3, <3>1
  <2>4. QED BY <2>2, <2>3
<1>10. QED
  BY <1>3, <1>5, <1>8, <1>9 DEF Settled, r

LEMMA ScheduleNextSettled ==
    ASSUME NEW s, Between(s), SlicesLeft(s)
    PROVE  Settled(ScheduleNext(s))
<1> DEFINE c == CheckRunningTask(ReadyToRunning(s))
           q == c.queue[RunningQ]
           v == Queue_Rotate(q)
           r == [c EXCEPT !.queue[RunningQ] = v]
<1>1. /\ Between(c) /\ SlicesLeft(c) /\ IdleAlone(c.queue) /\ q # << >>
  BY ReadyToRunningBetween, CheckRunningTaskBetween
<1>2. /\ c \in KernelState /\ NoDuplicate(c.queue)
      /\ Len(q) <= MAX_RUNNING_TASK
  BY <1>1 DEF Between
<1>3. ScheduleNext(s) = Dispatch(r)
  BY DEF ScheduleNext
<1> HIDE DEF c
<1>4. q \in Seq(Node) /\ RunningQ \in QueueId
  BY <1>2, StateFields, QueueIds
<1>5. /\ \A i, j \in 1 .. Len(q) : q[i] = q[j] => i = j
      /\ \A i \in 1 .. Len(q) : q[i] = IdleTask => Len(q) = 1
  BY <1>1, <1>2, <1>4 DEF NoDuplicate, IdleAlone
<1>6. /\ v \in Seq(Node) /\ Len(v) = Len(q) /\ Reorders(v, q)
      /\ \A i \in 1 .. Len(v) : \E k \in 1 .. Len(q) : v[i] = q[k]
  BY <1>1, <1>4, <1>5, RotateReorders
<1> HIDE DEF v
<1>7. /\ Between(r) /\ r.queue[RunningQ] = v /\ r.task = c.task
      /\ \A a \in QueueId \ {RunningQ} : r.queue[a] = c.queue[a]
  BY <1>1, <1>2, <1>6, ReplaceRunning
<1> HIDE DEF r
<1>8. SlicesLeft(r)
  BY <1>1, <1>6, <1>7 DEF SlicesLeft
<1>9. IdleAlone(r.queue)
  <2>1. SUFFICES ASSUME NEW a \in QueueId, NEW i \in 1 .. Len(r.queue[a]),
                        r.queue[a][i] = IdleTask
                 PROVE  a = RunningQ /\ Len(r.queue[a]) = 1
    BY DEF IdleAlone
  <2>2. CASE a = RunningQ
    BY <1>5, <1>6, <1>7, <2>1, <2>2
  <2>3. CASE a # RunningQ
    BY <1>1, <1>7, <2>1, <2>3 DEF IdleAlone
  <2>4. QED BY <2>2, <2>3
<1>10. r.queue[RunningQ] # << >>
  BY <1>1, <1>4, <1>6, <1>7, EmptySeq
<1>11. QED BY <1>3, <1>7, <1>8, <1>9, <1>10, DispatchSettled

LEMMA HeldSlices ==
    ASSUME NEW s
    PROVE  /\ Settled(s) => SlicesHeld(s)
           /\ Between(s) /\ SlicesLeft(s) => SlicesHeld(s)
<1>1. Settled(s) => SlicesHeld(s)
  <2>1. SUFFICES ASSUME Settled(s), NEW i \in 1 .. Len(s.queue[RunningQ]),
                        s.queue[RunningQ][i] # IdleTask
                 PROVE  LET t == s.task[s.queue[RunningQ][i]]
                        IN  t.current <= t.total /\ (i # 1 => t.current < t.total)
    BY DEF SlicesHeld
  <2> DEFINE t == s.task[s.queue[RunningQ][i]]
  <2>2. s \in KernelState
    BY <2>1 DEF Settled, Between
  <2>3. t \in TaskRecord
    BY <2>2, StateFields, QueueIds
  <2>4. IF i = 1 THEN 1 <= t.current /\ t.current <= t.total
                 ELSE t.current < t.total
    BY <2>1 DEF Settled
  <2> HIDE DEF t
  <2>5. t.current \in Nat /\ t.total \in Nat
    BY <2>3 DEF TaskRecord
  <2>6. t.current <= t.total /\ (i # 1 => t.current < t.total)
    BY <2>4, <2>5
  <2>7. QED BY <2>6 DEF t
<1>2. Between(s) /\ SlicesLeft(s) => SlicesHeld(s)
  <2>1. SUFFICES ASSUME Between(s), SlicesLeft(s),
                        NEW i \in 1 .. Len(s.queue[RunningQ]),
                        s.queue[RunningQ][i] # IdleTask
                 PROVE  LET t == s.task[s.queue[RunningQ][i]]
                        IN  t.current <= t.total /\ (i # 1 => t.current < t.total)
    BY DEF SlicesHeld
  <2> DEFINE t == s.task[s.queue[RunningQ][i]]
  <2>2. s \in KernelState
    BY <2>1 DEF Between
  <2>3. t \in TaskRecord
    BY <2>2, StateFields, QueueIds
  <2>4. t.current < t.total
    BY <2>1 DEF SlicesLeft
  <2> HIDE DEF t
  <2>5. t.current \in Nat /\ t.total \in Nat
    BY <2>3 DEF TaskRecord
  <2>6. t.current <= t.total
    BY <2>4, <2>5
  <2>7. QED BY <2>4, <2>6 DEF t
<1>3. QED BY <1>1, <1>2

\* The front of the running queue leaves for another queue.
LEMMA FrontLeaves ==
    ASSUME NEW s, Between(s), SlicesHeld(s), s.queue[RunningQ] # << >>,
           s.queue[RunningQ][1] # IdleTask,
           NEW r \in KernelState, NEW to \in QueueId \ {RunningQ},
           IsMove(r.queue, s.queue, RunningQ, to, 1),
           \A i \in 2 .. Len(s.queue[RunningQ]) :
              r.task[s.queue[RunningQ][i]] = s.task[s.queue[RunningQ][i]]
    PROVE  SlicesLeft(r)
<1> DEFINE q == s.queue[RunningQ]
<1>1. SUFFICES ASSUME NEW i \in 1 .. Len(r.queue[RunningQ]),
                      r.queue[RunningQ][i] # IdleTask
               PROVE  r.task[r.queue[RunningQ][i]].current
                        < r.task[r.queue[RunningQ][i]].total
  BY DEF SlicesLeft
<1>2. s \in KernelState /\ q \in Seq(Node) /\ Len(q) \in Nat
  BY StateFields, QueueIds DEF Between
<1>3. Len(r.queue[RunningQ]) = Len(q) - 1 /\ r.queue[RunningQ][i] = q[1 + i]
  BY DEF IsMove
<1>4. 1 + i \in 2 .. Len(q) /\ 1 + i \in 1 .. Len(q) /\ 1 + i # 1
  BY <1>2, <1>3
<1>5. s.task[q[1 + i]].current < s.task[q[1 + i]].total
  BY <1>1, <1>3, <1>4 DEF SlicesHeld
<1>6. QED BY <1>3, <1>4, <1>5

LEMMA FrontFacts ==
    ASSUME NEW s, Between(s), s.queue[RunningQ] # << >>
    PROVE  /\ Head(s.queue[RunningQ]) = s.queue[RunningQ][1]
           /\ s.queue[RunningQ][1] \in Node
           /\ Len(s.queue[RunningQ]) \in Nat
           /\ 1 \in 0 .. Len(s.queue[RunningQ])
           /\ 1 \in 1 .. Len(s.queue[RunningQ])
           /\ \A i \in 2 .. Len(s.queue[RunningQ]) :
                 /\ s.queue[RunningQ][i] \in Node
                 /\ s.queue[RunningQ][i] # s.queue[RunningQ][1]
<1> DEFINE q == s.queue[RunningQ]
<1>1. s \in KernelState /\ NoDuplicate(s.queue)
  BY DEF Between
<1>2. q \in Seq(Node) /\ Len(q) \in Nat /\ RunningQ \in QueueId
  BY <1>1, StateFields, QueueIds
<1>3. Len(q) >= 1
  BY <1>2, EmptySeq
<1>4. \A i \in 2 .. Len(q) : q[i] \in Node /\ q[i] # q[1]
  <2>1. SUFFICES ASSUME NEW i \in 2 .. Len(q)
                 PROVE  q[i] \in Node /\ q[i] # q[1]
    OBVIOUS
  <2>2. i \in 1 .. Len(q) /\ 1 \in 1 .. Len(q) /\ i # 1
    BY <1>2, <1>3
  <2>3. QED BY <1>1, <1>2, <2>2 DEF NoDuplicate
<1>5. QED BY <1>2, <1>3, <1>4

LEMMA RunningToReadyBetween ==
    ASSUME NEW s, Between(s), SlicesHeld(s)
    PROVE  Between(RunningToReady(s)) /\ SlicesLeft(RunningToReady(s))
<1> DEFINE q == s.queue[RunningQ]
           r == RunningToReady(s)
<1>1. s \in KernelState
  BY DEF Between
<1>2. /\ s.queue \in Queues /\ s.task \in [Node -> TaskRecord]
      /\ RunningQ \in QueueId \ {FreeQ} /\ ReadyQ \in QueueId \ {FreeQ, RunningQ}
      /\ ReadyQ \notin Node
  BY <1>1, StateFields, QueueIds
<1>3. CASE /\ q # << >> /\ q[1] # IdleTask
           /\ s.task[q[1]].current = s.task[q[1]].total
  <2> DEFINE m == MoveFront(s.queue, RunningQ, ReadyQ, 1)
  <2>1. r = [s EXCEPT !.queue = m]
    BY <1>1, <1>3, FrontFacts DEF RunningToReady, KernelState
  <2>2. m \in Queues
    BY <1>2, <1>3, FrontFacts, MoveElements
  <2> HIDE DEF m, r
  <2>3. r \in KernelState /\ r.queue = m /\ r.task = s.task
    BY <1>1, <2>1, <2>2 DEF KernelState, Queues
  <2>4. Between(r) /\ IsMove(r.queue, s.queue, RunningQ, ReadyQ, 1)
    BY <1>2, <1>3, <2>3, FrontFacts, MoveBetween DEF m
  <2>5. SlicesLeft(r)
    BY <1>2, <1>3, <2>3, <2>4, FrontLeaves
  <2>6. QED BY <2>4, <2>5 DEF r
<1>4. CASE ~(/\ q # << >> /\ q[1] # IdleTask
             /\ s.task[q[1]].current = s.task[q[1]].total)
  <2>1. r = s
    BY <1>4, FrontFacts DEF RunningToReady
  <2>2. SlicesLeft(s)
    <3>1. SUFFICES ASSUME NEW i \in 1 .. Len(q), q[i] # IdleTask
                   PROVE  s.task[q[i]].current < s.task[q[i]].total
      BY DEF SlicesLeft
    <3> DEFINE t == s.task[q[i]]
    <3>2. t.current <= t.total /\ (i # 1 => t.current < t.total)
      BY <3>1 DEF SlicesHeld
    <3>3. t \in TaskRecord
      BY <1>1, <1>2, StateFields
    <3>4. i = 1 => t.current # t.total
      <4>1. q # << >>
        BY <1>1, <1>2, <3>1, StateFields
      <4>2. QED BY <1>4, <3>1, <4>1
    <3> HIDE DEF t
    <3>5. t.current < t.total
      BY <3>2, <3>3, <3>4 DEF TaskRecord
    <3>6. QED BY <3>5 DEF t
  <2>3. QED BY <2>1, <2>2
<1>5. QED BY <1>3, <1>4

LEMMA ScheduleSettled ==
    ASSUME NEW s, Between(s), SlicesHeld(s)
    PROVE  Settled(Schedule(s))
BY RunningToReadyBetween, ScheduleNextSettled DEF Schedule

LEMMA WaitEventSettled ==
    ASSUME NEW s, Settled(s), s.cur # IdleTask, s.heap # 0, NEW wq \in WaitQ,
           wq \in Node => s.task[wq].id # 0
    PROVE  Settled(WaitEvent(s, wq))
<1> DEFINE q == s.queue[RunningQ]
           blocked == [s.task[s.cur] EXCEPT !.event = wq]
           b == [s EXCEPT !.heap = @ - 1, !.task = SetTask(s, s.cur, blocked)]
           m == MoveFront(s.queue, RunningQ, wq, 1)
           r == RunningToWaitting(b, wq)
<1>1. /\ Between(s) /\ SlicesHeld(s) /\ q # << >> /\ s.cur = q[1]
      /\ s \in KernelState
  BY HeldSlices DEF Settled, Between
<1>2. /\ s.task \in [Node -> TaskRecord] /\ s.queue \in Queues
      /\ RunningQ \in QueueId \ {FreeQ} /\ wq \in QueueId \ {FreeQ, RunningQ}
      /\ s.cur \in Node /\ s.heap \in Nat
  BY <1>1, StateFields, QueueIds
<1>3. blocked \in TaskRecord /\ blocked.id = s.task[s.cur].id
      /\ blocked.total = s.task[s.cur].total
  BY <1>2 DEF TaskRecord
<1>4. /\ b.queue = s.queue /\ b.task = SetTask(s, s.cur, blocked)
      /\ b.heap = s.heap - 1
  BY <1>1 DEF KernelState
<1>5. s.heap - 1 \in Nat
  BY <1>2
<1> HIDE DEF blocked
<1>6. /\ b.task \in [Node -> TaskRecord] /\ b.task[s.cur] = blocked
      /\ \A u \in Node \ {s.cur} : b.task[u] = s.task[u]
  BY <1>1, <1>2, <1>3, <1>4, SetTaskType
<1>7. b \in KernelState
  BY <1>1, <1>4, <1>5, <1>6 DEF KernelState
<1> HIDE DEF b
<1>8. r = [b EXCEPT !.queue = m]
  BY <1>1, <1>4, <1>7, FrontFacts DEF RunningToWaitting, KernelState
<1>9. m \in Queues
  BY <1>1, <1>2, FrontFacts, MoveElements
<1> HIDE DEF m, r
<1>10. r \in KernelState /\ r.queue = m /\ r.task = b.task
  BY <1>7, <1>8, <1>9 DEF KernelState, Queues
<1>11. \A t \in Node : r.task[t].id = s.task[t].id /\ r.task[t].total = s.task[t].total
  BY <1>3, <1>6, <1>10
<1>12. Between(r) /\ IsMove(r.queue, s.queue, RunningQ, wq, 1)
  BY <1>1, <1>2, <1>10, <1>11, FrontFacts, MoveBetween DEF m
<1>13. \A i \in 2 .. Len(q) : r.task[q[i]] = s.task[q[i]]
  BY <1>1, <1>6, <1>10, FrontFacts
<1>14. SlicesLeft(r)
  BY <1>1, <1>2, <1>10, <1>12, <1>13, FrontLeaves
<1>15. WaitEvent(s, wq) = ScheduleNext(r)
  BY DEF WaitEvent, r, b, blocked
<1>16. QED BY <1>12, <1>14, <1>15, ScheduleNextSettled

-----------------------------------------------------------------------------
(* Waking and killing *)

LEMMA NodesFinite ==
    /\ IsFiniteSet(Node)
    /\ \A S \in SUBSET Node : Cardinality(S) \in Nat
<1>1. Node = 1 .. MAX_TASK_NUM + 1
  BY SizeAssumption DEF Node, TaskNode, IdleTask
<1>2. 1 \in Int /\ MAX_TASK_NUM + 1 \in Int
  BY SizeAssumption
<1>3. IsFiniteSet(Node)
  BY <1>1, <1>2, FS_Interval
<1>4. \A S \in SUBSET Node : Cardinality(S) \in Nat
  <2>1. SUFFICES ASSUME NEW S \in SUBSET Node
                 PROVE  Cardinality(S) \in Nat
    OBVIOUS
  <2>2. IsFiniteSet(S)
    BY <1>3, FS_Subset
  <2>3. QED BY <2>2, FS_CardinalityType
<1>5. QED BY <1>3, <1>4

\* Waking the waiters of a queue empties it and leaves the running tasks alone.
LEMMA WaittingToReadyBetween ==
    ASSUME NEW s, Between(s), NEW wq \in WaitQ
    PROVE  LET r == WaittingToReady(s, wq)
           IN  /\ Between(r)
               /\ r.queue[RunningQ] = s.queue[RunningQ]
               /\ r.queue[wq] = << >>
               /\ \A t \in Node : /\ r.task[t].id = s.task[t].id
                                   /\ r.task[t].total = s.task[t].total
                                   /\ r.task[t].current = s.task[t].current
               /\ r.cur = s.cur
<1> DEFINE l == Len(s.queue[wq])
           woken == Members(s.queue[wq])
           task == [t \in Node |-> IF t \in woken
                                   THEN [s.task[t] EXCEPT !.event = NULL]
                                   ELSE s.task[t]]
           m == MoveFront(s.queue, wq, ReadyQ, l)
           freed == Cardinality({t \in woken : s.task[t].event # NULL})
           heap == s.heap + freed
           r == WaittingToReady(s, wq)
<1>1. s \in KernelState
  BY DEF Between
<1>2. /\ s.queue \in Queues /\ s.task \in [Node -> TaskRecord] /\ s.heap \in Nat
      /\ wq \in QueueId \ {FreeQ, RunningQ} /\ ReadyQ \in QueueId \ {FreeQ, RunningQ}
      /\ wq # ReadyQ /\ ReadyQ \notin Node
      /\ s.queue[wq] \in Seq(Node) /\ l \in Nat
      /\ RunningQ \in QueueId
  BY <1>1, StateFields, QueueIds
<1>3. woken \subseteq Node
  BY <1>2 DEF Members
<1>4. heap \in Nat
  <2>1. {t \in woken : s.task[t].event # NULL} \in SUBSET Node
    BY <1>3
  <2>2. freed \in Nat
    BY <2>1, NodesFinite
  <2> HIDE DEF freed
  <2>3. QED BY <1>2, <2>2
<1>5. r = [s EXCEPT !.task = task, !.queue = m, !.heap = heap]
  BY <1>1 DEF WaittingToReady, KernelState
<1> HIDE DEF heap, freed, woken, r
<1>6. \A t \in Node : /\ task[t] \in TaskRecord
                      /\ task[t].id = s.task[t].id
                      /\ task[t].total = s.task[t].total
                      /\ task[t].current = s.task[t].current
  BY <1>2 DEF TaskRecord
<1>7. task \in [Node -> TaskRecord]
  BY <1>6
<1>8. l \in 0 .. Len(s.queue[wq])
  BY <1>2
<1> HIDE DEF l
<1>9. m \in Queues
  BY <1>2, <1>8, MoveElements
<1> HIDE DEF task, m
<1>10. /\ r \in KernelState /\ r.task = task /\ r.queue = m /\ r.cur = s.cur
  BY <1>1, <1>4, <1>5, <1>7, <1>9 DEF KernelState, Queues
<1>11. \A t \in Node : r.task[t].id = s.task[t].id /\ r.task[t].total = s.task[t].total
  BY <1>6, <1>10
<1>12. Between(r) /\ IsMove(r.queue, s.queue, wq, ReadyQ, l)
  BY <1>2, <1>8, <1>10, <1>11, MoveBetween DEF m
<1>13. r.queue[RunningQ] = s.queue[RunningQ]
  BY <1>2, <1>12 DEF IsMove
<1>14. r.queue[wq] = << >>
  <2>1. Len(r.queue[wq]) = 0
    BY <1>2, <1>12 DEF IsMove, l
  <2>2. r.queue[wq] \in Seq(Node)
    BY <1>2, <1>10, StateFields
  <2>3. QED BY <2>1, <2>2, EmptySeq
<1>15. QED BY <1>6, <1>10, <1>12, <1>13, <1>14 DEF r

\* The front of the running queue, for which nobody waits, is freed.
LEMMA FreeFrontBetween ==
    ASSUME NEW s, Between(s), SlicesHeld(s), s.queue[RunningQ] # << >>,
           NEW t \in Node \ {IdleTask}, t = s.queue[RunningQ][1],
           s.queue[t] = << >>, NEW freed \in TaskRecord, freed.id = 0,
           NEW r \in KernelState,
           r.queue = MoveFront(s.queue, RunningQ, FreeQ, 1),
           r.task = SetTask(s, t, freed)
    PROVE  Between(r) /\ SlicesLeft(r)
<1> DEFINE free == s.queue[FreeQ]
           l == Len(free)
<1>1. /\ s \in KernelState /\ FreeIsUnused(s) /\ HasSlices(s)
      /\ NoDuplicate(s.queue) /\ NothingLost(s.queue) /\ IdleFirst(s.queue)
      /\ Len(s.queue[RunningQ]) <= MAX_RUNNING_TASK
  BY DEF Between
<1>2. /\ s.queue \in Queues /\ r.queue \in Queues
      /\ \A a \in QueueId : /\ s.queue[a] \in Seq(Node) /\ r.queue[a] \in Seq(Node)
                            /\ Len(s.queue[a]) \in Nat /\ Len(r.queue[a]) \in Nat
      /\ RunningQ \in QueueId /\ FreeQ \in QueueId /\ FreeQ # RunningQ
  BY <1>1, StateFields, QueueIds
<1>3. 1 \in 0 .. Len(s.queue[RunningQ]) /\ 1 \in 1 .. Len(s.queue[RunningQ])
  BY FrontFacts
<1>4. IsMove(r.queue, s.queue, RunningQ, FreeQ, 1)
  BY <1>2, <1>3, MoveElements
<1>5. NoDuplicate(r.queue) /\ NothingLost(r.queue)
  BY <1>1, <1>2, <1>3, MoveNoDuplicate, MoveNothingLost
<1>6. IdleFirst(r.queue)
  BY <1>1, <1>2, <1>3, MoveIdleFirst
<1>7. /\ r.task[t] = freed /\ \A u \in Node \ {t} : r.task[u] = s.task[u]
  BY <1>1, SetTaskType
<1>8. l \in Nat /\ Len(r.queue[FreeQ]) = l + 1 /\ r.queue[FreeQ][l + 1] = t
  <2>1. l \in Nat /\ Len(r.queue[FreeQ]) = l + 1
    BY <1>2, <1>4 DEF IsMove
  <2> DEFINE k == l + 1
  <2>2. k \in 1 .. Len(r.queue[FreeQ]) /\ ~(k <= l) /\ k - l = 1
    BY <2>1
  <2> HIDE DEF k
  <2>3. r.queue[FreeQ][k] = s.queue[RunningQ][k - l]
    BY <1>4, <2>2 DEF IsMove
  <2>4. QED BY <2>1, <2>2, <2>3 DEF k
<1>9. \A u \in Node : u # RunningQ /\ u # FreeQ /\ u \in QueueId
  BY QueueIds
<1> HIDE DEF l
<1>10. FreeIsUnused(r)
  <2>1. SUFFICES ASSUME NEW i \in 1 .. Len(r.queue[FreeQ])
                 PROVE  /\ r.task[r.queue[FreeQ][i]].id = 0
                        /\ r.queue[r.queue[FreeQ][i]] = << >>
    BY DEF FreeIsUnused
  <2>2. CASE i = l + 1
    <3>1. r.queue[t] = s.queue[t]
      BY <1>4, <1>9 DEF IsMove
    <3>2. QED BY <1>7, <1>8, <2>2, <3>1
  <2>3. CASE i # l + 1
    <3>1. i \in 1 .. l /\ i <= l
      BY <1>8, <2>3
    <3>2. i \in 1 .. Len(s.queue[FreeQ])
      BY <3>1 DEF l
    <3> DEFINE u == s.queue[FreeQ][i]
    <3>3. r.queue[FreeQ][i] = u
      BY <1>4, <3>1 DEF IsMove, l
    <3>4. u \in Node /\ s.task[u].id = 0 /\ s.queue[u] = << >>
      BY <1>1, <1>2, <3>2 DEF FreeIsUnused
    <3>5. u # t
      BY <1>1, <1>2, <1>3, <3>2 DEF NoDuplicate
    <3> HIDE DEF u
    <3>6. r.queue[u] = s.queue[u]
      BY <1>4, <1>9, <3>4 DEF IsMove
    <3>7. QED BY <1>7, <3>3, <3>4, <3>5, <3>6
  <2>4. QED BY <2>2, <2>3
<1>11. HasSlices(r)
  <2>1. SUFFICES ASSUME NEW a \in QueueId \ {FreeQ},
                        NEW i \in 1 .. Len(r.queue[a]),
                        r.queue[a][i] # IdleTask
                 PROVE  r.task[r.queue[a][i]].total \in 1 .. MAX_TIME_SLICE
    BY DEF HasSlices
  <2> DEFINE p == Source(s.queue, RunningQ, FreeQ, 1, a, i)
             u == r.queue[a][i]
  <2>2. /\ p[1] \in QueueId /\ p[2] \in 1 .. Len(s.queue[p[1]])
        /\ u = s.queue[p[1]][p[2]]
    BY <1>2, <1>3, MoveSource
  <2>3. p[1] # FreeQ
    BY <1>2 DEF Source
  <2> HIDE DEF p
  <2>4. u # t
    <3>1. l + 1 \in 1 .. Len(r.queue[FreeQ])
      BY <1>8
    <3>2. QED BY <1>2, <1>5, <1>8, <3>1 DEF NoDuplicate
  <2>5. u \in Node /\ s.task[u].total \in 1 .. MAX_TIME_SLICE
    <3>1. s.queue[p[1]][p[2]] \in Node /\ s.queue[p[1]][p[2]] # IdleTask
      BY <1>2, <2>1, <2>2
    <3>2. p[1] \in QueueId \ {FreeQ}
      BY <2>2, <2>3
    <3>3. s.task[s.queue[p[1]][p[2]]].total \in 1 .. MAX_TIME_SLICE
      BY <1>1, <2>2, <3>1, <3>2 DEF HasSlices
    <3>4. QED BY <2>2, <3>1, <3>3
  <2>6. QED BY <1>7, <2>4, <2>5
<1>12. Len(r.queue[RunningQ]) <= MAX_RUNNING_TASK
  <2> DEFINE k == Len(s.queue[RunningQ])
             j == Len(r.queue[RunningQ])
  <2>1. j = k - 1 /\ k \in Nat /\ k <= MAX_RUNNING_TASK /\ MAX_RUNNING_TASK \in Nat
    BY <1>1, <1>2, <1>4, SizeAssumption DEF IsMove
  <2> HIDE DEF k, j
  <2>2. j <= MAX_RUNNING_TASK
    BY <2>1
  <2>3. QED BY <2>2 DEF j
<1>13. Between(r)
  BY <1>5, <1>6, <1>10, <1>11, <1>12 DEF Between
<1>14. SlicesLeft(r)
  <2>1. \A i \in 2 .. Len(s.queue[RunningQ]) :
           r.task[s.queue[RunningQ][i]] = s.task[s.queue[RunningQ][i]]
    BY <1>7, FrontFacts
  <2>2. FreeQ \in QueueId \ {RunningQ}
    BY <1>2
  <2>3. QED BY <1>4, <2>1, <2>2, FrontLeaves
<1>15. QED BY <1>13, <1>14

LEMMA KillTaskSettled ==
    ASSUME NEW s, Settled(s), s.cur # IdleTask, NEW ebx \in Ebx
    PROVE  Settled(KillTask(s, ebx))
<1> DEFINE t == Head(s.queue[RunningQ])
           n == WaittingToReady(s, t)
           freed == [n.task[t] EXCEPT !.id = 0, !.ebx = ebx]
           m == MoveFront(n.queue, RunningQ, FreeQ, 1)
           r == [n EXCEPT !.queue = m, !.task = SetTask(n, t, freed)]
<1>1. /\ Between(s) /\ SlicesHeld(s) /\ s.queue[RunningQ] # << >>
      /\ s.cur = s.queue[RunningQ][1]
  BY HeldSlices DEF Settled
<1>2. t = s.queue[RunningQ][1] /\ t \in Node \ {IdleTask}
  BY <1>1, FrontFacts
<1> HIDE DEF t
<1>3. /\ Between(n) /\ n.queue[RunningQ] = s.queue[RunningQ] /\ n.queue[t] = << >>
      /\ \A u \in Node : /\ n.task[u].total = s.task[u].total
                          /\ n.task[u].current = s.task[u].current
  BY <1>1, <1>2, WaittingToReadyBetween, QueueIds
<1> HIDE DEF n
<1>4. n \in KernelState /\ s \in KernelState
  BY <1>1, <1>3 DEF Between
<1>5. SlicesHeld(n)
  <2>1. \A i \in 1 .. Len(s.queue[RunningQ]) : s.queue[RunningQ][i] \in Node
    BY <1>4, StateFields, QueueIds
  <2>2. QED BY <1>1, <1>3, <2>1 DEF SlicesHeld
<1>6. freed \in TaskRecord /\ freed.id = 0
  <2>1. n.task[t] \in TaskRecord
    BY <1>2, <1>4, StateFields
  <2>2. QED BY <2>1 DEF TaskRecord
<1> HIDE DEF freed
<1>7. SetTask(n, t, freed) \in [Node -> TaskRecord]
  BY <1>2, <1>4, <1>6, SetTaskType
<1>8. m \in Queues
  BY <1>1, <1>3, <1>4, FrontFacts, StateFields, QueueIds, MoveElements
<1>9. r.queue = m /\ r.task = SetTask(n, t, freed) /\ r \in KernelState
  <2> HIDE DEF m
  <2>1. QED BY <1>4, <1>7, <1>8 DEF KernelState, Queues
<1> HIDE DEF r
<1>10. Between(r) /\ SlicesLeft(r)
  BY <1>1, <1>2, <1>3, <1>5, <1>6, <1>9, FreeFrontBetween
<1>11. Settled(Schedule(r))
  BY <1>10, HeldSlices, ScheduleSettled
<1>12. KillTask(s, ebx) = Schedule(r)
  BY DEF KillTask, r, n, t, freed
<1>13. QED BY <1>11, <1>12

-----------------------------------------------------------------------------
(* Registering and waiting *)

\* Registering an application changes neither queues nor TCBs.
LEMMA AppInfoToRunState ==
    ASSUME NEW s \in KernelState, NEW name \in Name \union {NoName},
           NEW pri \in Priority \union {MainPri}
    PROVE  LET r == AppInfoToRun(s, name, pri)
           IN  /\ r \in KernelState /\ r.queue = s.queue
               /\ r.task = s.task /\ r.cur = s.cur
<1> DEFINE named == name # NoName /\ s.heap >= 2
           an == [name |-> IF named THEN name ELSE NoName, pri |-> pri]
           k == IF named THEN 2 ELSE 1
           heap == s.heap - k
           app == Append(s.app, an)
           r == AppInfoToRun(s, name, pri)
<1>1. CASE s.heap = 0
  BY <1>1 DEF AppInfoToRun
<1>2. CASE s.heap # 0
  <2>1. r = [s EXCEPT !.app = app, !.heap = heap]
    BY <1>2 DEF AppInfoToRun, KernelState
  <2>2. an \in App
    BY DEF App
  <2>3. s.app \in Seq(App) /\ s.heap \in Nat
    BY StateFields
  <2>4. heap \in Nat
    BY <1>2, <2>3
  <2> HIDE DEF an
  <2>5. app \in Seq(App)
    BY <2>2, <2>3, AppendProperties
  <2> HIDE DEF r, heap, app
  <2>6. /\ r \in KernelState /\ r.queue = s.queue
        /\ r.task = s.task /\ r.cur = s.cur
    BY <2>1, <2>4, <2>5 DEF KernelState
  <2>7. QED BY <2>6 DEF r
<1>3. QED BY <1>1, <1>2

LEMMA AppInfoToRunSettled ==
    ASSUME NEW s, Settled(s), NEW name \in Name \union {NoName},
           NEW pri \in Priority \union {MainPri}
    PROVE  Settled(AppInfoToRun(s, name, pri))
<1> DEFINE r == AppInfoToRun(s, name, pri)
<1>1. Between(s) /\ s \in KernelState
  BY DEF Settled, Between
<1>2. /\ r \in KernelState /\ r.queue = s.queue
      /\ r.task = s.task /\ r.cur = s.cur
  BY <1>1, AppInfoToRunState
<1> HIDE DEF r
<1>3. Between(r)
  BY <1>1, <1>2, SameQueues
<1>4. Settled(r)
  BY <1>2, <1>3 DEF Settled
<1>5. QED BY <1>4 DEF r

LEMMA LeastElement ==
    ASSUME NEW S \in SUBSET Nat, S # {}
    PROVE  \E x \in S : \A y \in S : x <= y
<1> DEFINE below(x) == {y \in S : y < x}
           T == {below(x) : x \in S}
<1>0. \A y \in S : y \in Nat
  OBVIOUS
<1>1. ASSUME NEW x \in S
      PROVE  below(x) \in FiniteSubsetsOf(S)
  <2>1. x \in Nat /\ \A y \in below(x) : y \in Nat /\ y <= x
    <3>1. SUFFICES ASSUME NEW y \in below(x)
                   PROVE  x \in Nat /\ y \in Nat /\ y <= x
      BY <1>0
    <3>2. y \in S /\ y < x
      OBVIOUS
    <3>3. QED BY <1>0, <3>2
  <2> HIDE DEF below
  <2>2. IsFiniteSet(below(x))
    BY <2>1, FS_BoundedSetOfNaturals
  <2>3. QED BY <2>2 DEF FiniteSubsetsOf, below
<1>2. PICK A \in T : \A B \in T : ~(<< B, A >> \in StrictSubsetOrdering(S))
  <2>1. T \subseteq FiniteSubsetsOf(S) /\ T # {}
    BY <1>1
  <2> HIDE DEF T
  <2>2. QED BY <2>1, FS_StrictSubsetOrderingWellFounded, WFMin
<1>3. PICK x \in S : A = below(x)
  OBVIOUS
<1>4. ASSUME NEW y \in S
      PROVE  x <= y
  <2>1. SUFFICES ASSUME y < x PROVE FALSE
    BY <1>0
  <2>2. below(y) \subseteq below(x)
    <3>1. SUFFICES ASSUME NEW z \in below(y)
                   PROVE  z \in below(x)
      OBVIOUS
    <3>2. z \in S /\ z < y
      OBVIOUS
    <3>3. x \in Nat /\ y \in Nat /\ z \in Nat
      BY <1>0, <3>2
    <3>4. z < x
      BY <2>1, <3>2, <3>3
    <3>5. QED BY <3>2, <3>4
  <2>5. y \in below(x)
    BY <2>1
  <2>6. y \notin below(y)
    <3>1. ~(y < y)
      BY <1>0
    <3>2. QED BY <3>1
  <2>3. << below(y), below(x) >> \in StrictSubsetOrdering(S)
    BY <2>2, <2>5, <2>6 DEF StrictSubsetOrdering
  <2>4. QED BY <1>2, <1>3, <2>3
<1>5. QED BY <1>4
LEMMA FoundIsLive ==
    ASSUME NEW s \in KernelState, NEW name, FindTaskByName(s, name) # NULL
    PROVE  /\ FindTaskByName(s, name) \in Node
           /\ s.task[FindTaskByName(s, name)].id # 0
<1> DEFINE N == Named(s, name)
<1>1. N # {} /\ FindTaskByName(s, name) = CHOOSE t \in N : \A u \in N : t <= u
  BY DEF FindTaskByName
<1>2. N \in SUBSET Nat
  BY SizeAssumption DEF Named, Node, TaskNode, IdleTask
<1> HIDE DEF N
<1>3. \E t \in N : \A u \in N : t <= u
  BY <1>1, <1>2, LeastElement
<1>4. FindTaskByName(s, name) \in N
  BY <1>1, <1>3
<1>5. QED BY <1>4 DEF N, Named

LEMMA WaitTaskSettled ==
    ASSUME NEW s, Settled(s), s.cur # IdleTask, NEW name
    PROVE  Settled(WaitTask(s, name))
<1> DEFINE t == FindTaskByName(s, name)
<1>1. CASE t = NULL \/ s.heap = 0
  BY <1>1 DEF WaitTask
<1>2. CASE t # NULL /\ s.heap # 0
  <2>1. s \in KernelState
    BY DEF Settled, Between
  <2>2. t \in Node /\ s.task[t].id # 0 /\ t \in WaitQ
    BY <1>2, <2>1, FoundIsLive, QueueIds
  <2>3. WaitTask(s, name) = WaitEvent(s, t)
    BY <1>2 DEF WaitTask
  <2> HIDE DEF t
  <2>4. QED BY <1>2, <2>2, <2>3, WaitEventSettled
<1>3. QED BY <1>1, <1>2

-----------------------------------------------------------------------------
(* The invariant holds in every state *)

LEMMA BootBetween ==
    Between(BootState) /\ BootState.queue[RunningQ] = << >>
<1> DEFINE free == [i \in TaskNode |-> i]
           q == [x \in QueueId |-> IF x = FreeQ THEN free ELSE << >>]
           task == BootState.task
<1>1. BootState.queue = q
  BY DEF BootState
<1>2. free \in Seq(Node) /\ Len(free) = MAX_TASK_NUM /\ MAX_TASK_NUM \in Nat
      /\ \A i \in 1 .. Len(free) : free[i] = i
  BY SizeAssumption DEF TaskNode, Node
<1> HIDE DEF free
<1>3. \A x \in QueueId : q[x] = IF x = FreeQ THEN free ELSE << >>
  OBVIOUS
<1>4. q \in Queues
  BY <1>2 DEF Queues
<1> HIDE DEF q
<1>5. \A x \in QueueId : \A i \in 1 .. Len(q[x]) :
         x = FreeQ /\ i \in 1 .. Len(free) /\ q[x][i] = i
  <2>1. SUFFICES ASSUME NEW x \in QueueId, NEW i \in 1 .. Len(q[x])
                 PROVE  x = FreeQ /\ i \in 1 .. Len(free) /\ q[x][i] = i
    OBVIOUS
  <2>2. x = FreeQ
    BY <1>3
  <2>3. QED BY <1>2, <1>3, <2>2
<1>6. NoDuplicate(q)
  BY <1>5 DEF NoDuplicate
<1>7. NothingLost(q)
  <2>1. SUFFICES ASSUME NEW t \in TaskNode
                 PROVE  \E a \in QueueId : \E i \in 1 .. Len(q[a]) : q[a][i] = t
    BY DEF NothingLost
  <2>2. FreeQ \in QueueId /\ q[FreeQ] = free
    BY <1>3, QueueIds
  <2>3. t \in 1 .. Len(q[FreeQ]) /\ q[FreeQ][t] = t
    BY <1>2, <2>2 DEF TaskNode
  <2>4. QED BY <2>2, <2>3
<1>8. IdleFirst(q)
  <2>1. \A i \in 1 .. Len(free) : i # IdleTask
    BY <1>2 DEF IdleTask
  <2>2. QED BY <1>5, <2>1 DEF IdleFirst
<1>9. /\ task \in [Node -> TaskRecord]
      /\ \A t \in Node : task[t].id = 0
  <2> DEFINE idle == MAX_TIME_SLICE - IdlePri
  <2>1. idle \in Nat
    BY SliceAssumption
  <2> HIDE DEF idle
  <2>2. task = [t \in Node |->
                  [id |-> 0, current |-> 0, event |-> NULL, ebx |-> 0,
                   name  |-> IF t = IdleTask THEN IdleName ELSE NoName,
                   total |-> IF t = IdleTask THEN idle ELSE 0]]
    BY DEF BootState, idle
  <2>3. 0 \in Ebx
    BY NameAssumption
  <2>4. QED BY <2>1, <2>2, <2>3 DEF TaskRecord
<1>10. FreeIsUnused(BootState)
  <2>1. SUFFICES ASSUME NEW i \in 1 .. Len(q[FreeQ])
                 PROVE  task[q[FreeQ][i]].id = 0 /\ q[q[FreeQ][i]] = << >>
    BY <1>1 DEF FreeIsUnused
  <2>2. q[FreeQ][i] = i /\ i \in 1 .. Len(free)
    BY <1>5, QueueIds
  <2>3. i \in Node /\ i \in QueueId /\ i # FreeQ
    BY <1>2, <2>2, QueueIds DEF Node, TaskNode
  <2>4. QED BY <1>3, <1>9, <2>2, <2>3
<1>11. HasSlices(BootState)
  BY <1>1, <1>5 DEF HasSlices
<1>12. BootState \in KernelState
  <2>1. BootState.app = << >> /\ << >> \in Seq(App)
    BY DEF BootState
  <2>2. IdleTask \in Node /\ PID_BASE \in Nat /\ HeapUnits \in Nat
    BY SizeAssumption DEF Node
  <2>3. BootState = [queue |-> q, task |-> task, app |-> << >>,
                     cur |-> IdleTask, pid |-> PID_BASE, heap |-> HeapUnits]
    BY <1>1 DEF BootState
  <2> HIDE DEF task
  <2>4. QED BY <1>4, <1>9, <2>1, <2>2, <2>3 DEF KernelState, Queues
<1>13. q[RunningQ] = << >> /\ Len(<< >>) = 0 /\ 0 <= MAX_RUNNING_TASK
  BY <1>3, QueueIds, SizeAssumption
<1>14. QED
  <2> HIDE DEF task
  <2>1. QED
    BY <1>1, <1>6, <1>7, <1>8, <1>10, <1>11, <1>12, <1>13 DEF Between

LEMMA InitInv == TaskInit => TaskInv
<1> DEFINE a == AppInfoToRun(BootState, MainName, MainPri)
           r == ReadyToRunning(a)
           c == CheckRunningTask(r)
<1>1. SUFFICES ASSUME TaskInit PROVE TaskInv
  OBVIOUS
<1>2. BootState \in KernelState /\ Between(BootState)
  BY BootBetween DEF Between
<1>3. MainName \in Name \union {NoName} /\ MainPri \in Priority \union {MainPri}
  BY NameAssumption
<1>4. a \in KernelState /\ a.queue = BootState.queue /\ a.task = BootState.task
  BY <1>2, <1>3, AppInfoToRunState
<1> HIDE DEF a
<1>5. Between(a)
  BY <1>2, <1>4, SameQueues
<1>6. SlicesLeft(a)
  <2>1. a.queue[RunningQ] = << >>
    BY <1>4, BootBetween
  <2>2. 1 .. Len(a.queue[RunningQ]) = {}
    BY <2>1
  <2>3. QED BY <2>2 DEF SlicesLeft
<1>7. Between(r) /\ SlicesLeft(r)
  BY <1>5, <1>6, ReadyToRunningBetween
<1> HIDE DEF r
<1>8. /\ Between(c) /\ SlicesLeft(c) /\ IdleAlone(c.queue)
      /\ c.queue[RunningQ] # << >>
  BY <1>7, CheckRunningTaskBetween
<1> HIDE DEF c
<1>9. Settled(Dispatch(c))
  BY <1>8, DispatchSettled
<1>10. kern = Dispatch(c)
  BY <1>1 DEF TaskInit, TaskModInit, LaunchTask, c, r, a
<1>11. tick \in 0 .. TIMER_TICKS - 1 /\ lost \subseteq TaskNode
  BY <1>1, SizeAssumption DEF TaskInit
<1>12. QED BY <1>9, <1>10, <1>11 DEF TaskInv

LEMMA NextInv == TaskInv /\ [TaskNext]_taskVars => TaskInv'
<1>1. SUFFICES ASSUME TaskInv, [TaskNext]_taskVars PROVE TaskInv'
  OBVIOUS
<1>2. /\ Settled(kern) /\ tick \in 0 .. TIMER_TICKS - 1 /\ lost \subseteq TaskNode
      /\ kern.cur \in Node
  <2>1. Settled(kern) /\ tick \in 0 .. TIMER_TICKS - 1 /\ lost \subseteq TaskNode
    BY <1>1 DEF TaskInv
  <2>2. QED BY <2>1, StateFields DEF Settled, Between
<1>3. \A s : Settled(s) => Settled(Schedule(s))
  BY HeldSlices, ScheduleSettled, Zenon DEF Settled
<1>4. ASSUME TimerHandler PROVE TaskInv'
  <2>1. tick' \in 0 .. TIMER_TICKS - 1
    BY <1>2, <1>4, SizeAssumption DEF TimerHandler, TimerTick
  <2>2. Settled(kern')
    BY <1>2, <1>3, <1>4 DEF TimerHandler
  <2>3. QED BY <1>2, <1>4, <2>1, <2>2, Zenon DEF TimerHandler, TaskInv, Settled,
          Between, SlicesLeft
<1>5. ASSUME Exit PROVE TaskInv'
  <2>1. Settled(kern')
    BY <1>2, <1>5, KillTaskSettled, NameAssumption DEF Exit, UserMode
  <2>2. QED BY <1>2, <1>5, <2>1 DEF Exit, TaskInv
<1>6. ASSUME NEW name \in Name \union {IdleName}, Wait(name) PROVE TaskInv'
  <2>1. Settled(kern')
    BY <1>2, <1>6, WaitTaskSettled DEF Wait, UserMode
  <2>2. QED BY <1>2, <1>6, <2>1 DEF Wait, TaskInv
<1>7. ASSUME NEW name \in Name, NEW pri \in Priority, RegApp(name, pri)
      PROVE  TaskInv'
  <2>1. Settled(kern')
    BY <1>2, <1>7, AppInfoToRunSettled DEF RegApp
  <2>2. QED BY <1>2, <1>7, <2>1 DEF RegApp, TaskInv
<1>8. ASSUME TaskEntryEnd PROVE TaskInv'
  <2> DEFINE ebx == kern.task[kern.cur].ebx
  <2>1. kern.cur # IdleTask /\ kern.cur \in TaskNode
    BY <1>2, <1>8 DEF TaskEntryEnd, UserMode, Node
  <2>2. Settled(kern')
    <3>1. CASE kern' = KillTask(kern, 0)
      BY <1>2, <2>1, <3>1, KillTaskSettled, NameAssumption
    <3>2. CASE \E name \in Name : kern' = WaitTask(kern, name)
      BY <1>2, <2>1, <3>2, WaitTaskSettled
    <3>3. CASE \E name \in Name \union {NoName}, pri \in Priority :
                  kern' = AppInfoToRun(kern, name, pri)
      BY <1>2, <3>3, AppInfoToRunSettled
    <3>4. CASE UNCHANGED kern
      BY <1>2, <3>4
    <3>5. QED BY <1>8, <3>1, <3>2, <3>3, <3>4 DEF TaskEntryEnd
  <2>3. lost' \subseteq TaskNode /\ tick' = tick
    BY <1>2, <1>8, <2>1 DEF TaskEntryEnd
  <2>4. QED BY <1>2, <2>2, <2>3 DEF TaskInv
<1>9. ASSUME Fault PROVE TaskInv'
  <2>1. Settled(kern')
    BY <1>2, <1>9, KillTaskSettled DEF Fault
  <2>2. lost' \subseteq TaskNode /\ tick' = tick
    BY <1>2, <1>9 DEF Fault
  <2>3. QED BY <1>2, <2>1, <2>2 DEF TaskInv
<1>10. ASSUME UNCHANGED taskVars PROVE TaskInv'
  BY <1>2, <1>10 DEF taskVars, TaskInv
<1>11. QED
  BY <1>1, <1>4, <1>5, <1>6, <1>7, <1>8, <1>9, <1>10 DEF TaskNext

\* The inductive invariant holds in every state of the kernel.
THEOREM Invariance == TaskSpec => []TaskInv
BY InitInv, NextInv, PTL DEF TaskSpec

-----------------------------------------------------------------------------
(* The properties of module Task that follow *)

\* Whatever tasks are registered, killed, put to sleep or preempted, the state
\* of task.c stays in its types: the current task and every queue entry is a
\* TCB of gTaskBuff, and no counter goes below zero.
THEOREM TypeCorrect == TaskSpec => []TaskTypeOK
<1>1. TaskInv => TaskTypeOK
  BY DEF TaskInv, Settled, Between, TaskTypeOK
<1>2. QED BY <1>1, Invariance, PTL

\* Every TCB is always linked into exactly one queue of task.c, event queues
\* included, and the idle task is only ever alone in gRunningTask.
THEOREM QueuesPartition == TaskSpec => []QueueDiscipline
<1>1. TaskInv => QueueDiscipline
  BY DEF TaskInv, Settled, Between, QueueDiscipline
<1>2. QED BY <1>1, Invariance, PTL

\* The task whose context is loaded is always the front of gRunningTask, which
\* every handler takes for it, and gRunningTask never exceeds its limit.
THEOREM FrontIsCurrent == TaskSpec => []CurrentIsFront
<1>1. TaskInv => CurrentIsFront
  BY FrontFacts DEF TaskInv, Settled, Between, CurrentIsFront
<1>2. QED BY <1>1, Invariance, PTL

\* No task runs past its time slices, although RunningToReady compares current
\* with total for equality and current is a 16-bit counter.
THEOREM SlicesBounded == TaskSpec => []SliceBound
<1>1. TaskInv => SliceBound
  BY DEF TaskInv, Settled, SliceBound
<1>2. QED BY <1>1, Invariance, PTL

-----------------------------------------------------------------------------
(* What the functions of the scheduler do with ids, events and the stages  *)
(* of tasks: ids are given to free TCBs in increasing order, so that they  *)
(* identify tasks for ever; an event names the queue that a task is in;    *)
(* and every handler is a step of module Lifecycle.                        *)

\* Ids in use are different and below the next one, and TCBs without one are free.
IdsOK(s) ==
    /\ s.pid > 0
    /\ \A t \in Node : s.task[t].id < s.pid
    /\ \A t, u \in Node : s.task[t].id = s.task[u].id /\ s.task[t].id # 0 => t = u
    /\ s.task[IdleTask].id = 0
    /\ \A t \in TaskNode :
         s.task[t].id = 0 => \E i \in 1 .. Len(s.queue[FreeQ]) : s.queue[FreeQ][i] = t

\* The tasks in T keep their ids, and those that had none may have got a new one.
Grows(s, r, T) ==
    /\ s.pid <= r.pid
    /\ \A t \in T : \/ r.task[t].id = s.task[t].id
                    \/ s.task[t].id = 0 /\ s.pid <= r.task[t].id

\* Of the queues that belong to no task, only those in W have changed.
Kept(s, r, W) == \A w \in ObjectQ \ W : r.queue[w] = s.queue[w]

\* Nothing of this has changed.
Alike(s, r, W) ==
    /\ r.pid = s.pid
    /\ \A t \in Node : r.task[t].id = s.task[t].id
    /\ r.queue[FreeQ] = s.queue[FreeQ]
    /\ Kept(s, r, W)

-----------------------------------------------------------------------------

LEMMA Ids ==
    ASSUME NEW s \in KernelState
    PROVE  s.pid \in Nat /\ \A t \in Node : s.task[t].id \in Nat
<1>1. s.task \in [Node -> TaskRecord] /\ s.pid \in Nat
  BY StateFields
<1> QED
  BY <1>1 DEF TaskRecord

LEMMA AlikeIds ==
    ASSUME NEW s \in KernelState, NEW r, IdsOK(s), NEW W, Alike(s, r, W)
    PROVE  IdsOK(r) /\ Grows(s, r, Node)
<1>1. IdleTask \in Node /\ TaskNode \subseteq Node /\ s.pid \in Nat
  BY Ids DEF Node
<1>2. IdsOK(r)
  BY <1>1 DEF IdsOK, Alike
<1>3. Grows(s, r, Node)
  BY <1>1 DEF Grows, Alike
<1> QED
  BY <1>2, <1>3

LEMMA AlikeTrans ==
    ASSUME NEW s, NEW r, NEW u, NEW W, Alike(s, r, W), Alike(r, u, W)
    PROVE  Alike(s, u, W)
BY DEF Alike, Kept

LEMMA GrowsTrans ==
    ASSUME NEW s \in KernelState, NEW r \in KernelState, NEW u \in KernelState,
           NEW T \in SUBSET Node, Grows(s, r, T), Grows(r, u, Node)
    PROVE  Grows(s, u, T)
<1>1. s.pid \in Nat /\ r.pid \in Nat /\ u.pid \in Nat
      /\ \A t \in Node : s.task[t].id \in Nat /\ r.task[t].id \in Nat /\ u.task[t].id \in Nat
  BY Ids
<1>2. s.pid <= u.pid
  BY <1>1 DEF Grows
<1>3. ASSUME NEW t \in T
      PROVE  u.task[t].id = s.task[t].id \/ (s.task[t].id = 0 /\ s.pid <= u.task[t].id)
  <2>1. u.task[t].id = r.task[t].id \/ (r.task[t].id = 0 /\ r.pid <= u.task[t].id)
    BY <1>3 DEF Grows
  <2>2. r.task[t].id = s.task[t].id \/ (s.task[t].id = 0 /\ s.pid <= r.task[t].id)
    BY <1>3 DEF Grows
  <2>3. s.pid <= r.pid
    BY DEF Grows
  <2> QED
    BY <1>1, <1>3, <2>1, <2>2, <2>3
<1> QED
  BY <1>2, <1>3 DEF Grows

\* A move between two queues, with whatever is done to TCBs besides their ids.
LEMMA MoveAlike ==
    ASSUME NEW s \in KernelState, NEW r, NEW W,
           NEW from \in QueueId \ {FreeQ}, NEW to \in QueueId \ {FreeQ},
           from \in ObjectQ => from \in W, to \in ObjectQ => to \in W, NEW n,
           r.queue = MoveFront(s.queue, from, to, n), r.pid = s.pid,
           \A t \in Node : r.task[t].id = s.task[t].id
    PROVE  Alike(s, r, W)
<1>1. s.queue \in [QueueId -> Seq(Node)]
  BY DEF KernelState
<1>2. \A a \in QueueId \ {from, to} : r.queue[a] = s.queue[a]
  BY <1>1 DEF MoveFront
<1>3. ObjectQ \subseteq QueueId /\ FreeQ \in QueueId
  BY DEF QueueId, WaitQ
<1> QED
  BY <1>2, <1>3 DEF Alike, Kept

LEMMA Objects ==
    /\ FreeQ \notin ObjectQ /\ ReadyQ \notin ObjectQ /\ RunningQ \notin ObjectQ
    /\ \A t \in Node : t \notin ObjectQ
  BY QueueAssumption DEF WaitQ

-----------------------------------------------------------------------------
(* Scheduling *)

\* The TCBs that CreateTask takes from the free queue get the next ids.
LEMMA CreateTaskIds ==
    ASSUME NEW s, Between(s), IdsOK(s)
    PROVE  LET c == CreateTask(s)
           IN  IdsOK(c) /\ Grows(s, c, Node) /\ Kept(s, c, {})
<1> DEFINE n == Creatable(s)
           free == s.queue[FreeQ]
           made == Members(SubSeq(s.queue[FreeQ], 1, n))
           c == CreateTask(s)
           at(t) == CHOOSE i \in 1 .. n : s.queue[FreeQ][i] = t
<1>1. s \in KernelState /\ FreeIsUnused(s) /\ NoDuplicate(s.queue) /\ IdleFirst(s.queue)
  BY DEF Between
<1>2. /\ free \in Seq(Node) /\ s.queue \in Queues
      /\ n \in Nat /\ n \in 0 .. Len(free)
      /\ Len(free) \in Nat /\ s.pid \in Nat /\ \A t \in Node : s.task[t].id \in Nat
  BY <1>1, StateFields, CreatableBounds, QueueIds, Ids
<1>3. made = {free[i] : i \in 1 .. n}
  BY <1>2, PrefixMembers
<1>4. c.pid = s.pid + n
  BY <1>1 DEF CreateTask, KernelState
<1>5. \A t \in Node : c.task[t].id = IF t \in made THEN s.pid + at(t) - 1 ELSE s.task[t].id
  BY <1>1 DEF CreateTask, KernelState, InitTask
<1>6. \A i \in 1 .. n : i \in 1 .. Len(free) /\ free[i] \in Node
  BY <1>2
<1>7. \A t \in made : at(t) \in 1 .. n /\ free[at(t)] = t
  BY <1>3
<1>8. /\ Len(c.queue[FreeQ]) = Len(free) - n
      /\ \A i \in 1 .. Len(c.queue[FreeQ]) : c.queue[FreeQ][i] = free[n + i]
      /\ \A a \in QueueId \ {FreeQ, ReadyQ} : c.queue[a] = s.queue[a]
  <2>1. FreeQ \in QueueId /\ ReadyQ \in QueueId /\ FreeQ # ReadyQ
    BY QueueIds
  <2>2. c.queue = MoveFront(s.queue, FreeQ, ReadyQ, n)
    BY <1>1, CreateTaskQueue
  <2>3. IsMove(c.queue, s.queue, FreeQ, ReadyQ, n)
    <3> HIDE DEF n, made, at, c
    <3> QED
      BY <1>2, <2>1, <2>2, MoveElements
  <2> HIDE DEF n, made, at, c
  <2> QED
    BY <2>1, <2>3 DEF IsMove
<1>9. \A t \in made : t \in Node /\ t # IdleTask /\ s.task[t].id = 0
  <2>1. SUFFICES ASSUME NEW i \in 1 .. n
                 PROVE  free[i] \in Node /\ free[i] # IdleTask /\ s.task[free[i]].id = 0
    BY <1>3
  <2>2. s.task[free[i]].id = 0
    BY <1>1, <1>6 DEF FreeIsUnused
  <2>3. free[i] # IdleTask
    BY <1>1, <1>6, QueueIds DEF IdleFirst
  <2> QED
    BY <1>6, <2>2, <2>3
<1> HIDE DEF n, made, c, at, free
<1>10. \A t \in made : c.task[t].id \in Nat /\ s.pid <= c.task[t].id /\ c.task[t].id < c.pid
  BY <1>2, <1>4, <1>5, <1>7, <1>9
<1>11. s.pid > 0 /\ \A t \in Node : s.task[t].id < s.pid
  BY DEF IdsOK
<1>12. \A t \in Node : c.task[t].id < c.pid
  BY <1>2, <1>4, <1>5, <1>10, <1>11
<1>13. Grows(s, c, Node)
  BY <1>2, <1>4, <1>5, <1>9, <1>10 DEF Grows
<1>14. Kept(s, c, {})
  BY <1>8, Objects DEF Kept, QueueId, WaitQ
<1>15. ASSUME NEW t \in Node, NEW u \in Node, c.task[t].id = c.task[u].id,
              c.task[t].id # 0
       PROVE  t = u
  <2>1. CASE t \in made /\ u \in made
    <3>1. at(t) \in Nat /\ at(u) \in Nat /\ s.pid + at(t) - 1 = s.pid + at(u) - 1
      BY <1>2, <1>5, <1>7, <1>15, <2>1
    <3>2. at(t) = at(u)
      BY <1>2, <3>1
    <3> QED
      BY <1>7, <2>1, <3>2
  <2>2. CASE t \in made /\ u \notin made
    BY <1>2, <1>5, <1>10, <1>11, <1>15, <2>2
  <2>3. CASE t \notin made /\ u \in made
    BY <1>2, <1>5, <1>10, <1>11, <1>15, <2>3
  <2>4. CASE t \notin made /\ u \notin made
    BY <1>5, <1>15, <2>4 DEF IdsOK
  <2> QED
    BY <2>1, <2>2, <2>3, <2>4
<1>16. c.task[IdleTask].id = 0
  BY <1>5, <1>9 DEF IdsOK, Node
<1>17. ASSUME NEW t \in TaskNode, c.task[t].id = 0
       PROVE  \E i \in 1 .. Len(c.queue[FreeQ]) : c.queue[FreeQ][i] = t
  <2>1. t \in Node /\ t \notin made
    BY <1>2, <1>10, <1>11, <1>17 DEF Node
  <2>2. PICK i \in 1 .. Len(free) : free[i] = t
    BY <1>5, <1>17, <2>1 DEF IdsOK, free
  <2>3. i \notin 1 .. n
    BY <1>3, <2>1, <2>2
  <2>4. i - n \in 1 .. Len(c.queue[FreeQ]) /\ n + (i - n) = i
    BY <1>2, <1>8, <2>3
  <2> QED
    BY <1>8, <2>2, <2>4
<1>6a. c.pid > 0
  BY <1>2, <1>4, <1>11
<1>19. IdsOK(c)
  BY <1>12, <1>15, <1>16, <1>17, <1>6a DEF IdsOK
<1> QED
  BY <1>13, <1>14, <1>19 DEF c

LEMMA ReadyToRunningAlike ==
    ASSUME NEW s, CreateTask(s) \in KernelState
    PROVE  Alike(CreateTask(s), ReadyToRunning(s), {})
<1> DEFINE c == CreateTask(s)
           n == Smaller(Len(c.queue[ReadyQ]),
                        Monus(MAX_RUNNING_TASK, Len(c.queue[RunningQ])))
           moved == Members(SubSeq(c.queue[ReadyQ], 1, n))
           task == [t \in Node |-> IF t \in moved
                                   THEN [c.task[t] EXCEPT !.current = 0]
                                   ELSE c.task[t]]
           r == ReadyToRunning(s)
<1>1. r = [c EXCEPT !.task = task, !.queue = MoveFront(@, ReadyQ, RunningQ, n)]
  BY DEF ReadyToRunning
<1> HIDE DEF c, n, moved
<1>2. c \in KernelState /\ c.task \in [Node -> TaskRecord]
  BY StateFields DEF c
<1>3. \A t \in Node : task[t].id = c.task[t].id
  BY <1>2 DEF TaskRecord
<1> HIDE DEF task, r
<1>4. /\ r.queue = MoveFront(c.queue, ReadyQ, RunningQ, n) /\ r.pid = c.pid
      /\ r.task = task
  BY <1>1, <1>2 DEF KernelState
<1>5. Alike(c, r, {})
  BY <1>2, <1>3, <1>4, QueueIds, Objects, MoveAlike
<1> QED
  BY <1>5 DEF c, r

LEMMA RunningAlike ==
    ASSUME NEW s \in KernelState, NEW v
    PROVE  Alike(s, [s EXCEPT !.queue[RunningQ] = v], {})
<1> DEFINE r == [s EXCEPT !.queue[RunningQ] = v]
<1>1. /\ r.pid = s.pid /\ r.task = s.task
      /\ r.queue = [s.queue EXCEPT ![RunningQ] = v]
  BY DEF KernelState
<1>2. s.queue \in [QueueId -> Seq(Node)]
  BY DEF KernelState
<1>3. \A a \in QueueId \ {RunningQ} : r.queue[a] = s.queue[a]
  BY <1>1, <1>2
<1>4. ObjectQ \subseteq QueueId \ {RunningQ} /\ FreeQ \in QueueId \ {RunningQ}
  BY QueueIds, Objects DEF WaitQ, QueueId
<1> HIDE DEF r
<1>5. Alike(s, r, {})
  BY <1>1, <1>3, <1>4 DEF Alike, Kept
<1> QED
  BY <1>5 DEF r

LEMMA CheckRunningTaskAlike ==
    ASSUME NEW s \in KernelState
    PROVE  Alike(s, CheckRunningTask(s), {})
<1>1. Alike(s, s, {})
  BY DEF Alike, Kept
<1> QED
  BY <1>1, RunningAlike DEF CheckRunningTask

LEMMA DispatchAlike ==
    ASSUME NEW s \in KernelState
    PROVE  Alike(s, Dispatch(s), {})
<1> DEFINE t == Head(s.queue[RunningQ])
           new == [s.task[t] EXCEPT !.current = (@ + 1) % USHORT]
           r == Dispatch(s)
<1>1. r = [s EXCEPT !.cur = t, !.task = SetTask(s, t, new)]
  BY DEF Dispatch
<1>2. s.task \in [Node -> TaskRecord]
  BY StateFields
<1>3. \A u \in Node : SetTask(s, t, new)[u].id = s.task[u].id
  <2>1. SUFFICES ASSUME NEW u \in Node
                 PROVE  SetTask(s, t, new)[u].id = s.task[u].id
    BY Zenon
  <2>2. CASE u = t
    <3>1. SetTask(s, t, new)[u] = new /\ s.task[t] \in TaskRecord
      BY <1>2, <2>2 DEF SetTask
    <3>2. new.id = s.task[t].id
      BY <3>1 DEF TaskRecord
    <3>3. SetTask(s, t, new)[u] = new
      BY <3>1
    <3> HIDE DEF new
    <3> QED
      BY ONLY <2>2, <3>2, <3>3
  <2>3. CASE u # t
    BY <2>3 DEF SetTask
  <2> QED
    BY <2>2, <2>3, Zenon
<1> HIDE DEF t, new, r
<1>4. r.pid = s.pid /\ r.queue = s.queue /\ r.task = SetTask(s, t, new)
  BY <1>1 DEF KernelState
<1> QED
  BY <1>3, <1>4 DEF Alike, Kept, r

\* Nothing but CreateTask gives ids.
LEMMA ScheduleNextIds ==
    ASSUME NEW s, Between(s), SlicesLeft(s), IdsOK(s)
    PROVE  LET r == ScheduleNext(s)
           IN  IdsOK(r) /\ Grows(s, r, Node) /\ Kept(s, r, {})
<1> DEFINE c == CreateTask(s)
           d == ReadyToRunning(s)
           e == CheckRunningTask(d)
           f == [e EXCEPT !.queue[RunningQ] = Queue_Rotate(@)]
           r == ScheduleNext(s)
<1>1. /\ IdsOK(c) /\ Grows(s, c, Node) /\ Kept(s, c, {}) /\ c \in KernelState
      /\ s \in KernelState
  BY CreateTaskIds, CreateTaskBetween DEF Between
<1>2. Between(d) /\ SlicesLeft(d) /\ d \in KernelState
  BY ReadyToRunningBetween DEF Between
<1>3. Between(e) /\ e \in KernelState
  BY <1>2, CheckRunningTaskBetween DEF Between
<1>4. Settled(r) /\ r \in KernelState
  BY ScheduleNextSettled DEF Settled, Between
<1>5. f \in KernelState
  <2>1. CheckRunningTask(d).queue[RunningQ] # << >> /\ IdleAlone(e.queue)
    BY <1>2, CheckRunningTaskBetween
  <2>2. e.queue[RunningQ] \in Seq(Node) /\ RunningQ \in QueueId
    BY <1>3, StateFields, QueueIds
  <2>3. NoDuplicate(e.queue)
    BY <1>3 DEF Between
  <2> DEFINE q == e.queue[RunningQ]
  <2>4. /\ \A i, j \in 1 .. Len(q) : q[i] = q[j] => i = j
        /\ \A i \in 1 .. Len(q) : q[i] = IdleTask => Len(q) = 1
    BY <2>1, <2>2, <2>3 DEF NoDuplicate, IdleAlone
  <2> HIDE DEF e
  <2>5. Queue_Rotate(q) \in Seq(Node)
    BY <2>1, <2>2, <2>4, RotateReorders DEF e
  <2> QED
    BY <1>3, <2>2, <2>5 DEF KernelState
<1>6. r = Dispatch(f)
  BY DEF ScheduleNext
<1>7. Alike(c, d, {})
  BY <1>1, ReadyToRunningAlike
<1>8. Alike(d, e, {})
  BY <1>2, CheckRunningTaskAlike
<1> HIDE DEF c, d, e
<1>9. Alike(e, f, {})
  BY <1>3, RunningAlike
<1> HIDE DEF f
<1>10. Alike(f, r, {})
  BY <1>5, <1>6, DispatchAlike
<1> HIDE DEF r
<1>11. Alike(c, r, {})
  BY <1>7, <1>8, <1>9, <1>10, AlikeTrans
<1>12. IdsOK(r) /\ Grows(c, r, Node)
  BY <1>1, <1>11, AlikeIds
<1>13. Grows(s, r, Node)
  BY <1>1, <1>4, <1>12, GrowsTrans
<1>14. Kept(s, r, {})
  BY <1>1, <1>11 DEF Alike, Kept
<1> QED
  BY <1>12, <1>13, <1>14 DEF r

LEMMA ScheduleIds ==
    ASSUME NEW s, Between(s), SlicesHeld(s), IdsOK(s)
    PROVE  LET r == Schedule(s)
           IN  IdsOK(r) /\ Grows(s, r, Node) /\ Kept(s, r, {})
<1> DEFINE d == RunningToReady(s)
           r == Schedule(s)
<1>1. Between(d) /\ SlicesLeft(d) /\ s \in KernelState /\ d \in KernelState
  BY RunningToReadyBetween DEF Between
<1>2. r \in KernelState
  BY ScheduleSettled DEF Settled, Between
<1>3. Alike(s, d, {})
  <2>1. Alike(s, s, {})
    BY DEF Alike, Kept
  <2>2. CASE d = [s EXCEPT !.queue = MoveFront(@, RunningQ, ReadyQ, 1)]
    <3>1. /\ d.queue = MoveFront(s.queue, RunningQ, ReadyQ, 1)
          /\ d.pid = s.pid /\ d.task = s.task
      BY <1>1, <2>2 DEF KernelState
    <3> QED
      BY <1>1, <3>1, MoveAlike, QueueIds, Objects
  <2> QED
    BY <2>1, <2>2 DEF RunningToReady
<1>4. r = ScheduleNext(d)
  BY DEF Schedule
<1> HIDE DEF d, r
<1>5. IdsOK(d) /\ Grows(s, d, Node)
  BY <1>1, <1>3, AlikeIds
<1>6. IdsOK(r) /\ Grows(d, r, Node) /\ Kept(d, r, {})
  BY <1>1, <1>4, <1>5, ScheduleNextIds
<1>7. Grows(s, r, Node) /\ Kept(s, r, {})
  BY <1>1, <1>2, <1>3, <1>5, <1>6, GrowsTrans DEF Alike, Kept
<1> QED
  BY <1>6, <1>7 DEF r

-----------------------------------------------------------------------------
(* Waiting, waking, ending and registering *)

LEMMA WaitEventIds ==
    ASSUME NEW s, Settled(s), s.cur # IdleTask, s.heap # 0, NEW wq \in WaitQ,
           wq \in Node => s.task[wq].id # 0, IdsOK(s)
    PROVE  LET r == WaitEvent(s, wq)
           IN  IdsOK(r) /\ Grows(s, r, Node) /\ Kept(s, r, {wq})
<1> DEFINE q == s.queue[RunningQ]
           blocked == [s.task[s.cur] EXCEPT !.event = wq]
           b == [s EXCEPT !.heap = @ - 1, !.task = SetTask(s, s.cur, blocked)]
           m == MoveFront(s.queue, RunningQ, wq, 1)
           d == RunningToWaitting(b, wq)
           r == WaitEvent(s, wq)
<1>1. /\ Between(s) /\ SlicesHeld(s) /\ q # << >> /\ s.cur = q[1]
      /\ s \in KernelState
  BY HeldSlices DEF Settled, Between
<1>2. /\ s.task \in [Node -> TaskRecord] /\ s.queue \in Queues
      /\ RunningQ \in QueueId \ {FreeQ} /\ wq \in QueueId \ {FreeQ, RunningQ}
      /\ s.cur \in Node /\ s.heap \in Nat
  BY <1>1, StateFields, QueueIds
<1>3. blocked \in TaskRecord /\ blocked.id = s.task[s.cur].id
      /\ blocked.total = s.task[s.cur].total
  BY <1>2 DEF TaskRecord
<1>4. /\ b.queue = s.queue /\ b.task = SetTask(s, s.cur, blocked)
      /\ b.heap = s.heap - 1 /\ b.pid = s.pid
  BY <1>1 DEF KernelState
<1>5. s.heap - 1 \in Nat
  BY <1>2
<1> HIDE DEF blocked
<1>6. /\ b.task \in [Node -> TaskRecord] /\ b.task[s.cur] = blocked
      /\ \A u \in Node \ {s.cur} : b.task[u] = s.task[u]
  BY <1>1, <1>2, <1>3, <1>4, SetTaskType
<1>7. b \in KernelState
  BY <1>1, <1>4, <1>5, <1>6 DEF KernelState
<1> HIDE DEF b
<1>8. d = [b EXCEPT !.queue = m]
  BY <1>1, <1>4, <1>7, FrontFacts DEF RunningToWaitting, KernelState
<1>9. m \in Queues
  BY <1>1, <1>2, FrontFacts, MoveElements
<1> HIDE DEF m, d
<1>10. d \in KernelState /\ d.queue = m /\ d.task = b.task /\ d.pid = s.pid
  BY <1>4, <1>7, <1>8, <1>9 DEF KernelState, Queues
<1>11. \A t \in Node : d.task[t].id = s.task[t].id /\ d.task[t].total = s.task[t].total
  BY <1>3, <1>6, <1>10
<1>12. Between(d) /\ IsMove(d.queue, s.queue, RunningQ, wq, 1)
  BY <1>1, <1>2, <1>10, <1>11, FrontFacts, MoveBetween DEF m
<1>13. \A i \in 2 .. Len(q) : d.task[q[i]] = s.task[q[i]]
  BY <1>1, <1>6, <1>10, FrontFacts
<1>14. SlicesLeft(d)
  BY <1>1, <1>2, <1>10, <1>12, <1>13, FrontLeaves
<1>15. Alike(s, d, {wq})
  <2>1. d.queue = MoveFront(s.queue, RunningQ, wq, 1)
    BY <1>10 DEF m
  <2>2. RunningQ \in ObjectQ => RunningQ \in {wq}
    BY Objects
  <2>3. wq \in ObjectQ => wq \in {wq}
    OBVIOUS
  <2>4. \A t \in Node : d.task[t].id = s.task[t].id
    BY <1>11
  <2>5. /\ s \in KernelState /\ d.pid = s.pid
        /\ RunningQ \in QueueId \ {FreeQ} /\ wq \in QueueId \ {FreeQ}
    BY <1>1, <1>2, <1>10
  <2> QED
    BY <2>1, <2>2, <2>3, <2>4, <2>5, MoveAlike
<1>16. IdsOK(d) /\ Grows(s, d, Node)
  BY <1>1, <1>15, AlikeIds
<1>17. r = ScheduleNext(d)
  BY DEF WaitEvent, d, b, blocked
<1> HIDE DEF r
<1>6a. /\ IdsOK(r) /\ Grows(d, r, Node) /\ Kept(d, r, {}) /\ r \in KernelState
  BY <1>12, <1>14, <1>16, <1>17, ScheduleNextIds, ScheduleNextSettled
     DEF Settled, Between
<1>19. Grows(s, r, Node) /\ Kept(s, r, {wq})
  BY <1>1, <1>10, <1>15, <1>16, <1>6a, GrowsTrans DEF Alike, Kept
<1> QED
  BY <1>6a, <1>19 DEF r

\* Waking changes no ids, and of the queues only the one that is emptied.
LEMMA WaittingToReadyAlike ==
    ASSUME NEW s, Between(s), NEW wq \in WaitQ
    PROVE  Alike(s, WaittingToReady(s, wq), {wq})
<1> DEFINE r == WaittingToReady(s, wq)
<1>1. s \in KernelState
  BY DEF Between
<1>2. \A t \in Node : r.task[t].id = s.task[t].id
  BY WaittingToReadyBetween
<1>3. r.pid = s.pid /\ r.queue = MoveFront(s.queue, wq, ReadyQ, Len(s.queue[wq]))
  BY <1>1 DEF WaittingToReady, KernelState
<1> HIDE DEF r
<1>4. Alike(s, r, {wq})
  BY <1>1, <1>2, <1>3, MoveAlike, QueueIds, Objects
<1> QED
  BY <1>4 DEF r

LEMMA WaittingToReadySettled ==
    ASSUME NEW s, Settled(s), NEW wq \in WaitQ
    PROVE  Settled(WaittingToReady(s, wq))
<1> DEFINE r == WaittingToReady(s, wq)
<1>1. /\ Between(s) /\ IdleAlone(s.queue) /\ s.queue[RunningQ] # << >>
      /\ s.cur = s.queue[RunningQ][1] /\ s \in KernelState
  BY DEF Settled, Between
<1>2. /\ Between(r) /\ r.queue[RunningQ] = s.queue[RunningQ] /\ r.cur = s.cur
      /\ \A t \in Node : /\ r.task[t].total = s.task[t].total
                         /\ r.task[t].current = s.task[t].current
  BY <1>1, WaittingToReadyBetween
<1>3. IdleFirst(r.queue)
  BY <1>2 DEF Between
<1> HIDE DEF r
<1>4. \A i \in 1 .. Len(s.queue[RunningQ]) : s.queue[RunningQ][i] \in Node
  BY <1>1, StateFields, QueueIds
<1>5. IdleAlone(r.queue)
  BY <1>1, <1>2, <1>3 DEF IdleAlone, IdleFirst
<1>6. Settled(r)
  BY <1>1, <1>2, <1>4, <1>5 DEF Settled
<1> QED
  BY <1>6 DEF r

\* The task that ends loses its id, unless its TCB is at once that of another one.
LEMMA KillTaskIds ==
    ASSUME NEW s, Settled(s), s.cur # IdleTask, NEW ebx \in Ebx, IdsOK(s)
    PROVE  LET r == KillTask(s, ebx)
           IN  /\ IdsOK(r) /\ Grows(s, r, Node \ {s.cur}) /\ Kept(s, r, {})
               /\ r.task[s.cur].id = 0 \/ s.pid <= r.task[s.cur].id
<1> DEFINE t == Head(s.queue[RunningQ])
           n == WaittingToReady(s, t)
           freed == [n.task[t] EXCEPT !.id = 0, !.ebx = ebx]
           m == MoveFront(n.queue, RunningQ, FreeQ, 1)
           d == [n EXCEPT !.queue = m, !.task = SetTask(n, t, freed)]
           r == KillTask(s, ebx)
<1>1. /\ Between(s) /\ SlicesHeld(s) /\ s.queue[RunningQ] # << >>
      /\ s.cur = s.queue[RunningQ][1]
  BY HeldSlices DEF Settled
<1>2. t = s.cur /\ t = s.queue[RunningQ][1] /\ t \in Node \ {IdleTask}
  BY <1>1, FrontFacts
<1> HIDE DEF t
<1>3. /\ Between(n) /\ n.queue[RunningQ] = s.queue[RunningQ] /\ n.queue[t] = << >>
      /\ \A u \in Node : /\ n.task[u].total = s.task[u].total
                          /\ n.task[u].current = s.task[u].current
  BY <1>1, <1>2, WaittingToReadyBetween, QueueIds
<1>4. Alike(s, n, {})
  <2>1. Alike(s, n, {t}) /\ t \notin ObjectQ
    BY <1>1, <1>2, WaittingToReadyAlike, QueueIds, Objects
  <2> QED
    BY <2>1 DEF Alike, Kept
<1> HIDE DEF n
<1>5. n \in KernelState /\ s \in KernelState
  BY <1>1, <1>3 DEF Between
<1>6. SlicesHeld(n)
  <2>1. \A i \in 1 .. Len(s.queue[RunningQ]) : s.queue[RunningQ][i] \in Node
    BY <1>5, StateFields, QueueIds
  <2>2. QED BY <1>1, <1>3, <2>1 DEF SlicesHeld
<1>7. freed \in TaskRecord /\ freed.id = 0
  <2>1. n.task[t] \in TaskRecord
    BY <1>2, <1>5, StateFields
  <2>2. QED BY <2>1 DEF TaskRecord
<1> HIDE DEF freed
<1>8. /\ SetTask(n, t, freed) \in [Node -> TaskRecord]
      /\ SetTask(n, t, freed)[t] = freed
      /\ \A u \in Node \ {t} : SetTask(n, t, freed)[u] = n.task[u]
  BY <1>2, <1>5, <1>7, SetTaskType
<1>9. m \in Queues /\ IsMove(m, n.queue, RunningQ, FreeQ, 1)
  BY <1>1, <1>3, <1>5, FrontFacts, StateFields, QueueIds, MoveElements
<1>10. /\ d.queue = m /\ d.task = SetTask(n, t, freed) /\ d \in KernelState
       /\ d.pid = n.pid
  <2> HIDE DEF m
  <2>1. QED BY <1>5, <1>8, <1>9 DEF KernelState, Queues
<1>11. r = Schedule(d)
  BY DEF KillTask, d, n, t, freed
<1> HIDE DEF d, r, m
<1>12. Between(d) /\ SlicesLeft(d)
  BY <1>1, <1>2, <1>3, <1>6, <1>7, <1>10, FreeFrontBetween DEF m
<1>13. IdsOK(n) /\ Grows(s, n, Node)
  BY <1>4, <1>5, AlikeIds
<1>14. /\ d.task[t].id = 0
       /\ \A u \in Node \ {t} : d.task[u].id = n.task[u].id
  BY <1>2, <1>7, <1>8, <1>10
<1>15. IdsOK(d)
  <2>1. d.pid > 0 /\ \A u \in Node : d.task[u].id < d.pid
    BY <1>10, <1>13, <1>14 DEF IdsOK
  <2>2. \A u, v \in Node : d.task[u].id = d.task[v].id /\ d.task[u].id # 0 => u = v
    BY <1>13, <1>14 DEF IdsOK
  <2>3. d.task[IdleTask].id = 0
    BY <1>2, <1>13, <1>14 DEF IdsOK, Node
  <2> DEFINE old == n.queue[FreeQ]
             new == d.queue[FreeQ]
  <2>4. /\ old \in Seq(Node) /\ Len(old) \in Nat
        /\ Len(new) = Len(old) + 1
        /\ \A i \in 1 .. Len(new) : new[i] = IF i <= Len(old) THEN old[i]
                                             ELSE n.queue[RunningQ][i - Len(old)]
    BY <1>5, <1>9, <1>10, StateFields, QueueIds DEF IsMove
  <2>5. ASSUME NEW u \in TaskNode, d.task[u].id = 0
        PROVE  \E i \in 1 .. Len(new) : new[i] = u
    <3> HIDE DEF old, new
    <3>1. CASE u = t
      <4>1. /\ Len(old) + 1 \in 1 .. Len(new) /\ ~(Len(old) + 1 <= Len(old))
            /\ Len(old) + 1 - Len(old) = 1
        BY <2>4
      <4> QED
        BY <1>2, <1>3, <2>4, <3>1, <4>1
    <3>2. CASE u # t
      <4>1. n.task[u].id = 0
        BY <1>14, <2>5, <3>2 DEF Node
      <4>2. PICK i \in 1 .. Len(old) : old[i] = u
        BY <1>13, <4>1 DEF IdsOK, old
      <4> QED
        BY <2>4, <4>2
    <3> QED
      BY <3>1, <3>2
  <2> QED
    BY <2>1, <2>2, <2>3, <2>5 DEF IdsOK
<1>16. Kept(s, d, {})
  <2>1. \A w \in ObjectQ : w \in QueueId \ {FreeQ, RunningQ}
    BY Objects DEF QueueId, WaitQ
  <2> QED
    BY <1>4, <1>9, <1>10, <2>1 DEF Alike, Kept, IsMove
<1>17. Grows(s, d, Node \ {t})
  BY <1>4, <1>5, <1>10, <1>14, Ids DEF Grows, Alike
<1>6a. /\ IdsOK(r) /\ Grows(d, r, Node) /\ Kept(d, r, {}) /\ r \in KernelState
  BY <1>11, <1>12, <1>15, HeldSlices, ScheduleIds, ScheduleSettled
     DEF Settled, Between
<1>19. Grows(s, r, Node \ {t})
  BY <1>5, <1>10, <1>17, <1>6a, GrowsTrans
<1>20. r.task[t].id = 0 \/ s.pid <= r.task[t].id
  BY <1>2, <1>4, <1>10, <1>14, <1>6a DEF Grows, Alike
<1>21. Kept(s, r, {})
  BY <1>16, <1>6a DEF Kept
<1> QED
  BY <1>2, <1>6a, <1>19, <1>20, <1>21 DEF r

LEMMA AppInfoToRunIds ==
    ASSUME NEW s, Settled(s), IdsOK(s), NEW name \in Name \union {NoName},
           NEW pri \in Priority \union {MainPri}
    PROVE  LET r == AppInfoToRun(s, name, pri)
           IN  IdsOK(r) /\ Grows(s, r, Node) /\ Kept(s, r, {})
<1> DEFINE r == AppInfoToRun(s, name, pri)
<1>1. s \in KernelState
  BY DEF Settled, Between
<1>2. r.queue = s.queue /\ r.task = s.task
  BY <1>1, AppInfoToRunState
<1>3. r.pid = s.pid
  BY <1>1 DEF AppInfoToRun, KernelState
<1> HIDE DEF r
<1>4. Alike(s, r, {})
  BY <1>2, <1>3 DEF Alike, Kept
<1>5. IdsOK(r) /\ Grows(s, r, Node) /\ Kept(s, r, {})
  BY <1>1, <1>4, AlikeIds DEF Alike
<1> QED
  BY <1>5 DEF r

LEMMA WaitTaskIds ==
    ASSUME NEW s, Settled(s), s.cur # IdleTask, NEW name, IdsOK(s)
    PROVE  LET r == WaitTask(s, name)
           IN  IdsOK(r) /\ Grows(s, r, Node) /\ Kept(s, r, {})
<1> DEFINE t == FindTaskByName(s, name)
           r == WaitTask(s, name)
<1>1. s \in KernelState
  BY DEF Settled, Between
<1>2. CASE r = s
  BY <1>1, <1>2, Ids DEF Grows, Kept
<1>3. CASE r = WaitEvent(s, t) /\ t # NULL /\ s.heap # 0
  <2>1. t \in Node /\ s.task[t].id # 0
    BY <1>1, <1>3, FoundIsLive
  <2> HIDE DEF t
  <2>2. t \in WaitQ /\ t \notin ObjectQ
    BY <2>1, QueueIds, Objects
  <2>3. IdsOK(r) /\ Grows(s, r, Node) /\ Kept(s, r, {t})
    BY <1>3, <2>1, <2>2, WaitEventIds
  <2> QED
    BY <2>2, <2>3 DEF Kept
<1> QED
  BY <1>2, <1>3 DEF WaitTask

-----------------------------------------------------------------------------
(* The scheduler by itself *)

LEMMA InitIds == TaskInit => IdsOK(kern) /\ \A w \in ObjectQ : kern.queue[w] = << >>
<1> DEFINE a == AppInfoToRun(BootState, MainName, MainPri)
           c == CreateTask(a)
           d == ReadyToRunning(a)
           e == CheckRunningTask(d)
<1>1. SUFFICES ASSUME TaskInit
               PROVE  IdsOK(kern) /\ \A w \in ObjectQ : kern.queue[w] = << >>
  OBVIOUS
<1>2. BootState \in KernelState /\ Between(BootState)
  BY BootBetween DEF Between
<1>3. MainName \in Name \union {NoName} /\ MainPri \in Priority \union {MainPri}
  BY NameAssumption
<1>4. a \in KernelState /\ a.queue = BootState.queue /\ a.task = BootState.task
  BY <1>2, <1>3, AppInfoToRunState
<1>5. a.pid = PID_BASE
  BY DEF AppInfoToRun, BootState
<1>6. /\ \A t \in Node : a.task[t].id = 0
      /\ a.queue[FreeQ] = [i \in TaskNode |-> i]
  <2>1. \A t \in Node : BootState.task[t].id = 0
    BY DEF BootState
  <2>2. BootState.queue[FreeQ] = [i \in TaskNode |-> i]
    BY QueueIds DEF BootState
  <2> HIDE DEF a
  <2> QED
    BY <1>4, <2>1, <2>2
<1>6a. \A w \in ObjectQ : a.queue[w] = << >>
  <2>1. \A w \in ObjectQ : w \in QueueId /\ w # FreeQ
    BY Objects DEF QueueId, WaitQ
  <2> HIDE DEF a
  <2> QED
    BY <1>4, <2>1 DEF BootState
<1> HIDE DEF a
<1>7. IdsOK(a)
  <2>1. Len(a.queue[FreeQ]) = MAX_TASK_NUM
    BY <1>6, SizeAssumption DEF TaskNode
  <2>2. \A t \in TaskNode :
           \E i \in 1 .. Len(a.queue[FreeQ]) : a.queue[FreeQ][i] = t
    BY <1>6, <2>1 DEF TaskNode
  <2> QED
    BY <1>5, <1>6, <2>2, SizeAssumption DEF IdsOK, Node
<1>8. Between(a) /\ SlicesLeft(a)
  <2>1. a.queue[RunningQ] = << >>
    BY <1>4, BootBetween
  <2>2. 1 .. Len(a.queue[RunningQ]) = {}
    BY <2>1
  <2> QED
    BY <1>2, <1>4, <2>2, SameQueues DEF SlicesLeft
<1>9. c \in KernelState /\ IdsOK(c) /\ Kept(a, c, {})
  BY <1>7, <1>8, CreateTaskBetween, CreateTaskIds DEF Between
<1>10. Between(d) /\ SlicesLeft(d) /\ d \in KernelState
  BY <1>8, ReadyToRunningBetween DEF Between
<1>11. e \in KernelState
  BY <1>10, CheckRunningTaskBetween DEF Between
<1>12. IdsOK(d)
  BY <1>9, ReadyToRunningAlike, AlikeIds
<1>13. IdsOK(e)
  BY <1>10, <1>12, CheckRunningTaskAlike, AlikeIds
<1>14. IdsOK(Dispatch(e))
  BY <1>11, <1>13, DispatchAlike, AlikeIds
<1>15. kern = Dispatch(e)
  BY <1>1 DEF TaskInit, TaskModInit, LaunchTask, e, d, a
<1>16. Alike(c, d, {}) /\ Alike(d, e, {}) /\ Alike(e, Dispatch(e), {})
  BY <1>9, <1>10, <1>11, ReadyToRunningAlike, CheckRunningTaskAlike, DispatchAlike
<1> HIDE DEF c, d, e
<1>17. \A w \in ObjectQ : kern.queue[w] = << >>
  BY <1>6a, <1>9, <1>15, <1>16 DEF Alike, Kept
<1> QED
  BY <1>14, <1>15, <1>17

\* What a step of the scheduler by itself does with ids and queues; when it ends a
\* task, that is the current one.
LEMMA StepIds ==
    ASSUME TaskInv, IdsOK(kern), [TaskNext]_taskVars
    PROVE  /\ IdsOK(kern') /\ Kept(kern, kern', {})
           /\ Grows(kern, kern', Node \ {kern.cur})
           /\ \/ Grows(kern, kern', Node)
              \/ kern'.task[kern.cur].id = 0 \/ kern.pid <= kern'.task[kern.cur].id
<1> USE DEF Grows
<1>1. Settled(kern) /\ kern \in KernelState
  BY DEF TaskInv, Settled, Between
<1>2. CASE UNCHANGED kern
  BY <1>1, <1>2, Ids DEF Kept
<1>3. ASSUME NEW ebx \in Ebx, kern' = KillTask(kern, ebx), kern.cur # IdleTask
      PROVE  /\ IdsOK(kern') /\ Kept(kern, kern', {})
             /\ Grows(kern, kern', Node \ {kern.cur})
             /\ kern'.task[kern.cur].id = 0 \/ kern.pid <= kern'.task[kern.cur].id
  BY <1>1, <1>3, KillTaskIds
<1>4. ASSUME NEW name, kern' = WaitTask(kern, name), kern.cur # IdleTask
      PROVE  IdsOK(kern') /\ Kept(kern, kern', {}) /\ Grows(kern, kern', Node)
  BY <1>1, <1>4, WaitTaskIds
<1>5. ASSUME NEW name \in Name \union {NoName}, NEW pri \in Priority \union {MainPri},
             kern' = AppInfoToRun(kern, name, pri)
      PROVE  IdsOK(kern') /\ Kept(kern, kern', {}) /\ Grows(kern, kern', Node)
  BY <1>1, <1>5, AppInfoToRunIds
<1>6. CASE kern' = Schedule(kern)
  BY <1>1, <1>6, HeldSlices, ScheduleIds DEF Settled
<1>7. CASE TimerHandler
  BY <1>2, <1>6, <1>7 DEF TimerHandler
<1>8. CASE Exit
  BY <1>3, <1>8, NameAssumption DEF Exit, UserMode
<1>9. CASE \E name \in Name \union {IdleName} : Wait(name)
  BY <1>4, <1>9 DEF Wait, UserMode
<1>10. CASE \E name \in Name, pri \in Priority : RegApp(name, pri)
  BY <1>5, <1>10 DEF RegApp
<1>11. CASE TaskEntryEnd
  <2>1. kern.cur # IdleTask
    BY <1>11 DEF TaskEntryEnd, UserMode
  <2>2. \/ kern' = KillTask(kern, 0)
        \/ \E name \in Name : kern' = WaitTask(kern, name)
        \/ \E name \in Name \union {NoName}, pri \in Priority :
              kern' = AppInfoToRun(kern, name, pri)
        \/ UNCHANGED kern
    BY <1>11 DEF TaskEntryEnd
  <2> QED
    BY <1>2, <1>3, <1>4, <1>5, <2>1, <2>2, NameAssumption
<1>12. CASE Fault
  BY <1>3, <1>12 DEF Fault
<1>13. CASE UNCHANGED taskVars
  BY <1>2, <1>13 DEF taskVars
<1> QED
  BY <1>7, <1>8, <1>9, <1>10, <1>11, <1>12, <1>13 DEF TaskNext

\* Ids identify tasks, although TCBs are used again and again: a TCB is free exactly
\* while its id is 0, and no two live tasks have the same id.
THEOREM IdsUnique == TaskSpec => []IdsIdentify
<1>1. TaskInit => TaskInv /\ IdsOK(kern)
  BY InitInv, InitIds
<1>2. TaskInv /\ IdsOK(kern) /\ [TaskNext]_taskVars => TaskInv' /\ IdsOK(kern)'
  BY NextInv, StepIds
<1>3. TaskInv /\ IdsOK(kern) => IdsIdentify
  <2>1. SUFFICES ASSUME TaskInv, IdsOK(kern) PROVE IdsIdentify
    OBVIOUS
  <2>2. kern \in KernelState /\ FreeIsUnused(kern)
    BY <2>1 DEF TaskInv, Settled, Between
  <2>3. \A t \in TaskNode : kern.task[t].id = 0 <=> t \in Members(kern.queue[FreeQ])
    BY <2>1, <2>2 DEF IdsOK, FreeIsUnused, Members
  <2> QED
    BY <2>1, <2>3 DEF IdsOK, IdsIdentify, Node
<1> QED
  BY <1>1, <1>2, <1>3, PTL DEF TaskSpec
-----------------------------------------------------------------------------
(* Events *)

\* A TCB is in a wait queue exactly while its event names the queue. Nobody can
\* wait for the idle task, which has no id.
EventsOK(s) ==
    /\ \A w \in WaitQ : \A i \in 1 .. Len(s.queue[w]) : s.task[s.queue[w][i]].event = w
    /\ \A t \in Node : s.task[t].event # NULL =>
         \E i \in 1 .. Len(s.queue[s.task[t].event]) : s.queue[s.task[t].event][i] = t
    /\ s.queue[IdleTask] = << >>

SameWaits(s, r) ==
    /\ \A t \in Node : r.task[t].event = s.task[t].event
    /\ \A w \in WaitQ : r.queue[w] = s.queue[w]

LEMMA SameWaitsTrans ==
    ASSUME NEW s, NEW r, NEW u, SameWaits(s, r), SameWaits(r, u)
    PROVE  SameWaits(s, u)
BY DEF SameWaits

LEMMA SameWaitsKeep ==
    ASSUME NEW s \in KernelState, NEW r, SameWaits(s, r), EventsOK(s)
    PROVE  EventsOK(r)
<1>1. /\ \A t \in Node : s.task[t].event \in WaitQ \union {NULL}
      /\ \A w \in WaitQ : s.queue[w] \in Seq(Node)
      /\ IdleTask \in WaitQ
  BY StateFields, QueueIds DEF TaskRecord, WaitQ, Node
<1>2. ASSUME NEW w \in WaitQ, NEW i \in 1 .. Len(r.queue[w])
      PROVE  r.task[r.queue[w][i]].event = w
  <2>1. r.queue[w] = s.queue[w] /\ s.queue[w][i] \in Node
    BY <1>1, <1>2 DEF SameWaits
  <2>2. s.task[s.queue[w][i]].event = w
    BY <1>2, <2>1 DEF EventsOK
  <2> QED
    BY <2>1, <2>2 DEF SameWaits
<1>3. ASSUME NEW t \in Node, r.task[t].event # NULL
      PROVE  \E i \in 1 .. Len(r.queue[r.task[t].event]) : r.queue[r.task[t].event][i] = t
  <2>1. r.task[t].event = s.task[t].event /\ s.task[t].event \in WaitQ
    BY <1>1, <1>3 DEF SameWaits
  <2>2. r.queue[s.task[t].event] = s.queue[s.task[t].event]
    BY <2>1 DEF SameWaits
  <2> QED
    BY <1>3, <2>1, <2>2 DEF EventsOK
<1>4. r.queue[IdleTask] = << >>
  BY <1>1 DEF SameWaits, EventsOK
<1> QED
  BY <1>2, <1>3, <1>4 DEF EventsOK

\* A TCB that is free, ready or running has no event.
LEMMA NotWaiting ==
    ASSUME NEW s, Between(s), EventsOK(s), NEW a \in {FreeQ, ReadyQ, RunningQ},
           NEW i \in 1 .. Len(s.queue[a])
    PROVE  s.queue[a][i] \in Node /\ s.task[s.queue[a][i]].event = NULL
<1> DEFINE t == s.queue[a][i]
<1>1. s \in KernelState /\ NoDuplicate(s.queue)
  BY DEF Between
<1>2. a \in QueueId /\ \A w \in WaitQ : w \in QueueId /\ w # a
  BY QueueIds
<1>3. t \in Node
  BY <1>1, <1>2, StateFields
<1>4. s.task[t].event \in WaitQ \union {NULL}
  BY <1>1, <1>3, StateFields DEF TaskRecord
<1>5. ASSUME s.task[t].event # NULL PROVE FALSE
  <2> DEFINE w == s.task[t].event
  <2>1. w \in WaitQ
    BY <1>4, <1>5
  <2>2. PICK j \in 1 .. Len(s.queue[w]) : s.queue[w][j] = t
    BY <1>3, <1>5 DEF EventsOK
  <2>3. a = w
    BY <1>1, <1>2, <2>1, <2>2 DEF NoDuplicate
  <2> QED
    BY <1>2, <2>1, <2>3
<1> QED
  BY <1>3, <1>5

\* A move between queues in which nobody waits.
LEMMA MoveWaits ==
    ASSUME NEW s \in KernelState, NEW r,
           NEW from \in QueueId \ WaitQ, NEW to \in QueueId \ WaitQ, NEW n,
           r.queue = MoveFront(s.queue, from, to, n),
           \A t \in Node : r.task[t].event = s.task[t].event
    PROVE  SameWaits(s, r)
<1>1. s.queue \in [QueueId -> Seq(Node)]
  BY DEF KernelState
<1>2. \A w \in WaitQ : w \in QueueId \ {from, to}
  BY QueueIds
<1>3. \A w \in WaitQ : r.queue[w] = s.queue[w]
  BY <1>1, <1>2 DEF MoveFront
<1> QED
  BY <1>3 DEF SameWaits

LEMMA NoWaitQ ==
    /\ FreeQ \in QueueId \ WaitQ /\ ReadyQ \in QueueId \ WaitQ
    /\ RunningQ \in QueueId \ WaitQ
BY QueueIds

LEMMA CreateTaskWaits ==
    ASSUME NEW s, Between(s), EventsOK(s)
    PROVE  SameWaits(s, CreateTask(s))
<1> DEFINE n == Creatable(s)
           free == s.queue[FreeQ]
           made == Members(SubSeq(s.queue[FreeQ], 1, n))
           c == CreateTask(s)
<1>1. s \in KernelState /\ FreeIsUnused(s)
  BY DEF Between
<1>2. /\ free \in Seq(Node) /\ n \in 0 .. Len(free) /\ Len(free) \in Nat
  BY <1>1, StateFields, CreatableBounds, QueueIds
<1>3. made = {free[i] : i \in 1 .. n}
  BY <1>2, PrefixMembers
<1>4. \A t \in Node : c.task[t].event = IF t \in made THEN NULL ELSE s.task[t].event
  BY <1>1 DEF CreateTask, KernelState, InitTask
<1>5. c.queue = MoveFront(s.queue, FreeQ, ReadyQ, n)
  BY <1>1, CreateTaskQueue
<1> HIDE DEF n, made, c
<1>6. ASSUME NEW i \in 1 .. n PROVE s.task[free[i]].event = NULL
  <2>1. i \in 1 .. Len(free)
    BY <1>2
  <2> QED
    BY <2>1, NotWaiting
<1>7. \A t \in Node : c.task[t].event = s.task[t].event
  BY <1>3, <1>4, <1>6
<1>8. SameWaits(s, c)
  BY <1>1, <1>5, <1>7, NoWaitQ, MoveWaits
<1> QED
  BY <1>8 DEF c

LEMMA ReadyToRunningWaits ==
    ASSUME NEW s, CreateTask(s) \in KernelState
    PROVE  SameWaits(CreateTask(s), ReadyToRunning(s))
<1> DEFINE c == CreateTask(s)
           n == Smaller(Len(c.queue[ReadyQ]),
                        Monus(MAX_RUNNING_TASK, Len(c.queue[RunningQ])))
           moved == Members(SubSeq(c.queue[ReadyQ], 1, n))
           task == [t \in Node |-> IF t \in moved
                                   THEN [c.task[t] EXCEPT !.current = 0]
                                   ELSE c.task[t]]
           r == ReadyToRunning(s)
<1>1. r = [c EXCEPT !.task = task, !.queue = MoveFront(@, ReadyQ, RunningQ, n)]
  BY DEF ReadyToRunning
<1> HIDE DEF c, n, moved
<1>2. c \in KernelState /\ c.task \in [Node -> TaskRecord]
  BY StateFields DEF c
<1>3. \A t \in Node : task[t].event = c.task[t].event
  BY <1>2 DEF TaskRecord
<1> HIDE DEF task, r
<1>4. r.queue = MoveFront(c.queue, ReadyQ, RunningQ, n) /\ r.task = task
  BY <1>1, <1>2 DEF KernelState
<1>5. SameWaits(c, r)
  BY <1>2, <1>3, <1>4, NoWaitQ, MoveWaits
<1> QED
  BY <1>5 DEF c, r

LEMMA RunningWaits ==
    ASSUME NEW s \in KernelState, NEW v
    PROVE  SameWaits(s, [s EXCEPT !.queue[RunningQ] = v])
<1> DEFINE r == [s EXCEPT !.queue[RunningQ] = v]
<1>1. r.task = s.task /\ r.queue = [s.queue EXCEPT ![RunningQ] = v]
  BY DEF KernelState
<1>2. s.queue \in [QueueId -> Seq(Node)]
  BY DEF KernelState
<1>3. \A w \in WaitQ : r.queue[w] = s.queue[w]
  BY <1>1, <1>2, QueueIds
<1> HIDE DEF r
<1>4. SameWaits(s, r)
  BY <1>1, <1>3 DEF SameWaits
<1> QED
  BY <1>4 DEF r

LEMMA CheckRunningTaskWaits ==
    ASSUME NEW s \in KernelState
    PROVE  SameWaits(s, CheckRunningTask(s))
<1>1. SameWaits(s, s)
  BY DEF SameWaits
<1> QED
  BY <1>1, RunningWaits DEF CheckRunningTask

LEMMA DispatchWaits ==
    ASSUME NEW s \in KernelState
    PROVE  SameWaits(s, Dispatch(s))
<1> DEFINE t == Head(s.queue[RunningQ])
           new == [s.task[t] EXCEPT !.current = (@ + 1) % USHORT]
           r == Dispatch(s)
<1>1. r = [s EXCEPT !.cur = t, !.task = SetTask(s, t, new)]
  BY DEF Dispatch
<1>2. s.task \in [Node -> TaskRecord]
  BY StateFields
<1>3. ASSUME NEW u \in Node PROVE SetTask(s, t, new)[u].event = s.task[u].event
  <2>1. CASE u = t
    <3>1. SetTask(s, t, new)[u] = new /\ s.task[t] \in TaskRecord
      BY <1>2, <2>1 DEF SetTask
    <3>2. new.event = s.task[t].event
      BY <3>1 DEF TaskRecord
    <3> QED
      BY <2>1, <3>1, <3>2, Zenon
  <2>2. CASE u # t
    BY <2>2 DEF SetTask
  <2> QED
    BY <2>1, <2>2, Zenon
<1> HIDE DEF t, new, r
<1>4. r.queue = s.queue /\ r.task = SetTask(s, t, new)
  BY <1>1 DEF KernelState
<1> QED
  BY <1>3, <1>4 DEF SameWaits, r

LEMMA ScheduleNextEvents ==
    ASSUME NEW s, Between(s), SlicesLeft(s), EventsOK(s)
    PROVE  EventsOK(ScheduleNext(s)) /\ SameWaits(s, ScheduleNext(s))
<1> DEFINE c == CreateTask(s)
           d == ReadyToRunning(s)
           e == CheckRunningTask(d)
           q == e.queue[RunningQ]
           f == [e EXCEPT !.queue[RunningQ] = Queue_Rotate(@)]
           r == ScheduleNext(s)
<1>1. c \in KernelState /\ s \in KernelState
  BY CreateTaskBetween DEF Between
<1>2. Between(d) /\ SlicesLeft(d) /\ d \in KernelState
  BY ReadyToRunningBetween DEF Between
<1>3. /\ Between(e) /\ e \in KernelState /\ IdleAlone(e.queue) /\ q # << >>
      /\ NoDuplicate(e.queue)
  BY <1>2, CheckRunningTaskBetween DEF Between
<1>4. f \in KernelState
  <2>1. q \in Seq(Node) /\ RunningQ \in QueueId
    BY <1>3, StateFields, QueueIds
  <2>2. /\ \A i, j \in 1 .. Len(q) : q[i] = q[j] => i = j
        /\ \A i \in 1 .. Len(q) : q[i] = IdleTask => Len(q) = 1
    BY <1>3, <2>1 DEF NoDuplicate, IdleAlone
  <2> HIDE DEF e
  <2>3. Queue_Rotate(q) \in Seq(Node)
    BY <1>3, <2>1, <2>2, RotateReorders
  <2> QED
    BY <1>3, <2>1, <2>3 DEF KernelState
<1>5. r = Dispatch(f)
  BY DEF ScheduleNext
<1>6. SameWaits(s, c) /\ SameWaits(c, d)
  BY <1>1, CreateTaskWaits, ReadyToRunningWaits
<1>7. SameWaits(d, e)
  BY <1>2, CheckRunningTaskWaits
<1> HIDE DEF c, d, e
<1>8. SameWaits(e, f)
  BY <1>3, RunningWaits
<1> HIDE DEF f
<1>9. SameWaits(f, r)
  BY <1>4, <1>5, DispatchWaits
<1> HIDE DEF r
<1>10. SameWaits(s, r)
  BY <1>6, <1>7, <1>8, <1>9, SameWaitsTrans
<1>11. EventsOK(r)
  BY <1>1, <1>10, SameWaitsKeep
<1> QED
  BY <1>10, <1>11 DEF r

LEMMA ScheduleEvents ==
    ASSUME NEW s, Between(s), SlicesHeld(s), EventsOK(s)
    PROVE  EventsOK(Schedule(s)) /\ SameWaits(s, Schedule(s))
<1> DEFINE d == RunningToReady(s)
<1>1. Between(d) /\ SlicesLeft(d) /\ s \in KernelState
  BY RunningToReadyBetween DEF Between
<1>2. SameWaits(s, d)
  <2>1. SameWaits(s, s)
    BY DEF SameWaits
  <2>2. CASE d = [s EXCEPT !.queue = MoveFront(@, RunningQ, ReadyQ, 1)]
    <3>1. d.queue = MoveFront(s.queue, RunningQ, ReadyQ, 1) /\ d.task = s.task
      BY <1>1, <2>2 DEF KernelState
    <3> QED
      BY <1>1, <3>1, NoWaitQ, MoveWaits
  <2> QED
    BY <2>1, <2>2 DEF RunningToReady
<1>3. Schedule(s) = ScheduleNext(d)
  BY DEF Schedule
<1> HIDE DEF d
<1>4. EventsOK(d)
  BY <1>1, <1>2, SameWaitsKeep
<1> QED
  BY <1>1, <1>2, <1>3, <1>4, ScheduleNextEvents, SameWaitsTrans

\* The task that blocks is last in the queue that its event names.
LEMMA BlockedEvents ==
    ASSUME NEW s, Between(s), EventsOK(s), s.queue[RunningQ] # << >>,
           NEW t, t = s.queue[RunningQ][1], NEW wq \in WaitQ, wq # IdleTask, NEW d,
           d.queue = MoveFront(s.queue, RunningQ, wq, 1),
           d.task[t].event = wq,
           \A u \in Node \ {t} : d.task[u].event = s.task[u].event
    PROVE  EventsOK(d)
<1> DEFINE q == s.queue
           l == Len(q[wq])
<1>1. /\ s \in KernelState /\ q \in Queues /\ t \in Node
      /\ RunningQ \in QueueId /\ wq \in QueueId /\ RunningQ # wq
      /\ 1 \in 0 .. Len(q[RunningQ]) /\ 1 \in 1 .. Len(q[RunningQ])
  BY StateFields, QueueIds, FrontFacts DEF Between
<1>2. IsMove(d.queue, q, RunningQ, wq, 1)
  BY <1>1, MoveElements
<1>3. s.task[t].event = NULL
  BY <1>1, NotWaiting
<1>4. /\ l \in Nat
      /\ \A w \in WaitQ : q[w] \in Seq(Node) /\ w \in QueueId /\ w # RunningQ
      /\ \A u \in Node : s.task[u].event \in WaitQ \union {NULL}
      /\ NULL \notin WaitQ
  BY <1>1, StateFields, QueueIds, QueueAssumption DEF TaskRecord, QueueId
<1>5. /\ Len(d.queue[wq]) = l + 1
      /\ \A i \in 1 .. l : d.queue[wq][i] = q[wq][i]
      /\ d.queue[wq][l + 1] = t
  <2>1. \A i \in 1 .. l : i \in 1 .. l + 1 /\ i <= l
    BY <1>4
  <2>2. l + 1 \in 1 .. l + 1 /\ ~(l + 1 <= l) /\ (l + 1) - l = 1
    BY <1>4
  <2>3. /\ Len(d.queue[wq]) = l + 1
        /\ \A i \in 1 .. Len(d.queue[wq]) :
             d.queue[wq][i] = IF i <= l THEN q[wq][i] ELSE q[RunningQ][i - l]
    BY <1>2 DEF IsMove
  <2> DEFINE new == d.queue[wq]
             old == q[wq]
             running == q[RunningQ]
  <2> HIDE DEF l, q
  <2>4. \A i \in 1 .. l + 1 : new[i] = IF i <= l THEN old[i] ELSE running[i - l]
    BY <2>3
  <2>5. t = running[1]
    BY DEF q
  <2> HIDE DEF new, old, running
  <2>6. \A i \in 1 .. l : new[i] = old[i]
    BY <2>1, <2>4
  <2>7. new[l + 1] = running[1]
    BY <2>2, <2>4
  <2> QED
    BY <2>3, <2>5, <2>6, <2>7 DEF new, old
<1>6. \A w \in WaitQ \ {wq} : d.queue[w] = q[w]
  BY <1>2, <1>4 DEF IsMove
<1>7. ASSUME NEW w \in WaitQ, NEW i \in 1 .. Len(q[w])
      PROVE  q[w][i] \in Node \ {t} /\ d.task[q[w][i]].event = w
  <2>1. q[w][i] \in Node /\ s.task[q[w][i]].event = w
    BY <1>4, <1>7 DEF EventsOK
  <2> QED
    BY <1>3, <1>4, <2>1
<1>8. ASSUME NEW w \in WaitQ, NEW i \in 1 .. Len(d.queue[w])
      PROVE  d.task[d.queue[w][i]].event = w
  <2>1. CASE w # wq
    BY <1>6, <1>7, <1>8, <2>1
  <2>2. CASE w = wq
    <3>1. i \in 1 .. l \/ i = l + 1
      BY <1>4, <1>5, <1>8, <2>2
    <3> QED
      BY <1>5, <1>7, <2>2, <3>1
  <2> QED
    BY <2>1, <2>2
<1>9. ASSUME NEW u \in Node, d.task[u].event # NULL
      PROVE  \E i \in 1 .. Len(d.queue[d.task[u].event]) : d.queue[d.task[u].event][i] = u
  <2>1. CASE u = t
    <3>1. l + 1 \in 1 .. l + 1
      BY <1>4
    <3> QED
      BY <1>5, <2>1, <3>1
  <2>2. CASE u # t
    <3>1. /\ d.task[u].event = s.task[u].event /\ s.task[u].event \in WaitQ
      BY <1>4, <1>9, <2>2
    <3>2. PICK i \in 1 .. Len(q[s.task[u].event]) : q[s.task[u].event][i] = u
      BY <1>9, <3>1 DEF EventsOK
    <3>3. CASE s.task[u].event = wq
      <4>1. i \in 1 .. l + 1
        BY <1>4, <3>2, <3>3
      <4> QED
        BY <1>5, <3>1, <3>2, <3>3, <4>1
    <3>4. CASE s.task[u].event # wq
      BY <1>6, <3>1, <3>2, <3>4
    <3> QED
      BY <3>3, <3>4
  <2> QED
    BY <2>1, <2>2
<1>10. d.queue[IdleTask] = << >>
  BY <1>6, QueueIds DEF EventsOK, Node
<1> QED
  BY <1>8, <1>9, <1>10 DEF EventsOK

\* WaitEvent reschedules from a state d in which the current task is in wq.
Blocked(s, d, wq) ==
    /\ Between(d) /\ SlicesLeft(d)
    /\ d.queue = MoveFront(s.queue, RunningQ, wq, 1)
    /\ d.task[s.cur].event = wq
    /\ \A u \in Node \ {s.cur} : d.task[u].event = s.task[u].event
    /\ d.heap = s.heap - 1 /\ d.app = s.app

LEMMA WaitEventState ==
    ASSUME NEW s, Settled(s), s.cur # IdleTask, s.heap # 0, NEW wq \in WaitQ,
           wq \in Node => s.task[wq].id # 0
    PROVE  \E d : Blocked(s, d, wq) /\ WaitEvent(s, wq) = ScheduleNext(d)
<1> DEFINE q == s.queue[RunningQ]
           blocked == [s.task[s.cur] EXCEPT !.event = wq]
           b == [s EXCEPT !.heap = @ - 1, !.task = SetTask(s, s.cur, blocked)]
           m == MoveFront(s.queue, RunningQ, wq, 1)
           d == RunningToWaitting(b, wq)
<1>1. /\ Between(s) /\ SlicesHeld(s) /\ q # << >> /\ s.cur = q[1]
      /\ s \in KernelState
  BY HeldSlices DEF Settled, Between
<1>2. /\ s.task \in [Node -> TaskRecord] /\ s.queue \in Queues
      /\ RunningQ \in QueueId \ {FreeQ} /\ wq \in QueueId \ {FreeQ, RunningQ}
      /\ s.cur \in Node /\ s.heap \in Nat
  BY <1>1, StateFields, QueueIds
<1>3. blocked \in TaskRecord /\ blocked.id = s.task[s.cur].id
      /\ blocked.total = s.task[s.cur].total /\ blocked.event = wq
  BY <1>2 DEF TaskRecord
<1>4. /\ b.queue = s.queue /\ b.task = SetTask(s, s.cur, blocked)
      /\ b.heap = s.heap - 1 /\ b.app = s.app
  BY <1>1 DEF KernelState
<1>5. s.heap - 1 \in Nat
  BY <1>2
<1>6. WaitEvent(s, wq) = ScheduleNext(d)
  BY DEF WaitEvent
<1> HIDE DEF blocked
<1>7. /\ b.task \in [Node -> TaskRecord] /\ b.task[s.cur] = blocked
      /\ \A u \in Node \ {s.cur} : b.task[u] = s.task[u]
  BY <1>1, <1>2, <1>3, <1>4, SetTaskType
<1>8. b \in KernelState
  BY <1>1, <1>4, <1>5, <1>7 DEF KernelState
<1> HIDE DEF b
<1>9. d = [b EXCEPT !.queue = m]
  BY <1>1, <1>4, <1>8, FrontFacts DEF RunningToWaitting, KernelState
<1>10. m \in Queues
  BY <1>1, <1>2, FrontFacts, MoveElements
<1> HIDE DEF m, d
<1>11. /\ d \in KernelState /\ d.queue = m /\ d.task = b.task
       /\ d.heap = b.heap /\ d.app = b.app
  BY <1>4, <1>8, <1>9, <1>10 DEF KernelState, Queues
<1>12. \A t \in Node : d.task[t].id = s.task[t].id /\ d.task[t].total = s.task[t].total
  BY <1>3, <1>7, <1>11
<1>13. Between(d) /\ IsMove(d.queue, s.queue, RunningQ, wq, 1)
  BY <1>1, <1>2, <1>11, <1>12, FrontFacts, MoveBetween DEF m
<1>14. \A i \in 2 .. Len(q) : d.task[q[i]] = s.task[q[i]]
  BY <1>1, <1>7, <1>11, FrontFacts
<1>15. SlicesLeft(d)
  BY <1>1, <1>2, <1>11, <1>13, <1>14, FrontLeaves
<1>16. Blocked(s, d, wq)
  BY <1>3, <1>4, <1>7, <1>11, <1>13, <1>15 DEF Blocked, m
<1> QED
  BY <1>6, <1>16

LEMMA WaitEventEvents ==
    ASSUME NEW s, Settled(s), s.cur # IdleTask, s.heap # 0, NEW wq \in WaitQ,
           wq \in Node => s.task[wq].id # 0, wq # IdleTask, EventsOK(s)
    PROVE  EventsOK(WaitEvent(s, wq))
<1>1. PICK d : Blocked(s, d, wq) /\ WaitEvent(s, wq) = ScheduleNext(d)
  BY WaitEventState
<1>2. Between(s) /\ s.queue[RunningQ] # << >> /\ s.cur = s.queue[RunningQ][1]
  BY DEF Settled
<1>3. EventsOK(d)
  BY <1>1, <1>2, BlockedEvents DEF Blocked
<1> QED
  BY <1>1, <1>3, ScheduleNextEvents DEF Blocked

\* Whoever waits in wq is woken and has no event any more.
LEMMA WaittingToReadyEvents ==
    ASSUME NEW s, Between(s), NEW wq \in WaitQ, EventsOK(s)
    PROVE  EventsOK(WaittingToReady(s, wq))
<1> DEFINE q == s.queue
           n == Len(q[wq])
           woken == Members(q[wq])
           r == WaittingToReady(s, wq)
<1>1. s \in KernelState /\ NoDuplicate(q) /\ q \in Queues /\ s.task \in [Node -> TaskRecord]
  BY StateFields DEF Between
<1>2. /\ wq \in QueueId /\ ReadyQ \in QueueId /\ wq # ReadyQ
      /\ \A w \in WaitQ : w \in QueueId /\ w # ReadyQ /\ q[w] \in Seq(Node)
      /\ \A u \in Node : s.task[u].event \in WaitQ \union {NULL}
      /\ n \in Nat /\ n \in 0 .. n
  BY <1>1, StateFields, QueueIds DEF TaskRecord
<1>3. \A u \in Node : r.task[u].event = IF u \in woken THEN NULL ELSE s.task[u].event
  <2>1. \A u \in Node : r.task[u] = IF u \in woken THEN [s.task[u] EXCEPT !.event = NULL]
                                    ELSE s.task[u]
    BY <1>1 DEF WaittingToReady, KernelState
  <2>2. \A u \in Node : [s.task[u] EXCEPT !.event = NULL].event = NULL
    BY <1>1 DEF TaskRecord
  <2> HIDE DEF r, woken
  <2> QED
    BY <2>1, <2>2
<1>4. r.queue = MoveFront(q, wq, ReadyQ, n)
  BY <1>1 DEF WaittingToReady, KernelState
<1> HIDE DEF r
<1>5. IsMove(r.queue, q, wq, ReadyQ, n) /\ r.queue \in Queues
  BY <1>1, <1>2, <1>4, MoveElements
<1>6. Len(r.queue[wq]) = 0
  BY <1>2, <1>5 DEF IsMove
<1>7. \A w \in WaitQ \ {wq} : r.queue[w] = q[w]
  BY <1>2, <1>5 DEF IsMove
<1>8. \A u : u \in woken <=> \E i \in 1 .. n : q[wq][i] = u
  BY DEF Members
<1> HIDE DEF woken
<1>9. ASSUME NEW w \in WaitQ, NEW i \in 1 .. Len(r.queue[w])
      PROVE  r.task[r.queue[w][i]].event = w
  <2>1. w # wq
    BY <1>6, <1>9
  <2>2. i \in 1 .. Len(q[w]) /\ r.queue[w][i] = q[w][i] /\ q[w][i] \in Node
    BY <1>2, <1>7, <1>9, <2>1
  <2>3. q[w][i] \notin woken
    BY <1>1, <1>2, <1>8, <2>1, <2>2 DEF NoDuplicate
  <2>4. s.task[q[w][i]].event = w
    BY <2>2 DEF EventsOK
  <2> QED
    BY <1>3, <2>2, <2>3, <2>4
<1>10. ASSUME NEW u \in Node, r.task[u].event # NULL
       PROVE  \E i \in 1 .. Len(r.queue[r.task[u].event]) : r.queue[r.task[u].event][i] = u
  <2>1. u \notin woken /\ r.task[u].event = s.task[u].event /\ s.task[u].event \in WaitQ
    BY <1>2, <1>3, <1>10
  <2>2. PICK i \in 1 .. Len(q[s.task[u].event]) : q[s.task[u].event][i] = u
    BY <1>10, <2>1 DEF EventsOK
  <2>3. s.task[u].event # wq
    BY <1>8, <2>1, <2>2
  <2> QED
    BY <1>7, <2>1, <2>2, <2>3
<1>11. r.queue[IdleTask] = << >>
  <2>1. IdleTask \in WaitQ /\ q[IdleTask] = << >>
    BY QueueIds DEF EventsOK, Node
  <2>2. CASE wq = IdleTask
    BY <1>2, <1>5, <1>6, <2>2, EmptySeq DEF Queues
  <2>3. CASE wq # IdleTask
    BY <1>7, <2>1, <2>3
  <2> QED
    BY <2>2, <2>3
<1>12. EventsOK(r)
  BY <1>9, <1>10, <1>11 DEF EventsOK
<1> QED
  BY <1>12 DEF r

\* KillTask reschedules from a state d in which those who waited are ready, as they
\* are in n, and the current task is free.
Killed(n, d) ==
    /\ Between(d) /\ SlicesLeft(d)
    /\ d.queue = MoveFront(n.queue, RunningQ, FreeQ, 1)
    /\ \A u \in Node : d.task[u].event = n.task[u].event
    /\ d.heap = n.heap /\ d.app = n.app

LEMMA KillTaskState ==
    ASSUME NEW s, Settled(s), s.cur # IdleTask, NEW ebx \in Ebx
    PROVE  \E d : /\ Killed(WaittingToReady(s, s.cur), d)
                  /\ KillTask(s, ebx) = Schedule(d)
<1> DEFINE t == Head(s.queue[RunningQ])
           n == WaittingToReady(s, t)
           freed == [n.task[t] EXCEPT !.id = 0, !.ebx = ebx]
           m == MoveFront(n.queue, RunningQ, FreeQ, 1)
           d == [n EXCEPT !.queue = m, !.task = SetTask(n, t, freed)]
<1>1. /\ Between(s) /\ SlicesHeld(s) /\ s.queue[RunningQ] # << >>
      /\ s.cur = s.queue[RunningQ][1]
  BY HeldSlices DEF Settled
<1>2. t = s.cur /\ t = s.queue[RunningQ][1] /\ t \in Node \ {IdleTask}
  BY <1>1, FrontFacts
<1>3. KillTask(s, ebx) = Schedule(d)
  BY DEF KillTask
<1> HIDE DEF t
<1>4. /\ Between(n) /\ n.queue[RunningQ] = s.queue[RunningQ] /\ n.queue[t] = << >>
      /\ \A u \in Node : /\ n.task[u].total = s.task[u].total
                          /\ n.task[u].current = s.task[u].current
  BY <1>1, <1>2, WaittingToReadyBetween, QueueIds
<1>5. n = WaittingToReady(s, s.cur)
  BY <1>2
<1> HIDE DEF n
<1>6. n \in KernelState /\ s \in KernelState
  BY <1>1, <1>4 DEF Between
<1>7. SlicesHeld(n)
  <2>1. \A i \in 1 .. Len(s.queue[RunningQ]) : s.queue[RunningQ][i] \in Node
    BY <1>6, StateFields, QueueIds
  <2> QED
    BY <1>1, <1>4, <2>1 DEF SlicesHeld
<1>8. freed \in TaskRecord /\ freed.id = 0 /\ freed.event = n.task[t].event
  <2>1. n.task[t] \in TaskRecord
    BY <1>2, <1>6, StateFields
  <2> QED
    BY <2>1 DEF TaskRecord
<1> HIDE DEF freed
<1>9. /\ SetTask(n, t, freed) \in [Node -> TaskRecord]
      /\ SetTask(n, t, freed)[t] = freed
      /\ \A u \in Node \ {t} : SetTask(n, t, freed)[u] = n.task[u]
  BY <1>2, <1>6, <1>8, SetTaskType
<1>10. m \in Queues
  BY <1>1, <1>4, <1>6, FrontFacts, StateFields, QueueIds, MoveElements
<1>11. /\ d.queue = m /\ d.task = SetTask(n, t, freed) /\ d \in KernelState
       /\ d.heap = n.heap /\ d.app = n.app
  <2> HIDE DEF m
  <2> QED
    BY <1>6, <1>9, <1>10 DEF KernelState, Queues
<1> HIDE DEF d, m
<1>12. Between(d) /\ SlicesLeft(d)
  BY <1>1, <1>2, <1>4, <1>7, <1>8, <1>11, FreeFrontBetween DEF m
<1>13. \A u \in Node : d.task[u].event = n.task[u].event
  BY <1>2, <1>8, <1>9, <1>11
<1>14. Killed(n, d)
  BY <1>11, <1>12, <1>13 DEF Killed, m
<1> QED
  BY <1>3, <1>5, <1>14

LEMMA KillTaskEvents ==
    ASSUME NEW s, Settled(s), s.cur # IdleTask, NEW ebx \in Ebx, EventsOK(s)
    PROVE  EventsOK(KillTask(s, ebx))
<1> DEFINE n == WaittingToReady(s, s.cur)
<1>1. PICK d : Killed(n, d) /\ KillTask(s, ebx) = Schedule(d)
  BY KillTaskState
<1>2. Between(s) /\ s.cur \in WaitQ
  BY StateFields, QueueIds DEF Settled, Between
<1>3. EventsOK(n) /\ n \in KernelState
  BY <1>2, WaittingToReadyEvents, WaittingToReadyBetween DEF Between
<1> HIDE DEF n
<1>4. EventsOK(d)
  BY <1>1, <1>3, NoWaitQ, MoveWaits, SameWaitsKeep DEF Killed
<1> QED
  BY <1>1, <1>4, HeldSlices, ScheduleEvents DEF Killed

LEMMA AppInfoToRunEvents ==
    ASSUME NEW s, s \in KernelState, EventsOK(s), NEW name \in Name \union {NoName},
           NEW pri \in Priority \union {MainPri}
    PROVE  EventsOK(AppInfoToRun(s, name, pri))
<1> DEFINE r == AppInfoToRun(s, name, pri)
<1>1. r.queue = s.queue /\ r.task = s.task
  BY AppInfoToRunState
<1> HIDE DEF r
<1>2. EventsOK(r)
  BY <1>1, SameWaitsKeep DEF SameWaits
<1> QED
  BY <1>2 DEF r

LEMMA WaitTaskEvents ==
    ASSUME NEW s, Settled(s), s.cur # IdleTask, NEW name, EventsOK(s), IdsOK(s)
    PROVE  EventsOK(WaitTask(s, name))
<1> DEFINE t == FindTaskByName(s, name)
           r == WaitTask(s, name)
<1>1. s \in KernelState
  BY DEF Settled, Between
<1>2. CASE r = WaitEvent(s, t) /\ t # NULL /\ s.heap # 0
  <2>1. t \in Node /\ s.task[t].id # 0
    BY <1>1, <1>2, FoundIsLive
  <2>2. t # IdleTask
    BY <2>1 DEF IdsOK
  <2> HIDE DEF t
  <2> QED
    BY <1>2, <2>1, <2>2, QueueIds, WaitEventEvents
<1> QED
  BY <1>2 DEF WaitTask

LEMMA InitEvents == TaskInit => EventsOK(kern)
<1> DEFINE a == AppInfoToRun(BootState, MainName, MainPri)
           c == CreateTask(a)
           d == ReadyToRunning(a)
           e == CheckRunningTask(d)
<1>1. SUFFICES ASSUME TaskInit
               PROVE  EventsOK(kern)
  OBVIOUS
<1>2. BootState \in KernelState /\ Between(BootState)
  BY BootBetween DEF Between
<1>3. MainName \in Name \union {NoName} /\ MainPri \in Priority \union {MainPri}
  BY NameAssumption
<1>4. a \in KernelState /\ a.queue = BootState.queue /\ a.task = BootState.task
  BY <1>2, <1>3, AppInfoToRunState
<1>5. EventsOK(BootState)
  <2>1. \A w \in WaitQ : w \in QueueId /\ w # FreeQ
    BY QueueIds
  <2>2. \A w \in WaitQ : BootState.queue[w] = << >>
    BY <2>1 DEF BootState
  <2>3. \A t \in Node : BootState.task[t].event = NULL
    BY DEF BootState
  <2>4. IdleTask \in WaitQ
    BY QueueIds DEF Node
  <2> QED
    BY <2>2, <2>3, <2>4 DEF EventsOK
<1>6. EventsOK(a)
  BY <1>2, <1>3, <1>5, AppInfoToRunEvents
<1> HIDE DEF a
<1>7. Between(a) /\ SlicesLeft(a)
  <2>1. a.queue[RunningQ] = << >>
    BY <1>4, BootBetween
  <2>2. 1 .. Len(a.queue[RunningQ]) = {}
    BY <2>1
  <2> QED
    BY <1>2, <1>4, <2>2, SameQueues DEF SlicesLeft
<1>8. c \in KernelState
  BY <1>7, CreateTaskBetween DEF Between
<1>9. Between(d) /\ SlicesLeft(d) /\ d \in KernelState
  BY <1>7, ReadyToRunningBetween DEF Between
<1>10. e \in KernelState
  BY <1>9, CheckRunningTaskBetween DEF Between
<1>11. SameWaits(a, c) /\ SameWaits(c, d) /\ SameWaits(d, e) /\ SameWaits(e, Dispatch(e))
  BY <1>6, <1>7, <1>8, <1>9, <1>10, CreateTaskWaits, ReadyToRunningWaits,
     CheckRunningTaskWaits, DispatchWaits
<1>12. kern = Dispatch(e)
  BY <1>1 DEF TaskInit, TaskModInit, LaunchTask, e, d, a
<1> HIDE DEF c, d, e
<1>13. SameWaits(a, kern)
  BY <1>11, <1>12, SameWaitsTrans
<1> QED
  BY <1>4, <1>6, <1>13, SameWaitsKeep

LEMMA StepEvents ==
    ASSUME TaskInv, IdsOK(kern), EventsOK(kern), [TaskNext]_taskVars
    PROVE  EventsOK(kern')
<1>1. Settled(kern) /\ kern \in KernelState
  BY DEF TaskInv, Settled, Between
<1>2. ASSUME NEW ebx \in Ebx, kern' = KillTask(kern, ebx), kern.cur # IdleTask
      PROVE  EventsOK(kern')
  BY <1>1, <1>2, KillTaskEvents
<1>3. ASSUME NEW name, kern' = WaitTask(kern, name), kern.cur # IdleTask
      PROVE  EventsOK(kern')
  BY <1>1, <1>3, WaitTaskEvents
<1>4. ASSUME NEW name \in Name \union {NoName}, NEW pri \in Priority \union {MainPri},
             kern' = AppInfoToRun(kern, name, pri)
      PROVE  EventsOK(kern')
  BY <1>1, <1>4, AppInfoToRunEvents
<1>5. CASE UNCHANGED kern
  BY <1>5
<1>6. CASE kern' = Schedule(kern)
  BY <1>1, <1>6, HeldSlices, ScheduleEvents DEF Settled
<1>7. CASE TimerHandler
  BY <1>5, <1>6, <1>7 DEF TimerHandler
<1>8. CASE Exit
  BY <1>2, <1>8, NameAssumption DEF Exit, UserMode
<1>9. CASE \E name \in Name \union {IdleName} : Wait(name)
  BY <1>3, <1>9 DEF Wait, UserMode
<1>10. CASE \E name \in Name, pri \in Priority : RegApp(name, pri)
  BY <1>4, <1>10 DEF RegApp
<1>11. CASE TaskEntryEnd
  <2>1. kern.cur # IdleTask
    BY <1>11 DEF TaskEntryEnd, UserMode
  <2>2. \/ kern' = KillTask(kern, 0)
        \/ \E name \in Name : kern' = WaitTask(kern, name)
        \/ \E name \in Name \union {NoName}, pri \in Priority :
              kern' = AppInfoToRun(kern, name, pri)
        \/ UNCHANGED kern
    BY <1>11 DEF TaskEntryEnd
  <2> QED
    BY <1>2, <1>3, <1>4, <1>5, <2>1, <2>2, NameAssumption
<1>12. CASE Fault
  BY <1>2, <1>12 DEF Fault
<1>13. CASE UNCHANGED taskVars
  BY <1>5, <1>13 DEF taskVars
<1> QED
  BY <1>7, <1>8, <1>9, <1>10, <1>11, <1>12, <1>13 DEF TaskNext

\* A task is in a wait queue exactly while its event names it, and whoever waits for
\* a task is woken before its TCB is used again (task.c:217-230, 404-417).
THEOREM EventsNameQueues == TaskSpec => []WaitersHaveEvent
<1> DEFINE I == TaskInv /\ IdsOK(kern) /\ EventsOK(kern)
<1>1. TaskInit => I
  BY InitInv, InitIds, InitEvents
<1>2. I /\ [TaskNext]_taskVars => I'
  BY NextInv, StepIds, StepEvents
<1>3. I => WaitersHaveEvent
  <2>1. SUFFICES ASSUME TaskInv, IdsOK(kern), EventsOK(kern) PROVE WaitersHaveEvent
    OBVIOUS
  <2>2. kern \in KernelState /\ FreeIsUnused(kern)
    BY <2>1 DEF TaskInv, Settled, Between
  <2>3. NULL \notin WaitQ
    BY QueueAssumption DEF QueueId
  <2>4. ASSUME NEW t \in TaskNode, NEW w \in WaitQ
        PROVE  t \in Members(kern.queue[w]) <=> kern.task[t].event = w
    <3>1. t \in Members(kern.queue[w]) => kern.task[t].event = w
      BY <2>1 DEF EventsOK, Members
    <3>2. kern.task[t].event = w => t \in Members(kern.queue[w])
      BY <2>1, <2>3 DEF EventsOK, Members, Node
    <3> QED
      BY <3>1, <3>2
  <2>5. ASSUME NEW t \in Node, kern.task[t].id = 0
        PROVE  kern.queue[t] = << >>
    <3>1. CASE t = IdleTask
      BY <2>1, <3>1 DEF EventsOK
    <3>2. CASE t \in TaskNode
      BY <2>1, <2>2, <2>5, <3>2 DEF IdsOK, FreeIsUnused
    <3> QED
      BY <3>1, <3>2 DEF Node
  <2> QED
    BY <2>4, <2>5 DEF WaitersHaveEvent
<1> QED
  BY <1>1, <1>2, <1>3, PTL DEF TaskSpec
-----------------------------------------------------------------------------
(* The stages of tasks *)

\* The nodes in T have moved from one queue to another.
Shifted(q, r, from, to, T) ==
    /\ T \subseteq Members(q[from])
    /\ Members(r[from]) = Members(q[from]) \ T
    /\ Members(r[to]) = Members(q[to]) \union T
    /\ \A a \in QueueId \ {from, to} : Members(r[a]) = Members(q[a])

\* No node is a member of two queues.
Disjoint(q) ==
    \A a, b \in QueueId : \A t : t \in Members(q[a]) /\ t \in Members(q[b]) => a = b

\* TaskLifecycle!StageOf in a state of the scheduler.
StageIn(s, t) ==
    IF t \in Members(s.queue[FreeQ]) THEN "free"
    ELSE IF t \in Members(s.queue[ReadyQ]) THEN "ready"
    ELSE IF t \in Members(s.queue[RunningQ]) THEN "running"
    ELSE "waiting"

Stages(s) == [t \in TaskNode |-> StageIn(s, t)]

LEMMA QueuesDisjoint ==
    ASSUME NEW q, NoDuplicate(q)
    PROVE  Disjoint(q)
BY DEF NoDuplicate, Disjoint, Members

LEMMA StageMeans ==
    ASSUME NEW s, Disjoint(s.queue), NEW t
    PROVE  /\ StageIn(s, t) = "free"    <=> t \in Members(s.queue[FreeQ])
           /\ StageIn(s, t) = "ready"   <=> t \in Members(s.queue[ReadyQ])
           /\ StageIn(s, t) = "running" <=> t \in Members(s.queue[RunningQ])
           /\ StageIn(s, t) \in {"free", "ready", "running", "waiting"}
<1>1. ~(t \in Members(s.queue[FreeQ]) /\ t \in Members(s.queue[ReadyQ]))
  BY QueueIds DEF Disjoint
<1>2. ~(t \in Members(s.queue[FreeQ]) /\ t \in Members(s.queue[RunningQ]))
  BY QueueIds DEF Disjoint
<1>3. ~(t \in Members(s.queue[ReadyQ]) /\ t \in Members(s.queue[RunningQ]))
  BY QueueIds DEF Disjoint
<1> QED
  BY <1>1, <1>2, <1>3 DEF StageIn

LEMMA MoveShifts ==
    ASSUME NEW q \in Queues, NEW from \in QueueId, NEW to \in QueueId, from # to,
           NEW n \in 0 .. Len(q[from]), NoDuplicate(q),
           NEW r, r = MoveFront(q, from, to, n)
    PROVE  Shifted(q, r, from, to, {q[from][i] : i \in 1 .. n})
<1> DEFINE T == {q[from][i] : i \in 1 .. n}
           l == Len(q[from])
           k == Len(q[to])
<1>1. IsMove(r, q, from, to, n) /\ l \in Nat /\ k \in Nat /\ n \in 0 .. l
  BY MoveElements, LenProperties DEF Queues
<1>2. \A i, j \in 1 .. l : q[from][i] = q[from][j] => i = j
  BY DEF NoDuplicate
<1>3. /\ Len(r[from]) = l - n
      /\ \A i \in 1 .. l - n : r[from][i] = q[from][n + i]
      /\ Len(r[to]) = k + n
      /\ \A i \in 1 .. k + n : r[to][i] = IF i <= k THEN q[to][i] ELSE q[from][i - k]
      /\ \A a \in QueueId \ {from, to} : r[a] = q[a]
  BY <1>1 DEF IsMove
<1>4. /\ \A x : x \in Members(q[from]) <=> \E i \in 1 .. l : q[from][i] = x
      /\ \A x : x \in Members(q[to]) <=> \E i \in 1 .. k : q[to][i] = x
      /\ \A x : x \in Members(r[from]) <=> \E i \in 1 .. l - n : r[from][i] = x
      /\ \A x : x \in Members(r[to]) <=> \E i \in 1 .. k + n : r[to][i] = x
      /\ \A x : x \in T <=> \E i \in 1 .. n : q[from][i] = x
  BY <1>3 DEF Members
<1> HIDE DEF l, k, T
<1>5. T \subseteq Members(q[from])
  BY <1>1, <1>4
<1>6. ASSUME NEW x
      PROVE  x \in Members(r[from]) <=> x \in Members(q[from]) /\ x \notin T
  <2>1. ASSUME NEW i \in 1 .. l - n, r[from][i] = x
        PROVE  x \in Members(q[from]) /\ x \notin T
    <3>1. n + i \in 1 .. l /\ q[from][n + i] = x /\ n + i \notin 1 .. n
      BY <1>1, <1>3, <2>1
    <3>2. \A j \in 1 .. n : j \in 1 .. l
      BY <1>1
    <3> QED
      BY <1>2, <1>4, <3>1, <3>2
  <2>2. ASSUME NEW j \in 1 .. l, q[from][j] = x, x \notin T
        PROVE  x \in Members(r[from])
    <3>1. j \notin 1 .. n
      BY <1>4, <2>2
    <3>2. j - n \in 1 .. l - n /\ n + (j - n) = j
      BY <1>1, <3>1
    <3>3. r[from][j - n] = q[from][n + (j - n)]
      BY <1>3, <3>2
    <3> QED
      BY <1>4, <2>2, <3>2, <3>3
  <2> QED
    BY <1>4, <2>1, <2>2
<1>7. ASSUME NEW x
      PROVE  x \in Members(r[to]) <=> x \in Members(q[to]) \/ x \in T
  <2>1. ASSUME NEW i \in 1 .. k + n, r[to][i] = x
        PROVE  x \in Members(q[to]) \/ x \in T
    <3>1. CASE i <= k
      BY <1>1, <1>3, <1>4, <2>1, <3>1
    <3>2. CASE ~(i <= k)
      <4>1. i - k \in 1 .. n /\ q[from][i - k] = x
        BY <1>1, <1>3, <2>1, <3>2
      <4> QED
        BY <1>4, <4>1
    <3> QED
      BY <3>1, <3>2
  <2>2. ASSUME NEW j \in 1 .. k, q[to][j] = x
        PROVE  x \in Members(r[to])
    <3>1. j \in 1 .. k + n /\ j <= k
      BY <1>1
    <3> QED
      BY <1>3, <1>4, <2>2, <3>1
  <2>3. ASSUME NEW j \in 1 .. n, q[from][j] = x
        PROVE  x \in Members(r[to])
    <3>1. k + j \in 1 .. k + n /\ ~(k + j <= k) /\ (k + j) - k = j
      BY <1>1
    <3>2. r[to][k + j] = q[from][(k + j) - k]
      BY <1>3, <3>1
    <3> QED
      BY <1>4, <2>3, <3>1, <3>2
  <2> QED
    BY <1>4, <2>1, <2>2, <2>3
<1>8. /\ Members(r[from]) = Members(q[from]) \ T
      /\ Members(r[to]) = Members(q[to]) \union T
  BY <1>6, <1>7
<1> QED
  BY <1>3, <1>5, <1>8 DEF Shifted, T

\* The same tasks are in each queue.
SameTasks(s, r) ==
    \A a \in QueueId : \A t \in TaskNode :
        t \in Members(r.queue[a]) <=> t \in Members(s.queue[a])

LEMMA SameTasksTrans ==
    ASSUME NEW s, NEW r, NEW u, SameTasks(s, r), SameTasks(r, u)
    PROVE  SameTasks(s, u)
BY DEF SameTasks

LEMMA RunningTasks ==
    ASSUME NEW s \in KernelState, NEW v,
           \A t \in TaskNode : t \in Members(v) <=> t \in Members(s.queue[RunningQ])
    PROVE  SameTasks(s, [s EXCEPT !.queue[RunningQ] = v])
<1> DEFINE r == [s EXCEPT !.queue[RunningQ] = v]
<1>1. /\ r.queue = [s.queue EXCEPT ![RunningQ] = v]
      /\ s.queue \in [QueueId -> Seq(Node)] /\ RunningQ \in QueueId
  BY QueueIds DEF KernelState
<1> HIDE DEF r
<1>2. r.queue[RunningQ] = v /\ \A a \in QueueId \ {RunningQ} : r.queue[a] = s.queue[a]
  BY <1>1
<1>3. SameTasks(s, r)
  BY <1>2 DEF SameTasks
<1> QED
  BY <1>3 DEF r

\* The idle task may come or go, no other does.
LEMMA CheckRunningTaskTasks ==
    ASSUME NEW s \in KernelState
    PROVE  SameTasks(s, CheckRunningTask(s))
<1> DEFINE q == s.queue[RunningQ]
<1>1. q \in Seq(Node) /\ Len(q) \in Nat
  BY StateFields, QueueIds
<1>2. \A t \in TaskNode : t # IdleTask
  BY SizeAssumption DEF TaskNode, IdleTask
<1>3. CASE q = << >>
  <2>1. \A t \in TaskNode : t \notin Members(<< IdleTask >>) /\ t \notin Members(q)
    BY <1>2, <1>3 DEF Members
  <2> QED
    BY <1>3, <2>1, RunningTasks DEF CheckRunningTask
<1>4. CASE q # << >> /\ Len(q) > 1 /\ Head(q) = IdleTask
  <2> DEFINE v == Tail(q)
             l == Len(q)
  <2>1. Len(v) = l - 1 /\ (\A i \in 1 .. l - 1 : v[i] = q[i + 1]) /\ q[1] = IdleTask
    BY <1>1, <1>4
  <2>2. /\ \A t : t \in Members(v) <=> \E i \in 1 .. l - 1 : v[i] = t
        /\ \A t : t \in Members(q) <=> \E i \in 1 .. l : q[i] = t
    BY <2>1 DEF Members
  <2> HIDE DEF v, l
  <2>3. l \in Nat
    BY <1>1 DEF l
  <2>4. ASSUME NEW t \in TaskNode
        PROVE  t \in Members(v) <=> t \in Members(q)
    <3>1. ASSUME NEW i \in 1 .. l - 1, v[i] = t PROVE t \in Members(q)
      <4>1. i + 1 \in 1 .. l /\ q[i + 1] = t
        BY <2>1, <2>3, <3>1
      <4> QED
        BY <2>2, <4>1
    <3>2. ASSUME NEW i \in 1 .. l, q[i] = t PROVE t \in Members(v)
      <4>1. i # 1
        BY <1>2, <2>1, <3>2
      <4>2. i - 1 \in 1 .. l - 1 /\ (i - 1) + 1 = i
        BY <2>3, <4>1
      <4>3. v[i - 1] = q[(i - 1) + 1]
        BY <2>1, <4>2
      <4> QED
        BY <2>2, <3>2, <4>2, <4>3
    <3> QED
      BY <2>2, <3>1, <3>2
  <2>5. CheckRunningTask(s) = [s EXCEPT !.queue[RunningQ] = v]
    BY <1>4 DEF CheckRunningTask, v
  <2> QED
    BY <2>4, <2>5, RunningTasks
<1>5. CASE q # << >> /\ ~(Len(q) > 1 /\ Head(q) = IdleTask)
  BY <1>5 DEF CheckRunningTask, SameTasks
<1> QED
  BY <1>3, <1>4, <1>5

LEMMA ReordersTasks ==
    ASSUME NEW v, NEW q, Reorders(v, q), NEW t \in TaskNode
    PROVE  t \in Members(v) <=> t \in Members(q)
<1>1. t # IdleTask
  BY SizeAssumption DEF TaskNode, IdleTask
<1> QED
  BY <1>1 DEF Reorders, Members

\* After ReadyToRunning, nothing moves any more.
LEMMA ScheduleNextTasks ==
    ASSUME NEW s, Between(s), SlicesLeft(s)
    PROVE  SameTasks(ReadyToRunning(s), ScheduleNext(s))
<1> DEFINE d == ReadyToRunning(s)
           e == CheckRunningTask(d)
           q == e.queue[RunningQ]
           v == Queue_Rotate(q)
           f == [e EXCEPT !.queue[RunningQ] = v]
           r == ScheduleNext(s)
<1>1. Between(d) /\ SlicesLeft(d) /\ d \in KernelState
  BY ReadyToRunningBetween DEF Between
<1>2. /\ e \in KernelState /\ IdleAlone(e.queue) /\ q # << >> /\ NoDuplicate(e.queue)
  BY <1>1, CheckRunningTaskBetween DEF Between
<1>3. SameTasks(d, e)
  BY <1>1, CheckRunningTaskTasks
<1> HIDE DEF d, e
<1>4. q \in Seq(Node) /\ RunningQ \in QueueId
  BY <1>2, StateFields, QueueIds
<1>5. /\ \A i, j \in 1 .. Len(q) : q[i] = q[j] => i = j
      /\ \A i \in 1 .. Len(q) : q[i] = IdleTask => Len(q) = 1
  BY <1>2, <1>4 DEF NoDuplicate, IdleAlone
<1>6. Reorders(v, q) /\ v \in Seq(Node)
  BY <1>2, <1>4, <1>5, RotateReorders
<1> HIDE DEF v
<1>7. \A t \in TaskNode : t \in Members(v) <=> t \in Members(q)
  BY <1>6, ReordersTasks
<1>8. SameTasks(e, f) /\ f \in KernelState
  BY <1>2, <1>4, <1>6, <1>7, RunningTasks DEF KernelState
<1>9. r = Dispatch(f)
  BY DEF ScheduleNext, v, q, e, d
<1> HIDE DEF f, r
<1>10. r.queue = f.queue
  BY <1>8, <1>9 DEF Dispatch, KernelState
<1>11. SameTasks(f, r)
  BY <1>10 DEF SameTasks
<1>12. SameTasks(d, r)
  BY <1>3, <1>8, <1>11, SameTasksTrans
<1> QED
  BY <1>12 DEF d, r

\* CreateTask takes the nodes in T from the free queue, and ReadyToRunning those in U
\* from the ready queue; if it leaves one there, a task is running.
LEMMA ReadyToRunningShifts ==
    ASSUME NEW s, Between(s), MAX_RUNNING_TASK >= 2
    PROVE  LET c == CreateTask(s)
               d == ReadyToRunning(s)
           IN  /\ \E T : Shifted(s.queue, c.queue, FreeQ, ReadyQ, T)
               /\ \E U : Shifted(c.queue, d.queue, ReadyQ, RunningQ, U)
               /\ \/ Members(d.queue[ReadyQ]) = {}
                  \/ \E t \in TaskNode : t \in Members(d.queue[RunningQ])
<1> DEFINE c == CreateTask(s)
           d == ReadyToRunning(s)
           ready == c.queue[ReadyQ]
           running == c.queue[RunningQ]
           n == Smaller(Len(ready), Monus(MAX_RUNNING_TASK, Len(running)))
<1>1. s \in KernelState /\ FreeIsUnused(s) /\ NoDuplicate(s.queue)
  BY DEF Between
<1>2. c.queue = MoveFront(s.queue, FreeQ, ReadyQ, Creatable(s))
  BY <1>1, CreateTaskQueue
<1>3. Between(c)
  BY CreateTaskBetween
<1>4. \E T : Shifted(s.queue, c.queue, FreeQ, ReadyQ, T)
  <2>1. Creatable(s) \in 0 .. Len(s.queue[FreeQ]) /\ s.queue \in Queues
    BY <1>1, CreatableBounds, StateFields
  <2> QED
    BY <1>1, <1>2, <2>1, QueueIds, MoveShifts
<1>5. d.queue = MoveFront(c.queue, ReadyQ, RunningQ, n)
  BY <1>3 DEF ReadyToRunning, KernelState, Between
<1> HIDE DEF c, d
<1>6. /\ c \in KernelState /\ c.queue \in Queues /\ NoDuplicate(c.queue)
      /\ IdleFirst(c.queue)
      /\ ready \in Seq(Node) /\ running \in Seq(Node)
      /\ Len(ready) \in Nat /\ Len(running) \in Nat
  BY <1>3, StateFields, QueueIds DEF Between
<1> DEFINE l == Len(ready)
           k == Len(running)
<1>7. /\ n \in 0 .. l /\ l \in Nat
      /\ n = l \/ k >= 2 \/ n >= 1
  <2>1. l \in Nat /\ k \in Nat /\ MAX_RUNNING_TASK \in Nat
    BY <1>6, SizeAssumption
  <2> HIDE DEF l, k
  <2>2. \A a, b, m \in Nat : m >= 2 =>
           LET z == Smaller(a, Monus(m, b)) IN z \in 0 .. a /\ (z = a \/ b >= 2 \/ z >= 1)
    BY DEF Smaller, Monus
  <2>3. n = Smaller(l, Monus(MAX_RUNNING_TASK, k))
    BY DEF n, l, k
  <2> HIDE DEF n
  <2> QED
    BY <2>1, <2>2, <2>3
<1> HIDE DEF n
<1>8. Shifted(c.queue, d.queue, ReadyQ, RunningQ, {ready[i] : i \in 1 .. n})
  BY <1>5, <1>6, <1>7, QueueIds, MoveShifts
<1>9. \A a \in QueueId : \A i \in 1 .. Len(c.queue[a]) :
         c.queue[a][i] \in TaskNode \/ (a = RunningQ /\ i = 1)
  BY <1>6, StateFields DEF IdleFirst, Node
<1>10. CASE n = l
  <2>1. Members(d.queue[ReadyQ]) = Members(ready) \ {ready[i] : i \in 1 .. n}
    BY <1>8 DEF Shifted
  <2>2. Members(d.queue[ReadyQ]) = {}
    BY <1>10, <2>1 DEF Members
  <2> QED
    BY <1>4, <1>8, <2>2 DEF c, d
<1>11. CASE k >= 2
  <2>1. 2 \in 1 .. Len(running) /\ 2 # 1
    BY <1>6, <1>11
  <2>2. running[2] \in TaskNode
    BY <1>9, <2>1, QueueIds
  <2>3. running[2] \in Members(running)
    BY <2>1 DEF Members
  <2>4. running[2] \in Members(d.queue[RunningQ])
    BY <1>8, <2>3 DEF Shifted
  <2> QED
    BY <1>4, <1>8, <2>2, <2>4 DEF c, d
<1>12. CASE n >= 1
  <2>1. 1 \in 1 .. n /\ 1 \in 1 .. Len(ready)
    BY <1>7, <1>12
  <2>2. ready[1] \in TaskNode
    BY <1>9, <2>1, QueueIds
  <2>3. ready[1] \in {ready[i] : i \in 1 .. n}
    BY <2>1
  <2>4. ready[1] \in Members(d.queue[RunningQ])
    BY <1>8, <2>3 DEF Shifted
  <2> QED
    BY <1>4, <1>8, <2>2, <2>4 DEF c, d
<1> QED
  BY <1>7, <1>10, <1>11, <1>12

InStage(st, x) == {t \in TaskNode : st[t] = x}

\* Lifecycle!Rescheduled, of a state of the scheduler.
Reschedules(st, r) ==
    /\ Stages(r) \in [TaskNode -> {"free", "ready", "running", "waiting"}]
    /\ \A t \in TaskNode :
          << st[t], Stages(r)[t] >> \in {<< "free", "ready" >>,
                << "free", "running" >>, << "ready", "running" >>}
             \/ Stages(r)[t] = st[t]
    /\ Cardinality(InStage(Stages(r), "running")) <= MAX_RUNNING_TASK
    /\ IF InStage(Stages(r), "running") = {}
       THEN r.cur = IdleTask /\ InStage(Stages(r), "ready") = {}
       ELSE r.cur \in InStage(Stages(r), "running")

\* No more tasks are running than the queue is long.
LEMMA RunningCount ==
    ASSUME NEW r, Between(r)
    PROVE  Cardinality(InStage(Stages(r), "running")) <= MAX_RUNNING_TASK
<1> DEFINE q == r.queue[RunningQ]
           S == InStage(Stages(r), "running")
           M == Members(q)
<1>1. /\ r \in KernelState /\ Disjoint(r.queue) /\ q \in Seq(Node) /\ Len(q) \in Nat
      /\ Len(q) <= MAX_RUNNING_TASK /\ MAX_RUNNING_TASK \in Nat
  BY QueuesDisjoint, StateFields, QueueIds, SizeAssumption DEF Between
<1>2. S \subseteq M
  BY <1>1, StageMeans DEF InStage, Stages
<1>3. M \subseteq Node
  BY <1>1 DEF Members
<1>4. ExistsSurjection(1 .. Len(q), M)
  <2> DEFINE f == [i \in 1 .. Len(q) |-> q[i]]
  <2>1. f \in Surjection(1 .. Len(q), M)
    BY DEF Surjection, Members
  <2> QED
    BY <2>1 DEF ExistsSurjection
<1> HIDE DEF S, M
<1>5. Cardinality(M) <= Len(q)
  BY <1>1, <1>4, FS_SurjCardinalityBound
<1>6. IsFiniteSet(M)
  BY <1>3, NodesFinite, FS_Subset
<1>7. Cardinality(S) <= Cardinality(M)
  BY <1>2, <1>6, FS_Subset
<1>8. Cardinality(S) \in Nat /\ Cardinality(M) \in Nat
  BY <1>2, <1>3, NodesFinite
<1> DEFINE k == Len(q)
<1> HIDE DEF q
<1>9. \A a, b, c, e \in Nat : a <= b /\ b <= c /\ c <= e => a <= e
  OBVIOUS
<1> QED
  BY <1>1, <1>5, <1>7, <1>8, <1>9 DEF S

\* ScheduleNext creates tasks, lets ready ones run and gives the processor to one
\* that runs; the stage of no other task changes.
LEMMA ScheduleNextLife ==
    ASSUME NEW s, Between(s), SlicesLeft(s), MAX_RUNNING_TASK >= 2
    PROVE  Reschedules(Stages(s), ScheduleNext(s))
<1> DEFINE c == CreateTask(s)
           d == ReadyToRunning(s)
           r == ScheduleNext(s)
<1>1. SameTasks(d, r) /\ Settled(r) /\ Between(r) /\ IdleAlone(r.queue)
  BY ScheduleNextTasks, ScheduleNextSettled DEF Settled
<1>2. /\ \E T : Shifted(s.queue, c.queue, FreeQ, ReadyQ, T)
      /\ \E U : Shifted(c.queue, d.queue, ReadyQ, RunningQ, U)
      /\ \/ Members(d.queue[ReadyQ]) = {}
         \/ \E t \in TaskNode : t \in Members(d.queue[RunningQ])
  BY ReadyToRunningShifts
<1>3. Disjoint(s.queue) /\ Disjoint(r.queue)
  BY <1>1, QueuesDisjoint DEF Between
<1>4. Cardinality(InStage(Stages(r), "running")) <= MAX_RUNNING_TASK
  BY <1>1, RunningCount
<1> HIDE DEF c, d, r
<1>5. PICK T : Shifted(s.queue, c.queue, FreeQ, ReadyQ, T)
  BY <1>2
<1>6. PICK U : Shifted(c.queue, d.queue, ReadyQ, RunningQ, U)
  BY <1>2
<1>7. /\ T \subseteq Members(s.queue[FreeQ])
      /\ Members(c.queue[FreeQ]) = Members(s.queue[FreeQ]) \ T
      /\ Members(c.queue[ReadyQ]) = Members(s.queue[ReadyQ]) \union T
      /\ Members(c.queue[RunningQ]) = Members(s.queue[RunningQ])
      /\ U \subseteq Members(c.queue[ReadyQ])
      /\ Members(d.queue[FreeQ]) = Members(c.queue[FreeQ])
      /\ Members(d.queue[ReadyQ]) = Members(c.queue[ReadyQ]) \ U
      /\ Members(d.queue[RunningQ]) = Members(c.queue[RunningQ]) \union U
  BY <1>5, <1>6, QueueIds DEF Shifted
<1>8. ASSUME NEW t \in TaskNode
      PROVE  /\ t \in Members(r.queue[FreeQ]) <=> t \in Members(s.queue[FreeQ]) /\ t \notin T
             /\ t \in Members(r.queue[ReadyQ])
                  <=> (t \in Members(s.queue[ReadyQ]) \/ t \in T) /\ t \notin U
             /\ t \in Members(r.queue[RunningQ])
                  <=> t \in Members(s.queue[RunningQ]) \/ t \in U
  BY <1>1, <1>7, QueueIds DEF SameTasks
<1>9. ASSUME NEW t \in TaskNode
      PROVE  \/ << StageIn(s, t), StageIn(r, t) >> \in {<< "free", "ready" >>,
                    << "free", "running" >>, << "ready", "running" >>}
             \/ StageIn(r, t) = StageIn(s, t)
  <2>1. CASE t \in T
    <3>1. StageIn(s, t) = "free" /\ t \in Members(c.queue[ReadyQ])
      BY <1>3, <1>7, <2>1, StageMeans
    <3>2. StageIn(r, t) = "ready" \/ StageIn(r, t) = "running"
      BY <1>3, <1>8, <2>1, StageMeans
    <3> QED
      BY <3>1, <3>2
  <2>2. CASE t \notin T /\ t \in U
    <3>1. StageIn(s, t) = "ready"
      BY <1>3, <1>7, <2>2, StageMeans
    <3>2. StageIn(r, t) = "running"
      BY <1>3, <1>8, <2>2, StageMeans
    <3> QED
      BY <3>1, <3>2
  <2>3. CASE t \notin T /\ t \notin U
    BY <1>8, <2>3 DEF StageIn
  <2> QED
    BY <2>1, <2>2, <2>3
<1>10. /\ \A t \in TaskNode : Stages(s)[t] = StageIn(s, t) /\ Stages(r)[t] = StageIn(r, t)
       /\ Stages(r) \in [TaskNode -> {"free", "ready", "running", "waiting"}]
  BY <1>3, StageMeans DEF Stages
<1>11. \A t : /\ t \in InStage(Stages(r), "running")
                   <=> t \in TaskNode /\ t \in Members(r.queue[RunningQ])
              /\ t \in InStage(Stages(r), "ready")
                   <=> t \in TaskNode /\ t \in Members(r.queue[ReadyQ])
  BY <1>3, <1>10, StageMeans DEF InStage
<1>12. r.queue[RunningQ] # << >> /\ r.cur = r.queue[RunningQ][1]
  BY <1>1 DEF Settled
<1>13. r.cur \in Node /\ r.cur \in Members(r.queue[RunningQ])
  BY <1>1, <1>12, FrontFacts DEF Members
<1>14. CASE r.cur = IdleTask
  <2>1. Members(r.queue[RunningQ]) = {IdleTask}
    <3>1. Len(r.queue[RunningQ]) = 1
      BY <1>1, <1>12, <1>14, QueueIds, FrontFacts DEF IdleAlone
    <3>2. 1 .. Len(r.queue[RunningQ]) = {1}
      BY <3>1
    <3>3. {r.queue[RunningQ][i] : i \in {1}} = {IdleTask}
      BY <1>12, <1>14
    <3> QED
      BY <3>2, <3>3 DEF Members
  <2>2. IdleTask \notin TaskNode
    BY SizeAssumption DEF IdleTask, TaskNode
  <2>3. InStage(Stages(r), "running") = {}
    BY <1>11, <2>1, <2>2
  <2>4. \A t \in TaskNode : t \notin Members(d.queue[RunningQ])
    BY <1>1, <2>1, <2>2, QueueIds DEF SameTasks
  <2>5. \A t \in TaskNode : t \notin Members(r.queue[ReadyQ])
    BY <1>1, <1>2, <2>4, QueueIds DEF SameTasks
  <2>6. InStage(Stages(r), "ready") = {}
    BY <1>11, <2>5
  <2> QED
    BY <1>4, <1>9, <1>10, <1>14, <2>3, <2>6 DEF Reschedules, r
<1>15. CASE r.cur # IdleTask
  <2>1. r.cur \in InStage(Stages(r), "running")
    BY <1>11, <1>13, <1>15 DEF Node
  <2> QED
    BY <1>4, <1>9, <1>10, <2>1 DEF Reschedules, r
<1> QED
  BY <1>14, <1>15

\* What has slices left stays in gRunningTask.
LEMMA NobodyLeaves ==
    ASSUME NEW s, Between(s), SlicesLeft(s)
    PROVE  RunningToReady(s) = s
<1>1. CASE s.queue[RunningQ] = << >>
  BY <1>1 DEF RunningToReady
<1>2. CASE s.queue[RunningQ] # << >>
  <2> DEFINE t == Head(s.queue[RunningQ])
  <2>1. t \in Node /\ 1 \in 1 .. Len(s.queue[RunningQ]) /\ t = s.queue[RunningQ][1]
    BY <1>2, FrontFacts
  <2>2. t # IdleTask => s.task[t].current < s.task[t].total
    BY <2>1 DEF SlicesLeft
  <2>3. s.task[t] \in TaskRecord
    BY <2>1, StateFields DEF Between
  <2> HIDE DEF t
  <2>4. s.task[t].current \in Nat /\ s.task[t].total \in Nat
    BY <2>3 DEF TaskRecord
  <2>5. t = IdleTask \/ s.task[t].current # s.task[t].total
    BY <2>2, <2>4
  <2> QED
    BY <2>5 DEF RunningToReady, t
<1> QED
  BY <1>1, <1>2

\* The task at the front has moved to another queue.
LEMMA FrontStage ==
    ASSUME NEW s, Between(s), s.queue[RunningQ] # << >>,
           NEW t \in TaskNode, t = s.queue[RunningQ][1],
           NEW to \in QueueId \ {RunningQ}, NEW r, Disjoint(r.queue),
           r.queue = MoveFront(s.queue, RunningQ, to, 1)
    PROVE  Stages(r) = [Stages(s) EXCEPT ![t] = IF to = FreeQ THEN "free"
                                                ELSE IF to = ReadyQ THEN "ready"
                                                ELSE "waiting"]
<1> DEFINE q == s.queue
           w == IF to = FreeQ THEN "free" ELSE IF to = ReadyQ THEN "ready" ELSE "waiting"
<1>1. /\ q \in Queues /\ NoDuplicate(q) /\ 1 \in 0 .. Len(q[RunningQ])
      /\ {q[RunningQ][i] : i \in 1 .. 1} = {t} /\ RunningQ \in QueueId
  BY StateFields, QueueIds, FrontFacts DEF Between
<1>2. Shifted(q, r.queue, RunningQ, to, {t})
  BY <1>1, MoveShifts
<1>3. /\ \A a \in QueueId : \A u : u # t =>
           (u \in Members(r.queue[a]) <=> u \in Members(q[a]))
      /\ t \in Members(r.queue[to])
  BY <1>2 DEF Shifted
<1>4. \A u \in TaskNode : u # t => StageIn(r, u) = StageIn(s, u)
  BY <1>3, QueueIds DEF StageIn
<1>5. StageIn(r, t) = w
  <2>1. \A a \in QueueId : t \in Members(r.queue[a]) <=> a = to
    BY <1>3 DEF Disjoint
  <2> QED
    BY <2>1, QueueIds DEF StageIn
<1> HIDE DEF w
<1> QED
  BY <1>4, <1>5 DEF Stages, w

LEMMA ScheduleLife ==
    ASSUME NEW s, Between(s), SlicesHeld(s), s.queue[RunningQ] # << >>,
           MAX_RUNNING_TASK >= 2, NEW t, t = s.queue[RunningQ][1]
    PROVE  \/ Reschedules(Stages(s), Schedule(s))
           \/ t # IdleTask /\ Reschedules([Stages(s) EXCEPT ![t] = "ready"], Schedule(s))
<1> DEFINE d == RunningToReady(s)
<1>1. Between(d) /\ SlicesLeft(d) /\ s \in KernelState
  BY RunningToReadyBetween DEF Between
<1>2. Reschedules(Stages(d), Schedule(s))
  BY <1>1, ScheduleNextLife DEF Schedule
<1>3. t \in Node /\ t = Head(s.queue[RunningQ])
  BY FrontFacts
<1>4. d = s \/ (t # IdleTask /\ d.queue = MoveFront(s.queue, RunningQ, ReadyQ, 1))
  BY <1>1, <1>3 DEF RunningToReady, KernelState
<1>5. CASE d = s
  BY <1>2, <1>5
<1>6. CASE t # IdleTask /\ d.queue = MoveFront(s.queue, RunningQ, ReadyQ, 1)
  <2>1. t \in TaskNode
    BY <1>3, <1>6 DEF Node
  <2>2. Disjoint(d.queue)
    BY <1>1, QueuesDisjoint DEF Between
  <2> HIDE DEF d
  <2>3. Stages(d) = [Stages(s) EXCEPT ![t] = "ready"]
    BY <1>6, <2>1, <2>2, QueueIds, FrontStage
  <2> QED
    BY <1>2, <1>6, <2>3
<1> QED
  BY <1>4, <1>5, <1>6

\* Those who wait for a task have its queue in their event, so that KillTask releases
\* exactly them.
LEMMA KillTaskLife ==
    ASSUME NEW s, Settled(s), EventsOK(s), s.cur # IdleTask, NEW ebx \in Ebx,
           MAX_RUNNING_TASK >= 2
    PROVE  LET r == KillTask(s, ebx)
               released == {t \in TaskNode : s.task[t].event = s.cur}
           IN  /\ \A t \in TaskNode : r.task[t].event = IF t \in released THEN NULL
                                                        ELSE s.task[t].event
               /\ Reschedules([t \in TaskNode |-> IF t = s.cur THEN "free"
                                                  ELSE IF t \in released THEN "ready"
                                                  ELSE Stages(s)[t]], r)
<1> DEFINE cur == s.cur
           q == s.queue
           n == WaittingToReady(s, cur)
           r == KillTask(s, ebx)
           released == {t \in TaskNode : s.task[t].event = cur}
           st == [t \in TaskNode |-> IF t = cur THEN "free"
                                     ELSE IF t \in released THEN "ready"
                                     ELSE Stages(s)[t]]
<1>1. /\ Between(s) /\ q[RunningQ] # << >> /\ cur = q[RunningQ][1]
      /\ s \in KernelState /\ NoDuplicate(q) /\ q \in Queues
      /\ s.task \in [Node -> TaskRecord]
  BY StateFields DEF Settled, Between
<1>2. /\ cur \in TaskNode /\ cur \in Node /\ cur \in WaitQ /\ cur \in QueueId
      /\ cur # ReadyQ /\ cur # RunningQ /\ cur # FreeQ
      /\ Len(q[cur]) \in Nat /\ cur # NULL
  BY <1>1, StateFields, QueueIds, QueueAssumption DEF Node
<1>3. PICK d : Killed(n, d) /\ r = Schedule(d)
  BY KillTaskState
<1>4. /\ Between(n) /\ n.queue[RunningQ] = q[RunningQ] /\ EventsOK(n)
      /\ n \in KernelState
  BY <1>1, <1>2, WaittingToReadyBetween, WaittingToReadyEvents DEF Between
<1>5. \A t \in TaskNode : t \in Members(q[cur]) <=> t \in released
  <2>1. \A t \in TaskNode : t \in Members(q[cur]) => s.task[t].event = cur
    BY <1>2 DEF EventsOK, Members
  <2>2. \A t \in TaskNode : s.task[t].event = cur => t \in Members(q[cur])
    BY <1>2 DEF EventsOK, Members, Node
  <2> QED
    BY <2>1, <2>2
<1>6. \A t \in TaskNode : n.task[t].event = IF t \in released THEN NULL
                                            ELSE s.task[t].event
  <2> DEFINE woken == Members(q[cur])
  <2>1. \A t \in Node : n.task[t] = IF t \in woken THEN [s.task[t] EXCEPT !.event = NULL]
                                    ELSE s.task[t]
    BY <1>1 DEF WaittingToReady, KernelState
  <2>2. \A t \in Node : [s.task[t] EXCEPT !.event = NULL].event = NULL
    BY <1>1 DEF TaskRecord
  <2>3. TaskNode \subseteq Node
    BY DEF Node
  <2> HIDE DEF n, woken, released
  <2> QED
    BY <1>5, <2>1, <2>2, <2>3 DEF woken
<1>7. n.queue = MoveFront(q, cur, ReadyQ, Len(q[cur]))
  BY <1>1 DEF WaittingToReady, KernelState
<1> HIDE DEF n, released, r
<1>8. Shifted(q, n.queue, cur, ReadyQ, Members(q[cur]))
  BY <1>1, <1>2, <1>7, QueueIds, MoveShifts DEF Members
<1>9. Disjoint(q) /\ Disjoint(n.queue) /\ Disjoint(d.queue)
  BY <1>1, <1>3, <1>4, QueuesDisjoint DEF Between, Killed
<1>10. \A t \in TaskNode : StageIn(n, t) = IF t \in released THEN "ready" ELSE StageIn(s, t)
  <2>1. SUFFICES ASSUME NEW t \in TaskNode
                 PROVE  StageIn(n, t) = IF t \in released THEN "ready" ELSE StageIn(s, t)
    OBVIOUS
  <2>2. CASE t \in released
    <3>1. t \in Members(n.queue[ReadyQ])
      BY <1>5, <1>8, <2>2 DEF Shifted
    <3> QED
      BY <1>9, <2>2, <3>1, StageMeans
  <2>3. CASE t \notin released
    <3>1. t \notin Members(q[cur])
      BY <1>5, <2>3
    <3>2. /\ t \in Members(n.queue[FreeQ]) <=> t \in Members(q[FreeQ])
          /\ t \in Members(n.queue[ReadyQ]) <=> t \in Members(q[ReadyQ])
          /\ t \in Members(n.queue[RunningQ]) <=> t \in Members(q[RunningQ])
      BY <1>2, <1>8, <3>1, QueueIds DEF Shifted
    <3> QED
      BY <2>3, <3>2 DEF StageIn
  <2> QED
    BY <2>2, <2>3
<1>11. Stages(d) = [Stages(n) EXCEPT ![cur] = "free"]
  <2>1. /\ d.queue = MoveFront(n.queue, RunningQ, FreeQ, 1)
        /\ n.queue[RunningQ] # << >> /\ cur = n.queue[RunningQ][1]
    BY <1>1, <1>3, <1>4 DEF Killed
  <2> HIDE DEF cur, q
  <2> QED
    BY <1>2, <1>4, <1>9, <2>1, QueueIds, FrontStage
<1>12. Stages(d) = st
  BY <1>10, <1>11 DEF Stages
<1> HIDE DEF st
<1>13. EventsOK(d)
  BY <1>3, <1>4, NoWaitQ, MoveWaits, SameWaitsKeep DEF Killed
<1>14. r = ScheduleNext(d)
  BY <1>3, NobodyLeaves DEF Schedule, Killed
<1>15. Reschedules(st, r)
  BY <1>3, <1>12, <1>14, ScheduleNextLife DEF Killed
<1>16. SameWaits(d, r)
  BY <1>3, <1>13, <1>14, ScheduleNextEvents DEF Killed
<1>17. \A t \in TaskNode : r.task[t].event = n.task[t].event
  BY <1>3, <1>16 DEF SameWaits, Killed, Node
<1> QED
  BY <1>6, <1>15, <1>17 DEF st, r, released

LEMMA WaitEventLife ==
    ASSUME NEW s, Settled(s), EventsOK(s), s.cur # IdleTask, s.heap # 0,
           NEW t \in TaskNode, s.task[t].id # 0, MAX_RUNNING_TASK >= 2
    PROVE  LET r == WaitEvent(s, t)
           IN  /\ StageIn(s, t) # "free"
               /\ \A u \in TaskNode : r.task[u].event = IF u = s.cur THEN t
                                                        ELSE s.task[u].event
               /\ Reschedules([Stages(s) EXCEPT ![s.cur] = "waiting"], r)
<1> DEFINE cur == s.cur
           r == WaitEvent(s, t)
<1>1. /\ Between(s) /\ s.queue[RunningQ] # << >> /\ cur = s.queue[RunningQ][1]
      /\ s \in KernelState /\ FreeIsUnused(s) /\ Disjoint(s.queue)
  BY QueuesDisjoint DEF Settled, Between
<1>2. /\ cur \in TaskNode /\ t \in WaitQ /\ t # IdleTask
      /\ t \in QueueId \ {RunningQ} /\ t # FreeQ /\ t # ReadyQ
  BY <1>1, StateFields, QueueIds, SizeAssumption DEF Node, IdleTask, TaskNode
<1>3. PICK d : Blocked(s, d, t) /\ r = ScheduleNext(d)
  BY <1>2, WaitEventState
<1> HIDE DEF r
<1>4. StageIn(s, t) # "free"
  <2>1. t \notin Members(s.queue[FreeQ])
    BY <1>1 DEF FreeIsUnused, Members
  <2> QED
    BY <1>1, <2>1, StageMeans
<1>5. EventsOK(d)
  BY <1>1, <1>2, <1>3, BlockedEvents DEF Blocked
<1>6. Stages(d) = [Stages(s) EXCEPT ![cur] = "waiting"]
  <2>1. d.queue = MoveFront(s.queue, RunningQ, t, 1) /\ Disjoint(d.queue)
    BY <1>3, QueuesDisjoint DEF Blocked, Between
  <2> HIDE DEF cur
  <2> QED
    BY <1>1, <1>2, <2>1, FrontStage
<1>7. Reschedules([Stages(s) EXCEPT ![cur] = "waiting"], r)
  BY <1>3, <1>6, ScheduleNextLife DEF Blocked
<1>8. SameWaits(d, r)
  BY <1>3, <1>5, ScheduleNextEvents DEF Blocked
<1>9. \A u \in TaskNode : r.task[u].event = IF u = cur THEN t ELSE s.task[u].event
  BY <1>3, <1>8 DEF SameWaits, Blocked, Node
<1> QED
  BY <1>4, <1>7, <1>9 DEF r

\* LaunchTask starts the first application in the first TCB; the others are free.
LEMMA InitLife ==
    ASSUME TaskInit
    PROVE  /\ Stages(kern) \in [TaskNode -> {"free", "running"}]
           /\ Cardinality(InStage(Stages(kern), "running")) = 1
           /\ kern.cur \in InStage(Stages(kern), "running")
           /\ \A t \in TaskNode : kern.task[t].event = NULL
<1> DEFINE a == AppInfoToRun(BootState, MainName, MainPri)
           c == CreateTask(a)
           d == ReadyToRunning(a)
<1>1. BootState \in KernelState /\ Between(BootState)
  BY BootBetween DEF Between
<1>2. a \in KernelState /\ a.queue = BootState.queue /\ a.task = BootState.task
  BY <1>1, AppInfoToRunState, NameAssumption
<1>3. Len(a.app) = 1
  <2>1. BootState.app = << >> /\ BootState.heap = HeapUnits
    BY DEF BootState
  <2>2. HeapUnits # 0
    BY SizeAssumption
  <2>3. \E an : a = [BootState EXCEPT !.app = Append(@, an),
                        !.heap = @ - (IF MainName # NoName /\ BootState.heap >= 2
                                      THEN 2 ELSE 1)]
    BY <2>1, <2>2 DEF AppInfoToRun
  <2>4. \E an : a.app = Append(<< >>, an)
    BY <1>1, <2>1, <2>3 DEF KernelState
  <2> HIDE DEF a
  <2> QED
    BY <2>4
<1>4. /\ a.queue[FreeQ] = [i \in TaskNode |-> i]
      /\ \A x \in QueueId \ {FreeQ} : a.queue[x] = << >>
  <2>1. /\ BootState.queue[FreeQ] = [i \in TaskNode |-> i]
        /\ \A x \in QueueId \ {FreeQ} : BootState.queue[x] = << >>
    BY QueueIds DEF BootState
  <2> HIDE DEF a
  <2> QED
    BY <1>2, <2>1
<1>5. Between(a)
  BY <1>1, <1>2, SameQueues
<1> HIDE DEF a
<1>6. Len(a.queue[FreeQ]) = MAX_TASK_NUM
  BY <1>4, SizeAssumption DEF TaskNode
<1>7. Creatable(a) = 1
  <2>1. Len(a.queue[ReadyQ]) = 0
    BY <1>4, QueueIds
  <2>2. /\ MAX_TASK_NUM \in Nat /\ MAX_RUNNING_TASK \in Nat
        /\ MAX_TASK_NUM >= 1 /\ MAX_RUNNING_TASK < MAX_TASK_NUM
    BY SizeAssumption
  <2>3. Monus(MAX_READY_TASK, 0) >= 1
    BY <2>2 DEF Monus, MAX_READY_TASK
  <2>4. Smaller(1, MAX_TASK_NUM) = 1
    BY <2>2 DEF Smaller
  <2>5. Monus(MAX_READY_TASK, 0) \in Nat
    BY <2>2 DEF Monus, MAX_READY_TASK
  <2> QED
    BY <1>3, <1>6, <2>1, <2>3, <2>4, <2>5 DEF Creatable, Smaller
<1>8. /\ c.queue = MoveFront(a.queue, FreeQ, ReadyQ, 1)
      /\ a.queue \in Queues /\ NoDuplicate(a.queue) /\ 1 \in 0 .. Len(a.queue[FreeQ])
  <2>1. a \in KernelState /\ FreeIsUnused(a) /\ NoDuplicate(a.queue)
    BY <1>5 DEF Between
  <2>2. 1 \in 0 .. Len(a.queue[FreeQ])
    BY <1>6, SizeAssumption
  <2> QED
    BY <1>7, <2>1, <2>2, CreateTaskQueue, StateFields
<1>9. Between(c) /\ c \in KernelState /\ c.queue \in Queues /\ NoDuplicate(c.queue)
  BY <1>5, CreateTaskBetween, StateFields DEF Between
<1>10. /\ Len(c.queue[ReadyQ]) = 1 /\ c.queue[ReadyQ][1] = 1
       /\ c.queue[RunningQ] = << >>
  <2>1. IsMove(c.queue, a.queue, FreeQ, ReadyQ, 1)
    BY <1>8, QueueIds, MoveElements
  <2>2. Len(a.queue[ReadyQ]) = 0 /\ a.queue[RunningQ] = << >>
    BY <1>4, QueueIds
  <2>3. Len(c.queue[ReadyQ]) = 1
    BY <2>1, <2>2 DEF IsMove
  <2>4. 1 \in 1 .. Len(c.queue[ReadyQ]) /\ ~(1 <= Len(a.queue[ReadyQ]))
        /\ 1 - Len(a.queue[ReadyQ]) = 1
    BY <2>2, <2>3
  <2>5. c.queue[ReadyQ][1] = a.queue[FreeQ][1]
    BY <2>1, <2>4 DEF IsMove
  <2>6. 1 \in TaskNode
    BY SizeAssumption DEF TaskNode
  <2> QED
    BY <1>4, <2>1, <2>2, <2>3, <2>5, <2>6, QueueIds DEF IsMove
<1>11. Shifted(a.queue, c.queue, FreeQ, ReadyQ, {1})
  <2>1. {a.queue[FreeQ][i] : i \in 1 .. 1} = {1}
    BY <1>4, SizeAssumption DEF TaskNode
  <2> HIDE DEF c
  <2> QED
    BY <1>8, <2>1, QueueIds, MoveShifts
<1>12. d.queue = MoveFront(c.queue, ReadyQ, RunningQ, 1)
  <2>1. Len(c.queue[RunningQ]) = 0
    BY <1>10
  <2>2. Smaller(1, Monus(MAX_RUNNING_TASK, 0)) = 1
    BY SizeAssumption DEF Smaller, Monus
  <2> HIDE DEF c
  <2>3. c = CreateTask(a)
    BY DEF c
  <2> QED
    BY <1>9, <1>10, <2>1, <2>2, <2>3 DEF ReadyToRunning, KernelState
<1> HIDE DEF c, d
<1>13. /\ Len(d.queue[RunningQ]) = 1 /\ d.queue[RunningQ][1] = 1
  <2>1. IsMove(d.queue, c.queue, ReadyQ, RunningQ, 1)
    BY <1>9, <1>10, <1>12, QueueIds, MoveElements
  <2>2. Len(c.queue[RunningQ]) = 0
    BY <1>10
  <2>3. Len(d.queue[RunningQ]) = 1
    BY <2>1, <2>2 DEF IsMove
  <2>4. 1 \in 1 .. Len(d.queue[RunningQ]) /\ ~(1 <= Len(c.queue[RunningQ]))
        /\ 1 - Len(c.queue[RunningQ]) = 1
    BY <2>2, <2>3
  <2>5. d.queue[RunningQ][1] = c.queue[ReadyQ][1]
    BY <2>1, <2>4 DEF IsMove
  <2> QED
    BY <1>10, <2>3, <2>5
<1>14. Shifted(c.queue, d.queue, ReadyQ, RunningQ, {1})
  <2>1. {c.queue[ReadyQ][i] : i \in 1 .. 1} = {1}
    BY <1>10
  <2> QED
    BY <1>9, <1>10, <1>12, <2>1, QueueIds, MoveShifts
<1>15. d \in KernelState
  <2>1. SlicesLeft(a)
    <3>1. Len(a.queue[RunningQ]) = 0
      BY <1>4, QueueIds
    <3>2. 1 .. Len(a.queue[RunningQ]) = {}
      BY <3>1
    <3> QED
      BY <3>2 DEF SlicesLeft
  <2> QED
    BY <1>5, <2>1, ReadyToRunningBetween DEF Between, d
<1>16. CheckRunningTask(d) = d
  BY <1>13 DEF CheckRunningTask
<1>17. kern = Dispatch(d)
  BY <1>16 DEF TaskInit, TaskModInit, LaunchTask, d, a
<1>18. kern.queue = d.queue /\ kern.cur = 1
  <2>1. kern.queue = d.queue /\ kern.cur = Head(d.queue[RunningQ])
    BY <1>15, <1>17 DEF Dispatch, KernelState
  <2> DEFINE q == d.queue[RunningQ]
  <2>2. q \in Seq(Node) /\ Len(q) = 1 /\ q[1] = 1
    BY <1>13, <1>15, StateFields, QueueIds
  <2> HIDE DEF q
  <2>3. Head(q) = 1
    BY <2>2
  <2> QED
    BY <2>1, <2>3 DEF q
<1>19. Settled(kern) /\ Between(kern) /\ Disjoint(kern.queue)
  BY InitInv, QueuesDisjoint DEF TaskInv, Settled, Between
<1>20. /\ Members(a.queue[FreeQ]) = TaskNode /\ Members(a.queue[RunningQ]) = {}
       /\ 1 \in TaskNode
  BY <1>4, <1>6, SizeAssumption, QueueIds DEF Members, TaskNode
<1>21. /\ Members(kern.queue[FreeQ]) = TaskNode \ {1}
       /\ Members(kern.queue[RunningQ]) = {1}
  BY <1>11, <1>14, <1>18, <1>20, QueueIds DEF Shifted
<1>22. \A t \in TaskNode : StageIn(kern, t) = IF t = 1 THEN "running" ELSE "free"
  BY <1>19, <1>21, StageMeans
<1>23. Stages(kern) \in [TaskNode -> {"free", "running"}]
  BY <1>22 DEF Stages
<1>24. InStage(Stages(kern), "running") = {1}
  BY <1>20, <1>22 DEF InStage, Stages
<1>25. Cardinality({1}) = 1
  BY FS_Singleton
<1>26. \A t \in TaskNode : kern.task[t].event = NULL
  <2>1. SUFFICES ASSUME NEW t \in TaskNode PROVE kern.task[t].event = NULL
    OBVIOUS
  <2>2. PICK x \in {FreeQ, ReadyQ, RunningQ} : t \in Members(kern.queue[x])
    BY <1>21
  <2>3. PICK i \in 1 .. Len(kern.queue[x]) : kern.queue[x][i] = t
    BY <2>2 DEF Members
  <2> QED
    BY <1>19, <2>3, InitEvents, NotWaiting
<1> QED
  BY <1>18, <1>23, <1>24, <1>25, <1>26

LEMMA SameCardinality == \A S : Life!Cardinality(S) = Cardinality(S)
BY DEF Life!Cardinality, Cardinality

LEMMA StageMapped ==
    ASSUME NEW STATE st, Reschedules(st, kern')
    PROVE  Life!Rescheduled(st)
<1>1. [t \in TaskNode |-> StageOf(t)]' = Stages(kern')
  BY DEF StageOf, StageIn, Stages
<1>2. Life!InStage([t \in TaskNode |-> StageOf(t)]', "running")
        = InStage(Stages(kern'), "running")
  BY <1>1 DEF Life!InStage, InStage
<1>3. Life!InStage([t \in TaskNode |-> StageOf(t)]', "ready")
        = InStage(Stages(kern'), "ready")
  BY <1>1 DEF Life!InStage, InStage
<1>4. Life!Admitted(st)
  BY <1>1, <1>2, SameCardinality DEF Reschedules, Life!Admitted
<1> QED
  BY <1>1, <1>2, <1>3, <1>4 DEF Reschedules, Life!Rescheduled

\* A step that changes neither queues, nor events, nor the owner of the processor.
LEMMA LifeUnchanged ==
    ASSUME kern'.queue = kern.queue, kern'.cur = kern.cur,
           \A t \in TaskNode : kern'.task[t].event = kern.task[t].event
    PROVE  UNCHANGED Life!life
<1>1. [t \in TaskNode |-> StageOf(t)]' = [t \in TaskNode |-> StageOf(t)]
  BY DEF StageOf
<1>2. [t \in TaskNode |-> kern.task[t].event]' = [t \in TaskNode |-> kern.task[t].event]
  OBVIOUS
<1> QED
  BY <1>1, <1>2 DEF Life!life

LEMMA StepLife ==
    ASSUME TaskInv, IdsOK(kern), EventsOK(kern), MAX_RUNNING_TASK >= 2,
           [TaskNext]_taskVars
    PROVE  [Life!LifeNext]_(Life!life)
<1> DEFINE stage == [t \in TaskNode |-> StageOf(t)]
           target == [t \in TaskNode |-> kern.task[t].event]
<1>1. /\ Settled(kern) /\ Between(kern) /\ kern \in KernelState
      /\ kern.queue[RunningQ] # << >> /\ kern.cur = kern.queue[RunningQ][1]
  BY DEF TaskInv, Settled, Between
<1>2. stage = Stages(kern)
  BY DEF StageOf, StageIn, Stages
<1>3. ASSUME NEW ebx \in Ebx, kern' = KillTask(kern, ebx), kern.cur # IdleTask
      PROVE  Life!Finish
  <2> DEFINE released == {t \in TaskNode : kern.task[t].event = kern.cur}
             st == [t \in TaskNode |-> IF t = kern.cur THEN "free"
                                       ELSE IF t \in released THEN "ready"
                                       ELSE stage[t]]
  <2>1. /\ \A t \in TaskNode : kern'.task[t].event = IF t \in released THEN NULL
                                                     ELSE kern.task[t].event
        /\ Reschedules([t \in TaskNode |-> IF t = kern.cur THEN "free"
                                           ELSE IF t \in released THEN "ready"
                                           ELSE Stages(kern)[t]], kern')
    BY <1>1, <1>3, KillTaskLife
  <2>2. Reschedules(st, kern')
    <3> HIDE DEF stage, released
    <3> QED
      BY <1>2, <2>1
  <2>3. released = {t \in TaskNode : target[t] = kern.cur}
    OBVIOUS
  <2>4. target' = [t \in TaskNode |-> IF t \in released THEN NULL ELSE target[t]]
    BY <2>1
  <2>5. Life!Rescheduled(st)
    <3> HIDE DEF st
    <3> QED
      BY <2>2, StageMapped
  <2> QED
    BY <1>3, <2>3, <2>4, <2>5 DEF Life!Finish
<1>4. CASE kern' = kern
  BY <1>4, LifeUnchanged
<1>5. ASSUME NEW name, kern' = WaitTask(kern, name), kern.cur # IdleTask
      PROVE  kern' = kern \/ \E t \in TaskNode : Life!Join(t)
  <2> DEFINE found == FindTaskByName(kern, name)
  <2>1. CASE kern' = WaitEvent(kern, found) /\ found # NULL /\ kern.heap # 0
    <3>1. found \in Node /\ kern.task[found].id # 0
      BY <1>1, <2>1, FoundIsLive
    <3>2. PICK t \in TaskNode : t = found
      BY <3>1 DEF IdsOK, Node
    <3>3. kern' = WaitEvent(kern, t) /\ kern.task[t].id # 0 /\ kern.heap # 0
      BY <2>1, <3>1, <3>2
    <3>4. /\ StageIn(kern, t) # "free"
          /\ \A u \in TaskNode : kern'.task[u].event = IF u = kern.cur THEN t
                                                       ELSE kern.task[u].event
          /\ Reschedules([Stages(kern) EXCEPT ![kern.cur] = "waiting"], kern')
      BY <1>1, <1>5, <3>3, WaitEventLife
    <3>5. stage[t] # "free" /\ target' = [target EXCEPT ![kern.cur] = t]
      BY <1>2, <3>4 DEF Stages
    <3> DEFINE st == [stage EXCEPT ![kern.cur] = "waiting"]
    <3>6. Life!Rescheduled(st)
      <4>1. Reschedules(st, kern')
        BY <1>2, <3>4
      <4> HIDE DEF st
      <4> QED
        BY <4>1, StageMapped
    <3>7. Life!Join(t)
      BY <1>5, <3>5, <3>6 DEF Life!Join
    <3> QED
      BY <3>7
  <2> QED
    BY <1>5, <2>1 DEF WaitTask
<1>6. ASSUME NEW name \in Name \union {NoName}, NEW pri \in Priority \union {MainPri},
             kern' = AppInfoToRun(kern, name, pri)
      PROVE  UNCHANGED Life!life
  <2>1. kern'.queue = kern.queue /\ kern'.task = kern.task /\ kern'.cur = kern.cur
    BY <1>1, <1>6, AppInfoToRunState
  <2> QED
    BY <2>1, LifeUnchanged
<1>7. CASE kern' = Schedule(kern)
  <2>1. SlicesHeld(kern)
    BY <1>1, HeldSlices
  <2>2. \/ Reschedules(Stages(kern), kern')
        \/ /\ kern.cur # IdleTask
           /\ Reschedules([Stages(kern) EXCEPT ![kern.cur] = "ready"], kern')
    BY <1>1, <1>7, <2>1, ScheduleLife
  <2>3. SameWaits(kern, kern')
    BY <1>1, <1>7, <2>1, ScheduleEvents
  <2>4. target' = target
    <3>1. \A t \in TaskNode : kern'.task[t].event = kern.task[t].event
      BY <2>3 DEF SameWaits, Node
    <3> QED
      BY <3>1
  <2>5. CASE Reschedules(Stages(kern), kern')
    <3>1. Life!Rescheduled(stage)
      <4>1. Reschedules(stage, kern')
        BY <1>2, <2>5
      <4> HIDE DEF stage
      <4> QED
        BY <4>1, StageMapped
    <3> QED
      BY <2>4, <3>1 DEF Life!Preempt, Life!LifeNext
  <2>6. CASE /\ kern.cur # IdleTask
             /\ Reschedules([Stages(kern) EXCEPT ![kern.cur] = "ready"], kern')
    <3> DEFINE st == [stage EXCEPT ![kern.cur] = "ready"]
    <3>1. Life!Rescheduled(st)
      <4>1. Reschedules(st, kern')
        BY <1>2, <2>6
      <4> HIDE DEF st
      <4> QED
        BY <4>1, StageMapped
    <3> QED
      BY <2>4, <2>6, <3>1 DEF Life!Preempt, Life!LifeNext
  <2> QED
    BY <2>2, <2>5, <2>6
<1> HIDE DEF stage, target
<1>8. CASE TimerHandler
  BY <1>4, <1>7, <1>8 DEF TimerHandler
<1>9. CASE Exit
  BY <1>3, <1>9, NameAssumption DEF Exit, UserMode, Life!LifeNext
<1>10. CASE \E name \in Name \union {IdleName} : Wait(name)
  BY <1>4, <1>5, <1>10 DEF Wait, UserMode, Life!LifeNext
<1>11. CASE \E name \in Name, pri \in Priority : RegApp(name, pri)
  BY <1>6, <1>11 DEF RegApp
<1>12. CASE TaskEntryEnd
  <2>1. kern.cur # IdleTask
    BY <1>12 DEF TaskEntryEnd, UserMode
  <2>2. \/ kern' = KillTask(kern, 0)
        \/ \E name \in Name : kern' = WaitTask(kern, name)
        \/ \E name \in Name \union {NoName}, pri \in Priority :
              kern' = AppInfoToRun(kern, name, pri)
        \/ kern' = kern
    BY <1>12 DEF TaskEntryEnd
  <2> QED
    BY <1>3, <1>4, <1>5, <1>6, <2>1, <2>2, NameAssumption DEF Life!LifeNext
<1>13. CASE Fault
  BY <1>3, <1>13 DEF Fault, Life!LifeNext
<1>14. CASE UNCHANGED taskVars
  BY <1>4, <1>14 DEF taskVars
<1> QED
  BY <1>8, <1>9, <1>10, <1>11, <1>12, <1>13, <1>14 DEF TaskNext

\* Seen from outside, the scheduler is what Lifecycle describes: each handler ends,
\* blocks or preempts the current task, wakes exactly those who waited for a task that
\* ended, and gives the processor to a running task, if there is one (task.c). With
\* room for one task only in gRunningTask, the idle task would keep it for ever.
THEOREM LifecycleImplemented ==
    ASSUME MAX_RUNNING_TASK >= 2
    PROVE  TaskSpec => LifecycleSpec
<1> DEFINE I == TaskInv /\ IdsOK(kern) /\ EventsOK(kern)
<1>1. TaskInit => I
  BY InitInv, InitIds, InitEvents
<1>2. I /\ [TaskNext]_taskVars => I'
  BY NextInv, StepIds, StepEvents
<1>3. TaskInit => Life!LifeInit
  <2> DEFINE stage == [t \in TaskNode |-> StageOf(t)]
             target == [t \in TaskNode |-> kern.task[t].event]
  <2>1. SUFFICES ASSUME TaskInit PROVE Life!LifeInit
    OBVIOUS
  <2>2. stage = Stages(kern)
    BY DEF StageOf, StageIn, Stages
  <2>3. target = [t \in TaskNode |-> NULL]
    BY <2>1, InitLife
  <2>4. /\ stage \in [TaskNode -> {"free", "running"}]
        /\ Cardinality(InStage(stage, "running")) = 1
        /\ kern.cur \in InStage(stage, "running")
    BY <2>1, <2>2, InitLife
  <2>5. Life!InStage(stage, "running") = InStage(stage, "running")
    BY DEF Life!InStage, InStage
  <2> QED
    BY <2>3, <2>4, <2>5, SameCardinality DEF Life!LifeInit
<1>4. I /\ [TaskNext]_taskVars => [Life!LifeNext]_(Life!life)
  BY StepLife
<1> QED
  BY <1>1, <1>2, <1>3, <1>4, PTL DEF TaskSpec, LifecycleSpec, Life!LifeSpec
=============================================================================
