------------------------------ MODULE DemoProofs ------------------------------
(***************************************************************************)
(* Lock, and the applications that use it, for any number of clients,      *)
(* mutexes, readers and products. While memory suffices a mutex has one    *)
(* client in it at most. Therefore no product is lost, readers count       *)
(* themselves exactly, the writer does not disturb them, a demonstration   *)
(* ends with its Deinit task and leaves no mutex, and the shell that has   *)
(* slept until then gets its cursor back, whatever is started from it and  *)
(* in whatever order.                                                      *)
(***************************************************************************)
EXTENDS Shell, FiniteSetTheorems, SequenceTheorems, TLAPS

-----------------------------------------------------------------------------
(* Lock: the argument is about each mutex by itself. Guarded says how its  *)
(* lock and the clients in it belong together, and every operation keeps   *)
(* that.                                                                   *)

LockType == [type : {"Normal", "Strict"}, owner : Client \union {Nobody, Somebody, Gone}]

\* A normal mutex does not know its owner. Who is in a mutex is alone in it, and
\* its owner if it is strict.
Guarded(l, clients) ==
    /\ clients \subseteq Client
    /\ l # Absent =>
         /\ l \in LockType
         /\ l.type = "Normal" => l.owner \in {Nobody, Somebody}
         /\ l.type = "Strict" => clients \subseteq {l.owner}
         /\ l.owner = Nobody => clients = {}
         /\ \A c, d \in clients : c = d

LockInv ==
    /\ lock = [m \in Mutex |-> lock[m]] /\ in = [m \in Mutex |-> in[m]]
    /\ \A m \in Mutex : Guarded(lock[m], in[m])

-----------------------------------------------------------------------------
(* Operations on one mutex *)

LEMMA Special ==
    /\ Nobody \notin Client /\ Somebody \notin Client /\ Gone \notin Client
    /\ Nobody # Somebody /\ Nobody # Gone
    /\ \A l \in LockType : l # Absent
  BY LockAssumption DEF LockType

LEMMA WithOwner ==
    ASSUME NEW l \in LockType, NEW o \in Client \union {Nobody, Somebody, Gone}
    PROVE  /\ [l EXCEPT !.owner = o] \in LockType
           /\ [l EXCEPT !.owner = o].owner = o
           /\ [l EXCEPT !.owner = o].type = l.type
  BY DEF LockType

LEMMA NewGuarded ==
    ASSUME NEW type \in {"Normal", "Strict"}
    PROVE  Guarded([type |-> type, owner |-> Nobody], {})
  BY Special DEF Guarded, LockType

LEMMA EnterGuarded ==
    ASSUME NEW l, NEW clients, Guarded(l, clients), NEW c \in Client, l # Absent,
           l.owner = Nobody \/ (l.type = "Strict" /\ l.owner = c)
    PROVE  Guarded([l EXCEPT !.owner = IF l.type = "Strict" THEN c ELSE Somebody],
                   clients \union {c})
<1> DEFINE owner == IF l.type = "Strict" THEN c ELSE Somebody
           entered == [l EXCEPT !.owner = owner]
<1>1. l \in LockType
  BY DEF Guarded
<1>2. owner \in Client \union {Nobody, Somebody, Gone}
  OBVIOUS
<1>3. l.type = "Strict" => owner = c
  OBVIOUS
<1>4. l.type = "Normal" => owner = Somebody
  OBVIOUS
<1> HIDE DEF owner
<1>5. entered \in LockType /\ entered.owner = owner /\ entered.type = l.type
  BY <1>1, <1>2, WithOwner
<1> HIDE DEF entered
<1>6. owner # Nobody
  BY <1>1, <1>3, <1>4, Special DEF LockType
<1>7. clients \subseteq {c}
  BY DEF Guarded
<1>8. Guarded(entered, clients \union {c})
  BY <1>1, <1>3, <1>4, <1>5, <1>6, <1>7, Special DEF Guarded, LockType
<1> QED
  BY <1>8 DEF entered, owner

LEMMA ExitGuarded ==
    ASSUME NEW l, NEW clients, Guarded(l, clients), NEW c \in Client, l # Absent,
           l.type = "Strict" => l.owner = c
    PROVE  Guarded([l EXCEPT !.owner = Nobody],
                   IF l.type = "Normal" THEN {} ELSE clients \ {c})
<1> DEFINE left == [l EXCEPT !.owner = Nobody]
           rest == IF l.type = "Normal" THEN {} ELSE clients \ {c}
<1>1. l \in LockType
  BY DEF Guarded
<1>2. left \in LockType /\ left.owner = Nobody /\ left.type = l.type
  BY <1>1, WithOwner
<1>3. rest = {}
  BY <1>1 DEF Guarded, LockType
<1> HIDE DEF left, rest
<1>4. Guarded(left, rest)
  BY <1>2, <1>3, Special DEF Guarded
<1> QED
  BY <1>4 DEF left, rest

LEMMA DieGuarded ==
    ASSUME NEW l, NEW clients, Guarded(l, clients), NEW c \in Client
    PROVE  Guarded(IF l # Absent /\ l.owner = c THEN [l EXCEPT !.owner = Gone] ELSE l,
                   clients \ {c})
<1>1. CASE l # Absent /\ l.owner = c
  <2> DEFINE gone == [l EXCEPT !.owner = Gone]
  <2>1. l \in LockType
    BY <1>1 DEF Guarded
  <2>2. gone \in LockType /\ gone.owner = Gone /\ gone.type = l.type
    BY <2>1, WithOwner
  <2> HIDE DEF gone
  <2>3. l.type # "Normal"
    BY <1>1, Special DEF Guarded
  <2>4. l.type = "Strict" /\ clients \subseteq {c}
    BY <1>1, <2>1, <2>3 DEF Guarded, LockType
  <2>5. Guarded(gone, clients \ {c})
    BY <2>1, <2>2, <2>4, Special DEF Guarded
  <2> QED
    BY <1>1, <2>5 DEF gone
<1>2. CASE ~(l # Absent /\ l.owner = c)
  <2>1. Guarded(l, clients \ {c})
    BY DEF Guarded
  <2> QED
    BY <1>2, <2>1
<1> QED
  BY <1>1, <1>2

-----------------------------------------------------------------------------
(* The invariant *)

LEMMA InitInv == LockInit => LockInv
<1> SUFFICES ASSUME LockInit PROVE LockInv
  OBVIOUS
<1>1. \A m \in Mutex : lock[m] = Absent /\ in[m] = {}
  BY DEF LockInit
<1>2. \A m \in Mutex : Guarded(lock[m], in[m])
  BY <1>1 DEF Guarded
<1> QED
  BY <1>2 DEF LockInit, LockInv

\* A step that changes one mutex keeps the invariant if it leaves that one guarded.
LEMMA OneChanges ==
    ASSUME LockInv, NEW m \in Mutex, NEW l, NEW clients, Guarded(l, clients),
           lock' = [lock EXCEPT ![m] = l], in' = [in EXCEPT ![m] = clients]
    PROVE  LockInv'
<1>1. \A n \in Mutex : lock'[n] = IF n = m THEN l ELSE lock[n]
  BY DEF LockInv
<1>2. \A n \in Mutex : in'[n] = IF n = m THEN clients ELSE in[n]
  BY DEF LockInv
<1>3. lock' = [n \in Mutex |-> lock'[n]] /\ in' = [n \in Mutex |-> in'[n]]
  BY DEF LockInv
<1>4. \A n \in Mutex : Guarded(lock'[n], in'[n])
  BY <1>1, <1>2 DEF LockInv
<1> HIDE DEF Guarded
<1> QED
  BY <1>3, <1>4 DEF LockInv

LEMMA StepInv ==
    ASSUME LockInv, [LockNext]_lockVars, ~starved
    PROVE  LockInv'
<1>1. ASSUME NEW m \in Mutex, Destroy(m)
      PROVE  LockInv'
  <2>1. Guarded(lock[m], in[m])
    BY DEF LockInv
  <2>2. Guarded(Absent, in[m])
    BY <2>1 DEF Guarded
  <2>3. lock' = [lock EXCEPT ![m] = Absent] /\ in' = [in EXCEPT ![m] = in[m]]
    BY <1>1 DEF Destroy, LockInv
  <2> QED
    BY <2>2, <2>3, OneChanges
<1>2. ASSUME NEW m \in Mutex, NEW type \in {"Normal", "Strict"}, Create(m, type)
      PROVE  LockInv'
  <2>1. Guarded([type |-> type, owner |-> Nobody], {})
    BY NewGuarded
  <2>2. /\ lock' = [lock EXCEPT ![m] = [type |-> type, owner |-> Nobody]]
        /\ in' = [in EXCEPT ![m] = {}]
    BY <1>2 DEF Create
  <2> QED
    BY <2>1, <2>2, OneChanges
<1>3. ASSUME NEW c \in Client, NEW m \in Mutex, Enter(c, m)
      PROVE  LockInv'
  <2> DEFINE l == [lock[m] EXCEPT !.owner = IF lock[m].type = "Strict" THEN c ELSE Somebody]
  <2>1. Guarded(lock[m], in[m])
    BY DEF LockInv
  <2>2. Guarded(l, in[m] \union {c})
    BY <1>3, <2>1, EnterGuarded DEF Enter, Exists
  <2>3. lock' = [lock EXCEPT ![m] = l] /\ in' = [in EXCEPT ![m] = in[m] \union {c}]
    BY <1>3, Zenon DEF Enter
  <2> HIDE DEF l
  <2> QED
    BY <2>2, <2>3, OneChanges
<1>4. ASSUME NEW c \in Client, NEW m \in Mutex, Exit(c, m)
      PROVE  LockInv'
  <2> DEFINE l == [lock[m] EXCEPT !.owner = Nobody]
             clients == IF lock[m].type = "Normal" THEN {} ELSE in[m] \ {c}
  <2>1. Guarded(lock[m], in[m])
    BY DEF LockInv
  <2>2. Guarded(l, clients)
    BY <1>4, <2>1, ExitGuarded DEF Exit, Exists
  <2>3. lock' = [lock EXCEPT ![m] = l] /\ in' = [in EXCEPT ![m] = clients]
    BY <1>4, Zenon DEF Exit
  <2> HIDE DEF l, clients
  <2> QED
    BY <2>2, <2>3, OneChanges
<1>5. ASSUME NEW c \in Client, Die(c)
      PROVE  LockInv'
  <2> DEFINE l(m) == IF lock[m] # Absent /\ lock[m].owner = c
                     THEN [lock[m] EXCEPT !.owner = Gone] ELSE lock[m]
  <2>1. \A m \in Mutex : Guarded(l(m), in[m] \ {c})
    BY DieGuarded DEF LockInv
  <2>2. lock' = [m \in Mutex |-> l(m)] /\ in' = [m \in Mutex |-> in[m] \ {c}]
    BY <1>5, Zenon DEF Die, Exists
  <2> HIDE DEF l
  <2>3. \A m \in Mutex : lock'[m] = l(m) /\ in'[m] = in[m] \ {c}
    BY <2>2
  <2>4. lock' = [m \in Mutex |-> lock'[m]] /\ in' = [m \in Mutex |-> in'[m]]
    BY <2>2
  <2>5. \A m \in Mutex : Guarded(lock'[m], in'[m])
    BY <2>1, <2>3
  <2> QED
    BY <2>4, <2>5 DEF LockInv
<1>6. ASSUME UNCHANGED lockVars
      PROVE  LockInv'
  BY <1>6 DEF LockInv, lockVars
<1>7. ASSUME NEW c \in Client, NEW m \in Mutex
      PROVE  ~EnterUnlocked(c, m)
  BY DEF EnterUnlocked
<1> QED
  BY <1>1, <1>2, <1>3, <1>4, <1>5, <1>6, <1>7, Zenon DEF LockNext

\* One client at most is in a mutex, whatever the clients call and however many there
\* are, as long as memory suffices for those that must wait: what the kernel
\* promises for EnterCritical and ExitCritical (mutex.c:82-115, 135-154).
THEOREM MutualExclusion == LockSpec /\ []~starved => []Exclusive
<1>1. LockInv => Exclusive
  BY DEF LockInv, Guarded, Exclusive, Exists, IsFree
<1>2. LockInv /\ ~starved /\ [LockNext]_lockVars => LockInv'
  BY StepInv
<1> QED
  BY <1>1, <1>2, InitInv, PTL DEF LockSpec

-----------------------------------------------------------------------------
(* Readers and the writer *)

\* Where a reader is inside its critical section, is counted, and keeps the writer
\* out; where the writer is inside its own.
Holding  == {"first", "shut", "count", "counted", "uncount", "letin", "uncounted"}
Counting == {"counted", "test", "show", "reread", "uncount"}
Shutting == Counting \union {"count", "letin"}
Critical == {"write", "close", "clear", "cleared"}

LocksOK ==
    /\ LockInv
    /\ starved = FALSE
    /\ Exists(g_mutex_read) => lock[g_mutex_read].type = "Strict"
    /\ Exists(g_mutex_write) => lock[g_mutex_write].type = "Normal"

TasksOK ==
    /\ pc = [c \in Client |-> pc[c]]
    /\ toRun \in Seq(AppInfo)

\* A reader in its critical section owns the readers' mutex.
HoldersOwn ==
    \A r \in Reader : pc[r] \in Holding =>
        Exists(g_mutex_read) /\ lock[g_mutex_read].owner = r

CountRight ==
    /\ g_count = Cardinality(Reading)
    /\ \A r \in Reader : pc[r] = "letin" => Reading = {}

\* The writer's mutex is locked, for the writer or for all readers.
Locked == Exists(g_mutex_write) /\ lock[g_mutex_write].owner = Somebody

Shut == \E r \in Reader : pc[r] \in Shutting

WriterOut ==
    /\ Shut => Locked /\ pc["Writer"] \notin Critical
    /\ pc["Writer"] \in Critical => Locked

ReadersInv == LocksOK /\ TasksOK /\ HoldersOwn /\ CountRight /\ WriterOut

-----------------------------------------------------------------------------
(* Mutexes *)

LEMMA Names ==
    /\ Reader \subseteq Client /\ "Writer" \in Client /\ "Deinit" \in Client
    /\ "Writer" \notin Reader /\ "Deinit" \notin Reader
    /\ \A c \in Demo1Task : c \in Client /\ c \notin Reader /\ c # "Writer"
    /\ g_mutex \in Mutex /\ g_mutex_read \in Mutex /\ g_mutex_write \in Mutex
    /\ g_mutex # g_mutex_read /\ g_mutex # g_mutex_write
    /\ g_mutex_read # g_mutex_write
    /\ IsFiniteSet(Reader)
  BY Demo1Assumption, Demo2Assumption, ShellAssumption
     DEF Demo1Task, Producer, Consumer

LEMMA EnterEffect ==
    ASSUME LockInv, NEW c \in Client, NEW m \in Mutex, Enter(c, m)
    PROVE  /\ Exists(m) /\ lock[m] \in LockType
           /\ lock'[m] \in LockType /\ lock'[m].type = lock[m].type
           /\ lock'[m].owner = IF lock[m].type = "Strict" THEN c ELSE Somebody
           /\ \A n \in Mutex : n # m => lock'[n] = lock[n]
<1> DEFINE owner == IF lock[m].type = "Strict" THEN c ELSE Somebody
           l == [lock[m] EXCEPT !.owner = owner]
<1>1. Exists(m) /\ lock[m] \in LockType
  BY DEF Enter, LockInv, Guarded, Exists
<1>2. owner \in Client \union {Nobody, Somebody, Gone}
  OBVIOUS
<1>3. lock' = [lock EXCEPT ![m] = l]
  BY Zenon DEF Enter
<1> HIDE DEF owner
<1>4. l \in LockType /\ l.owner = owner /\ l.type = lock[m].type
  BY <1>1, <1>2, WithOwner
<1> HIDE DEF l
<1>5. \A n \in Mutex : lock'[n] = IF n = m THEN l ELSE lock[n]
  BY <1>3 DEF LockInv
<1> QED
  BY <1>1, <1>4, <1>5 DEF owner

LEMMA ExitEffect ==
    ASSUME LockInv, NEW c \in Client, NEW m \in Mutex, Exit(c, m)
    PROVE  /\ Exists(m) /\ lock[m] \in LockType
           /\ lock'[m] \in LockType /\ lock'[m].type = lock[m].type
           /\ lock'[m].owner = Nobody
           /\ \A n \in Mutex : n # m => lock'[n] = lock[n]
<1> DEFINE l == [lock[m] EXCEPT !.owner = Nobody]
<1>1. Exists(m) /\ lock[m] \in LockType
  BY DEF Exit, LockInv, Guarded, Exists
<1>2. lock' = [lock EXCEPT ![m] = l]
  BY Zenon DEF Exit
<1>3. l \in LockType /\ l.owner = Nobody /\ l.type = lock[m].type
  BY <1>1, WithOwner
<1> HIDE DEF l
<1>4. \A n \in Mutex : lock'[n] = IF n = m THEN l ELSE lock[n]
  BY <1>2 DEF LockInv
<1> QED
  BY <1>1, <1>3, <1>4

\* A mutex that is locked for somebody other than c stays as it is when c ends.
LEMMA DieEffect ==
    ASSUME LockInv, NEW c \in Client, Die(c), NEW m \in Mutex
    PROVE  /\ Exists(m)' <=> Exists(m)
           /\ Exists(m) => lock'[m].type = lock[m].type
           /\ Exists(m) /\ lock[m].owner # c => lock'[m] = lock[m]
<1>1. lock'[m] = IF Exists(m) /\ lock[m].owner = c
                 THEN [lock[m] EXCEPT !.owner = Gone] ELSE lock[m]
  BY DEF Die
<1>2. CASE Exists(m) /\ lock[m].owner = c
  <2>1. lock[m] \in LockType
    BY <1>2 DEF LockInv, Guarded, Exists
  <2>2. lock'[m] \in LockType /\ lock'[m].type = lock[m].type
    BY <1>1, <1>2, <2>1, WithOwner
  <2> QED
    BY <1>2, <2>2, Special DEF Exists
<1>3. CASE ~(Exists(m) /\ lock[m].owner = c)
  BY <1>1, <1>3 DEF Exists
<1> QED
  BY <1>2, <1>3

\* A mutex that is destroyed was free.
LEMMA DestroyEffect ==
    ASSUME LockInv, NEW m \in Mutex, DestroyMutex(m), NEW n \in Mutex
    PROVE  \/ lock'[n] = lock[n]
           \/ IsFree(n) /\ ~Exists(n)'
  BY DEF DestroyMutex, Destroy, lockVars, LockInv, Exists

\* A step of module Lock that does not change what type a mutex is of.
LEMMA LocksKept ==
    ASSUME LocksOK, [LockNext]_lockVars, UNCHANGED starved,
           \A m \in {g_mutex_read, g_mutex_write} :
             Exists(m)' => Exists(m) /\ lock'[m].type = lock[m].type
    PROVE  LocksOK'
<1>1. LockInv'
  BY StepInv DEF LocksOK
<1> HIDE DEF LockInv
<1> QED
  BY <1>1 DEF LocksOK

LEMMA EnterLocks ==
    ASSUME LocksOK, UNCHANGED starved, NEW c \in Client, NEW m \in Mutex, Enter(c, m)
    PROVE  LocksOK'
<1>1. LockNext
  BY DEF LockNext
<1>2. \A n \in Mutex : Exists(n)' => Exists(n) /\ lock'[n].type = lock[n].type
  BY EnterEffect DEF LocksOK, Exists
<1> QED
  BY <1>1, <1>2, LocksKept, Names

\* The writer's mutex, which is normal, was free.
LEMMA EnterWriteEffect ==
    ASSUME LocksOK, NEW c \in Client, Enter(c, g_mutex_write)
    PROVE  /\ IsFree(g_mutex_write)
           /\ Locked'
           /\ lock'[g_mutex_read] = lock[g_mutex_read]
<1>1. /\ Exists(g_mutex_write) /\ lock[g_mutex_write].type = "Normal"
      /\ lock'[g_mutex_write] \in LockType /\ lock'[g_mutex_write].owner = Somebody
      /\ lock'[g_mutex_read] = lock[g_mutex_read]
  BY EnterEffect, Names DEF LocksOK
<1>2. lock[g_mutex_write].owner = Nobody
  BY <1>1 DEF Enter
<1> QED
  BY <1>1, <1>2, Special DEF IsFree, Locked, Exists

LEMMA ExitLocks ==
    ASSUME LocksOK, UNCHANGED starved, NEW c \in Client, NEW m \in Mutex, Exit(c, m)
    PROVE  LocksOK'
<1>1. LockNext
  BY DEF LockNext
<1>2. \A n \in Mutex : Exists(n)' => Exists(n) /\ lock'[n].type = lock[n].type
  BY ExitEffect DEF LocksOK, Exists
<1> QED
  BY <1>1, <1>2, LocksKept, Names

LEMMA DieLocks ==
    ASSUME LocksOK, UNCHANGED starved, NEW c \in Client, Die(c)
    PROVE  LocksOK'
<1>1. LockNext
  BY DEF LockNext
<1>2. \A n \in Mutex : Exists(n)' => Exists(n) /\ lock'[n].type = lock[n].type
  BY DieEffect DEF LocksOK
<1> QED
  BY <1>1, <1>2, LocksKept, Names

LEMMA DestroyLocks ==
    ASSUME LocksOK, UNCHANGED starved, NEW m \in Mutex, DestroyMutex(m)
    PROVE  LocksOK'
<1>1. [LockNext]_lockVars
  BY DEF LockNext, DestroyMutex, lockVars
<1>2. \A n \in Mutex : Exists(n)' => Exists(n) /\ lock'[n].type = lock[n].type
  BY DestroyEffect DEF LocksOK, Exists
<1> QED
  BY <1>1, <1>2, LocksKept, Names

LEMMA NoLockStep ==
    ASSUME LocksOK, UNCHANGED << lockVars, starved >>
    PROVE  LocksOK' /\ lock' = lock
<1>1. [LockNext]_lockVars /\ lock' = lock
  BY DEF lockVars
<1>2. \A n \in Mutex : Exists(n)' => Exists(n) /\ lock'[n].type = lock[n].type
  BY <1>1 DEF Exists
<1> QED
  BY <1>1, <1>2, LocksKept, Names

-----------------------------------------------------------------------------
(* Steps of tasks *)

LEMMA GotoEffect ==
    ASSUME TasksOK, UNCHANGED toRun, NEW c \in Client, NEW from, NEW to,
           Goto(c, from, to)
    PROVE  /\ TasksOK'
           /\ pc[c] = from /\ pc'[c] = to
           /\ \A d \in Client : d # c => pc'[d] = pc[d]
  BY DEF TasksOK, Goto

\* A step that moves no reader into a critical section, out of it, or past a point
\* where it is counted, and the writer into no critical section.
LEMMA QuietStep ==
    ASSUME HoldersOwn, CountRight, WriterOut,
           UNCHANGED g_count,
           \A r \in Reader : /\ pc'[r] \in Holding => pc[r] \in Holding
                             /\ pc'[r] \in Counting <=> pc[r] \in Counting
                             /\ pc'[r] \in Shutting => pc[r] \in Shutting
                             /\ pc'[r] = "letin" => pc[r] = "letin",
           \A r \in Reader : pc'[r] \in Holding =>
             lock'[g_mutex_read] = lock[g_mutex_read],
           pc'["Writer"] \in Critical => pc["Writer"] \in Critical,
           Shut' \/ pc'["Writer"] \in Critical =>
             lock'[g_mutex_write] = lock[g_mutex_write]
    PROVE  HoldersOwn' /\ CountRight' /\ WriterOut'
<1>1. HoldersOwn'
  BY DEF HoldersOwn, Exists
<1>2. Reading' = Reading
  BY DEF Reading, Counting
<1>3. CountRight'
  BY <1>2 DEF CountRight
<1>4. Shut' => Shut
  BY DEF Shut
<1>5. WriterOut'
  BY <1>4 DEF WriterOut, Locked, Exists
<1> QED
  BY <1>1, <1>3, <1>5

\* A mutex that is locked for the readers or the writer is not free.
LEMMA LockedNotFree ==
    ASSUME ReadersInv
    PROVE  /\ \A r \in Reader : pc[r] \in Holding => ~IsFree(g_mutex_read)
           /\ Shut \/ pc["Writer"] \in Critical => ~IsFree(g_mutex_write)
  BY Names, Special DEF ReadersInv, HoldersOwn, WriterOut, Locked, IsFree

\* A task other than a reader moves, but not into the writer's critical section.
LEMMA OtherMoves ==
    ASSUME ReadersInv, LocksOK', UNCHANGED << toRun, g_count >>,
           NEW c \in Client, c \notin Reader,
           NEW from, NEW to, Goto(c, from, to),
           c = "Writer" /\ to \in Critical => from \in Critical,
           \A m \in {g_mutex_read, g_mutex_write} : IsFree(m) \/ lock'[m] = lock[m]
    PROVE  ReadersInv'
<1>1. /\ TasksOK' /\ pc[c] = from /\ pc'[c] = to
      /\ \A d \in Client : d # c => pc'[d] = pc[d]
  BY GotoEffect DEF ReadersInv
<1>2. \A r \in Reader : pc'[r] = pc[r]
  BY <1>1, Names
<1>3. pc'["Writer"] \in Critical => pc["Writer"] \in Critical
  BY <1>1, Names
<1>4. \A r \in Reader : pc'[r] \in Holding => lock'[g_mutex_read] = lock[g_mutex_read]
  BY <1>2, LockedNotFree
<1>5. Shut' => Shut
  BY <1>2 DEF Shut
<1>6. Shut' \/ pc'["Writer"] \in Critical => lock'[g_mutex_write] = lock[g_mutex_write]
  BY <1>3, <1>5, LockedNotFree
<1>7. HoldersOwn' /\ CountRight' /\ WriterOut'
  BY <1>2, <1>3, <1>4, <1>6, QuietStep DEF ReadersInv
<1> QED
  BY <1>1, <1>7 DEF ReadersInv

LEMMA Demo1KeepsInv ==
    ASSUME ReadersInv, NEW c \in Client, Demo1Step(c) \/ Demo1Enter(c), UNCHANGED demo2Vars
    PROVE  ReadersInv'
<1>1. UNCHANGED g_count /\ LocksOK /\ TasksOK /\ LockInv
  BY DEF demo2Vars, ReadersInv, LocksOK
<1>2. ASSUME c \notin Reader, c # "Writer", UNCHANGED << lockVars, starved, toRun >>,
             NEW from, NEW to, Goto(c, from, to)
      PROVE  ReadersInv'
  <2>1. LocksOK' /\ lock' = lock
    BY <1>1, <1>2, NoLockStep
  <2> QED
    BY <1>1, <1>2, <2>1, OtherMoves
<1>3. CASE c \in Demo1Task /\ (Name(c) \/ LeaveShop(c) \/ EnterShop(c))
  <2>1. c \notin Reader /\ c # "Writer"
    BY <1>3, Names
  <2>2. CASE Name(c)
    <3>1. Goto(c, "name", "enter") /\ UNCHANGED << lockVars, starved, toRun >>
      BY <2>2 DEF Name
    <3> QED
      BY <1>2, <2>1, <3>1
  <2>3. CASE LeaveShop(c)
    <3>1. /\ Exit(c, g_mutex) /\ UNCHANGED << starved, toRun >>
          /\ \E to \in {"enter", "end"} : Goto(c, "leave", to)
      BY <2>3 DEF LeaveShop, Exiting
    <3>2. LocksOK' /\ \A m \in {g_mutex_read, g_mutex_write} : lock'[m] = lock[m]
      BY <1>1, <3>1, ExitLocks, ExitEffect, Names
    <3> QED
      BY <1>1, <2>1, <3>1, <3>2, OtherMoves
  <2>4. CASE EnterShop(c)
    <3>1. /\ Enter(c, g_mutex) /\ UNCHANGED << starved, toRun >>
          /\ Goto(c, "enter", "check")
      BY <2>4 DEF EnterShop, Entering
    <3>2. LocksOK' /\ \A m \in {g_mutex_read, g_mutex_write} : lock'[m] = lock[m]
      BY <1>1, <3>1, EnterLocks, EnterEffect, Names
    <3> QED
      BY <1>1, <2>1, <3>1, <3>2, OtherMoves
  <2> QED
    BY <1>3, <2>2, <2>3, <2>4
<1>4. CASE c \in Producer \union Consumer /\ (Produce(c) \/ Count(c) \/ Consume(c) \/ Take(c))
  <2>1. c \notin Reader /\ c # "Writer"
    BY <1>4, Names DEF Demo1Task
  <2>2. /\ UNCHANGED << lockVars, starved, toRun >>
        /\ \E from, to \in {"check", "count", "take", "leave"} : Goto(c, from, to)
    BY <1>4, Zenon DEF Produce, Count, Consume, Take
  <2> QED
    BY <1>2, <2>1, <2>2
<1>5. CASE c = "Deinit" /\ Deinit1(c)
  <2>1. c \notin Reader /\ c # "Writer"
    BY <1>5, Names
  <2>2. CASE Goto(c, "wait1", "deinit1") /\ UNCHANGED << lockVars, starved, toRun >>
    BY <1>2, <2>1, <2>2
  <2>3. CASE Goto(c, "deinit1", "end") /\ DestroyMutex(g_mutex) /\ UNCHANGED << starved, toRun >>
    <3>1. LocksOK' /\ \A m \in Mutex : IsFree(m) \/ lock'[m] = lock[m]
      BY <1>1, <2>3, DestroyLocks, DestroyEffect, Names
    <3> QED
      BY <1>1, <2>1, <2>3, <3>1, OtherMoves, Names
  <2> QED
    BY <1>5, <2>2, <2>3, Zenon DEF Deinit1
<1> QED
  BY <1>3, <1>4, <1>5, Zenon DEF Demo1Step, Demo1Enter, Demo1Task

LEMMA WriterKeepsInv ==
    ASSUME ReadersInv, WriterStep("Writer") \/ EnterWriter("Writer")
    PROVE  ReadersInv'
<1>1. LocksOK /\ TasksOK /\ LockInv /\ "Writer" \in Client /\ "Writer" \notin Reader
  BY Names DEF ReadersInv, LocksOK
<1>2. CASE \/ Goto("Writer", "title", "open")
           \/ Goto("Writer", "write", "close") \/ Goto("Writer", "clear", "cleared")
  <2>1. UNCHANGED << lockVars, starved, toRun, g_count >>
    BY <1>2, <1>1 DEF WriterStep, EnterWriter, Title, Write, ExitWriter, Entering, Exiting,
                 Goto, demo2Vars
  <2>2. LocksOK' /\ lock' = lock
    BY <1>1, <2>1, NoLockStep
  <2> QED
    BY <1>1, <1>2, <2>1, <2>2, OtherMoves DEF Critical
<1>3. CASE EnterWriter("Writer")
  <2>1. /\ Enter("Writer", g_mutex_write)
        /\ \E to \in {"write", "clear"} : Goto("Writer", "open", to)
        /\ UNCHANGED << starved, toRun, g_count >>
    BY <1>3 DEF EnterWriter, Entering, demo2Vars
  <2>2. LocksOK'
    BY <1>1, <2>1, EnterLocks, Names
  <2>3. IsFree(g_mutex_write) /\ Locked' /\ lock'[g_mutex_read] = lock[g_mutex_read]
    BY <1>1, <2>1, EnterWriteEffect
  <2>4. ~Shut
    BY <2>3, LockedNotFree
  <2>5. TasksOK' /\ \A d \in Client : d # "Writer" => pc'[d] = pc[d]
    BY <1>1, <2>1, GotoEffect
  <2>6. \A r \in Reader : pc'[r] = pc[r]
    BY <1>1, <2>5, Names
  <2>7. Reading' = Reading /\ (Shut' <=> Shut)
    BY <2>6 DEF Reading, Shut
  <2>8. HoldersOwn' /\ CountRight'
    BY <2>1, <2>3, <2>6, <2>7 DEF ReadersInv, HoldersOwn, CountRight, Exists
  <2>9. WriterOut'
    BY <2>3, <2>4, <2>7, Special DEF WriterOut, Locked, Exists
  <2> QED
    BY <2>2, <2>5, <2>8, <2>9 DEF ReadersInv
<1>4. CASE ExitWriter("Writer")
  <2>1. /\ Exit("Writer", g_mutex_write)
        /\ \/ Goto("Writer", "close", "open")
           \/ Goto("Writer", "cleared", "end")
        /\ UNCHANGED << starved, toRun, g_count >>
    BY <1>4 DEF ExitWriter, Exiting, demo2Vars
  <2>2. LocksOK'
    BY <1>1, <2>1, ExitLocks, Names
  <2>3. lock'[g_mutex_read] = lock[g_mutex_read]
    BY <1>1, <2>1, ExitEffect, Names
  <2>4. /\ TasksOK' /\ pc["Writer"] \in {"close", "cleared"} /\ pc'["Writer"] \in {"open", "end"}
        /\ \A d \in Client : d # "Writer" => pc'[d] = pc[d]
    BY <1>1, <2>1, GotoEffect
  <2>5. \A r \in Reader : pc'[r] = pc[r]
    BY <1>1, <2>4, Names
  <2>6. ~Shut /\ ~Shut' /\ pc'["Writer"] \notin Critical
    BY <2>4, <2>5 DEF ReadersInv, WriterOut, Critical, Shut
  <2>7. HoldersOwn' /\ CountRight' /\ WriterOut'
    BY <2>1, <2>3, <2>5, <2>6, QuietStep DEF ReadersInv
  <2> QED
    BY <2>2, <2>4, <2>7 DEF ReadersInv
<1> QED
  BY <1>2, <1>3, <1>4, Zenon DEF WriterStep, Title, Write

LEMMA Deinit2KeepsInv ==
    ASSUME ReadersInv, Deinit2("Deinit")
    PROVE  ReadersInv'
<1>1. /\ LocksOK /\ TasksOK /\ LockInv
      /\ "Deinit" \in Client /\ "Deinit" \notin Reader /\ "Deinit" # "Writer"
  BY Names DEF ReadersInv, LocksOK
<1>2. CASE Goto("Deinit", "wait2", "deinit2")
           /\ UNCHANGED << lockVars, starved, toRun, demo2Vars >>
  <2>1. LocksOK' /\ lock' = lock
    BY <1>1, <1>2, NoLockStep
  <2> QED
    BY <1>1, <1>2, <2>1, OtherMoves DEF demo2Vars
<1>3. ASSUME NEW m \in Mutex, DestroyMutex(m), UNCHANGED << starved, toRun, demo2Vars >>,
             NEW from, NEW to, Goto("Deinit", from, to)
      PROVE  ReadersInv'
  <2>1. LocksOK' /\ \A n \in Mutex : IsFree(n) \/ lock'[n] = lock[n]
    BY <1>1, <1>3, DestroyLocks, DestroyEffect
  <2> QED
    BY <1>1, <1>3, <2>1, OtherMoves, Names DEF demo2Vars
<1> QED
  BY <1>2, <1>3, Names, Zenon DEF Deinit2

\* A task that ends is not in a critical section.
LEMMA EndKeepsInv ==
    ASSUME ReadersInv, NEW c \in Client, End(c), UNCHANGED demo2Vars
    PROVE  ReadersInv'
<1>1. LocksOK /\ TasksOK /\ LockInv
  BY DEF ReadersInv, LocksOK
<1>2. Goto(c, "end", "absent") /\ Die(c) /\ UNCHANGED << starved, toRun, g_count >>
  BY DEF End, demo2Vars
<1>3. LocksOK'
  BY <1>1, <1>2, DieLocks
<1>4. /\ TasksOK' /\ pc[c] = "end" /\ pc'[c] = "absent"
      /\ \A d \in Client : d # c => pc'[d] = pc[d]
  BY <1>1, <1>2, GotoEffect
<1>5. \A r \in Reader : /\ pc'[r] \in Holding => r # c /\ pc[r] \in Holding
                        /\ pc'[r] \in Counting <=> pc[r] \in Counting
                        /\ pc'[r] \in Shutting => pc[r] \in Shutting
                        /\ pc'[r] = "letin" => pc[r] = "letin"
  BY <1>4, Names DEF Holding, Counting, Shutting
<1>6. pc'["Writer"] \in Critical => pc["Writer"] \in Critical
  BY <1>4, Names DEF Critical
<1>7. \A r \in Reader : pc'[r] \in Holding => lock'[g_mutex_read] = lock[g_mutex_read]
  BY <1>1, <1>2, <1>5, DieEffect, Names DEF ReadersInv, HoldersOwn
<1>8. Shut' => Shut
  BY <1>5 DEF Shut
<1>9. Shut' \/ pc'["Writer"] \in Critical => lock'[g_mutex_write] = lock[g_mutex_write]
  <2>1. Shut' \/ pc'["Writer"] \in Critical => Locked
    BY <1>6, <1>8 DEF ReadersInv, WriterOut
  <2>2. Somebody # c
    BY Special
  <2> QED
    BY <1>1, <1>2, <2>1, <2>2, DieEffect, Names DEF Locked
<1>10. HoldersOwn' /\ CountRight' /\ WriterOut'
  BY <1>2, <1>5, <1>6, <1>7, <1>9, QuietStep DEF ReadersInv
<1> QED
  BY <1>3, <1>4, <1>10 DEF ReadersInv

-----------------------------------------------------------------------------
(* Steps of a reader *)

\* One reader at most is in the readers' critical section.
LEMMA HolderAlone ==
    ASSUME HoldersOwn, NEW r \in Reader, NEW q \in Reader,
           pc[r] \in Holding, pc[q] \in Holding
    PROVE  q = r
  BY DEF HoldersOwn

LEMMA ReaderEnters ==
    ASSUME ReadersInv, NEW r \in Reader, EnterReader(r)
    PROVE  ReadersInv'
<1>1. LocksOK /\ TasksOK /\ LockInv /\ r \in Client
  BY Names DEF ReadersInv, LocksOK
<1>2. /\ Enter(r, g_mutex_read) /\ UNCHANGED << starved, toRun, g_count >>
      /\ Goto(r, "read", "first") \/ Goto(r, "reread", "uncount")
  BY DEF EnterReader, Entering, demo2Vars
<1>3. LocksOK'
  BY <1>1, <1>2, EnterLocks, Names
<1>4. /\ Exists(g_mutex_read)' /\ lock'[g_mutex_read].owner = r
      /\ lock'[g_mutex_write] = lock[g_mutex_write]
  BY <1>1, <1>2, EnterEffect, Special, Names DEF LocksOK, Exists
<1>5. lock[g_mutex_read].owner \in {Nobody, r}
  BY <1>2 DEF Enter
<1>6. /\ TasksOK'
      /\ \/ pc[r] = "read" /\ pc'[r] = "first"
         \/ pc[r] = "reread" /\ pc'[r] = "uncount"
      /\ \A d \in Client : d # r => pc'[d] = pc[d]
  BY <1>1, <1>2, GotoEffect
<1>7. \A q \in Reader : q # r => pc'[q] = pc[q]
  BY <1>6, Names
<1>8. \A q \in Reader : q # r => pc[q] \notin Holding
  BY <1>1, <1>5, Special, Names DEF ReadersInv, HoldersOwn
<1>9. HoldersOwn'
  BY <1>4, <1>7, <1>8 DEF HoldersOwn
<1>10. \A q \in Reader : /\ pc'[q] \in Counting <=> pc[q] \in Counting
                         /\ pc'[q] \in Shutting => pc[q] \in Shutting
                         /\ pc'[q] = "letin" => pc[q] = "letin"
  BY <1>6, <1>7 DEF Counting, Shutting
<1>11. Reading' = Reading
  BY <1>10 DEF Reading, Counting
<1>12. CountRight'
  BY <1>2, <1>10, <1>11 DEF ReadersInv, CountRight
<1>13. pc'["Writer"] = pc["Writer"]
  BY <1>6, Names
<1>14. Shut' => Shut
  BY <1>10 DEF Shut
<1>15. WriterOut'
  BY <1>4, <1>13, <1>14 DEF ReadersInv, WriterOut, Locked, Exists
<1> QED
  BY <1>3, <1>6, <1>9, <1>12, <1>15 DEF ReadersInv

LEMMA ReaderShuts ==
    ASSUME ReadersInv, NEW r \in Reader, ShutOut(r)
    PROVE  ReadersInv'
<1>1. LocksOK /\ TasksOK /\ LockInv /\ r \in Client
  BY Names DEF ReadersInv, LocksOK
<1>2. /\ Enter(r, g_mutex_write) /\ UNCHANGED << starved, toRun, g_count >>
      /\ Goto(r, "shut", "count")
  BY DEF ShutOut, Entering, demo2Vars
<1>3. LocksOK'
  BY <1>1, <1>2, EnterLocks, Names
<1>4. IsFree(g_mutex_write) /\ Locked' /\ lock'[g_mutex_read] = lock[g_mutex_read]
  BY <1>1, <1>2, EnterWriteEffect
<1>5. /\ TasksOK' /\ pc[r] = "shut" /\ pc'[r] = "count"
      /\ \A d \in Client : d # r => pc'[d] = pc[d]
  BY <1>1, <1>2, GotoEffect
<1>6. \A q \in Reader : q # r => pc'[q] = pc[q]
  BY <1>5, Names
<1>7. HoldersOwn'
  BY <1>4, <1>5, <1>6 DEF ReadersInv, HoldersOwn, Holding, Exists
<1>8. Reading' = Reading
  BY <1>5, <1>6 DEF Reading
<1>9. CountRight'
  BY <1>2, <1>5, <1>6, <1>8 DEF ReadersInv, CountRight
<1>10. pc'["Writer"] = pc["Writer"] /\ pc["Writer"] \notin Critical
  BY <1>4, <1>5, LockedNotFree, Names
<1>11. WriterOut'
  BY <1>4, <1>10 DEF WriterOut
<1> QED
  BY <1>3, <1>5, <1>7, <1>9, <1>11 DEF ReadersInv

\* A reader that moves where it is neither counted nor lets anybody in.
LEMMA ReaderMoves ==
    ASSUME ReadersInv, NEW r \in Reader, First(r) \/ Test(r) \/ Show(r)
    PROVE  ReadersInv'
<1>1. LocksOK /\ TasksOK /\ LockInv /\ r \in Client
  BY Names DEF ReadersInv, LocksOK
<1>2. /\ UNCHANGED << lockVars, starved, toRun, g_count >>
      /\ \/ Goto(r, "first", "shut")
         \/ Goto(r, "first", "count") /\ g_count # 0
         \/ Goto(r, "test", "show") \/ Goto(r, "test", "reread")
         \/ Goto(r, "show", "reread")
  BY Zenon DEF First, Test, Show, demo2Vars
<1>3. LocksOK' /\ lock' = lock
  BY <1>1, <1>2, NoLockStep
<1>4. /\ TasksOK'
      /\ \/ pc[r] = "first" /\ pc'[r] = "shut"
         \/ pc[r] = "first" /\ pc'[r] = "count" /\ g_count # 0
         \/ pc[r] = "test" /\ pc'[r] \in {"show", "reread"}
         \/ pc[r] = "show" /\ pc'[r] = "reread"
      /\ \A d \in Client : d # r => pc'[d] = pc[d]
  BY <1>1, <1>2, GotoEffect
<1>5. \A q \in Reader : q # r => pc'[q] = pc[q]
  BY <1>4, Names
<1>6. \A q \in Reader : /\ pc'[q] \in Holding => pc[q] \in Holding
                        /\ pc'[q] \in Counting <=> pc[q] \in Counting
                        /\ pc'[q] = "letin" => pc[q] = "letin"
  BY <1>4, <1>5 DEF Holding, Counting
<1>7. HoldersOwn'
  BY <1>3, <1>6 DEF ReadersInv, HoldersOwn, Exists
<1>8. Reading' = Reading
  BY <1>6 DEF Reading, Counting
<1>9. CountRight'
  BY <1>2, <1>6, <1>8 DEF ReadersInv, CountRight
<1>10. Reading # {} => Shut
  BY DEF Reading, Shut, Shutting, Counting
<1>11. g_count # 0 => Shut
  BY <1>10, FS_EmptySet DEF ReadersInv, CountRight
<1>12. Shut' => Shut
  BY <1>4, <1>5, <1>11 DEF Shut, Shutting, Counting
<1>13. pc'["Writer"] = pc["Writer"]
  BY <1>4, Names
<1>14. WriterOut'
  BY <1>3, <1>12, <1>13 DEF ReadersInv, WriterOut, Locked, Exists
<1> QED
  BY <1>3, <1>4, <1>7, <1>9, <1>14 DEF ReadersInv

LEMMA ReadingFinite == IsFiniteSet(Reading)
  BY FS_Subset, Names DEF Reading

LEMMA ReaderCounts ==
    ASSUME ReadersInv, NEW r \in Reader, CountReader(r) \/ UncountReader(r)
    PROVE  ReadersInv'
<1>1. LocksOK /\ TasksOK /\ LockInv /\ r \in Client
  BY Names DEF ReadersInv, LocksOK
<1>2. /\ UNCHANGED << lockVars, starved, toRun >>
      /\ \/ Goto(r, "count", "counted") /\ g_count' = g_count + 1
         \/ Goto(r, "uncount", "letin") /\ g_count = 1 /\ g_count' = g_count - 1
         \/ Goto(r, "uncount", "uncounted") /\ g_count # 1 /\ g_count' = g_count - 1
  BY Zenon DEF CountReader, UncountReader
<1>3. LocksOK' /\ lock' = lock
  BY <1>1, <1>2, NoLockStep
<1>4. /\ TasksOK'
      /\ \/ /\ pc[r] = "count" /\ pc'[r] = "counted" /\ g_count' = g_count + 1
         \/ /\ pc[r] = "uncount" /\ g_count' = g_count - 1
            /\ \/ pc'[r] = "letin" /\ g_count = 1
               \/ pc'[r] = "uncounted" /\ g_count # 1
      /\ \A d \in Client : d # r => pc'[d] = pc[d]
  BY <1>1, <1>2, GotoEffect
<1>5. \A q \in Reader : q # r => pc'[q] = pc[q]
  BY <1>4, Names
<1>6. HoldersOwn'
  BY <1>3, <1>4, <1>5 DEF ReadersInv, HoldersOwn, Holding, Exists
<1>7. \A q \in Reader : q # r => pc'[q] # "letin"
  BY <1>4, <1>5, HolderAlone DEF ReadersInv, Holding
<1>8. g_count = Cardinality(Reading) /\ IsFiniteSet(Reading)
  BY ReadingFinite DEF ReadersInv, CountRight
<1>9. CASE pc[r] = "count" /\ pc'[r] = "counted" /\ g_count' = g_count + 1
  <2>1. Reading' = Reading \union {r} /\ r \notin Reading
    BY <1>5, <1>9 DEF Reading
  <2>2. Cardinality(Reading') = Cardinality(Reading) + 1
    BY <1>8, <2>1, FS_AddElement
  <2>3. CountRight'
    BY <1>7, <1>8, <1>9, <2>2 DEF CountRight
  <2>4. Shut
    BY <1>9 DEF Shut, Shutting
  <2>5. WriterOut'
    BY <1>3, <1>4, <2>4, Names DEF ReadersInv, WriterOut, Locked, Exists
  <2> QED
    BY <1>3, <1>4, <1>6, <2>3, <2>5 DEF ReadersInv
<1>10. CASE pc[r] = "uncount" /\ g_count' = g_count - 1
  <2>1. Reading' = Reading \ {r} /\ r \in Reading
    BY <1>4, <1>5, <1>10 DEF Reading
  <2>2. /\ IsFiniteSet(Reading \ {r})
        /\ Cardinality(Reading \ {r}) = Cardinality(Reading) - 1
    BY <1>8, <2>1, FS_RemoveElement
  <2>3. Cardinality(Reading') = g_count'
    BY <1>8, <1>10, <2>1, <2>2
  <2>4. g_count = 1 => Reading' = {}
    BY <1>8, <2>1, <2>2, FS_EmptySet
  <2>5. CountRight'
    BY <1>4, <1>7, <1>10, <2>3, <2>4 DEF CountRight
  <2>6. Shut
    BY <1>10 DEF Shut, Shutting, Counting
  <2>7. WriterOut'
    BY <1>3, <1>4, <2>6, Names DEF ReadersInv, WriterOut, Locked, Exists
  <2> QED
    BY <1>3, <1>4, <1>6, <2>5, <2>7 DEF ReadersInv
<1> QED
  BY <1>4, <1>9, <1>10

\* The last reader lets the writer in: nobody else is counted or about to be.
LEMMA ReaderLetsIn ==
    ASSUME ReadersInv, NEW r \in Reader, LetIn(r)
    PROVE  ReadersInv'
<1>1. LocksOK /\ TasksOK /\ LockInv /\ r \in Client
  BY Names DEF ReadersInv, LocksOK
<1>2. /\ Exit(r, g_mutex_write) /\ UNCHANGED << starved, toRun, g_count >>
      /\ Goto(r, "letin", "uncounted")
  BY DEF LetIn, Exiting, demo2Vars
<1>3. LocksOK'
  BY <1>1, <1>2, ExitLocks, Names
<1>4. lock'[g_mutex_read] = lock[g_mutex_read]
  BY <1>1, <1>2, ExitEffect, Names
<1>5. /\ TasksOK' /\ pc[r] = "letin" /\ pc'[r] = "uncounted"
      /\ \A d \in Client : d # r => pc'[d] = pc[d]
  BY <1>1, <1>2, GotoEffect
<1>6. \A q \in Reader : q # r => pc'[q] = pc[q]
  BY <1>5, Names
<1>7. Reading = {} /\ Shut
  BY <1>5 DEF ReadersInv, CountRight, Shut, Shutting
<1>8. ASSUME NEW q \in Reader, q # r
      PROVE  pc[q] \notin Shutting
  <2>1. pc[q] \notin Holding
    BY <1>5, <1>8, HolderAlone DEF ReadersInv, Holding
  <2>2. pc[q] \notin Counting
    BY <1>7 DEF Reading, Counting
  <2> QED
    BY <2>1, <2>2 DEF Shutting, Holding
<1>9. ~Shut'
  BY <1>5, <1>6, <1>8 DEF Shut, Shutting, Counting
<1>10. HoldersOwn'
  BY <1>4, <1>5, <1>6 DEF ReadersInv, HoldersOwn, Holding, Exists
<1>11. Reading' = Reading
  BY <1>5, <1>6 DEF Reading
<1>12. CountRight'
  BY <1>2, <1>7, <1>11 DEF ReadersInv, CountRight
<1>13. pc'["Writer"] \notin Critical
  BY <1>5, <1>7, Names DEF ReadersInv, WriterOut
<1>14. WriterOut'
  BY <1>9, <1>13 DEF WriterOut
<1> QED
  BY <1>3, <1>5, <1>10, <1>12, <1>14 DEF ReadersInv

LEMMA ReaderLeaves ==
    ASSUME ReadersInv, NEW r \in Reader, Counted(r) \/ Uncounted(r)
    PROVE  ReadersInv'
<1>1. LocksOK /\ TasksOK /\ LockInv /\ r \in Client
  BY Names DEF ReadersInv, LocksOK
<1>2. /\ Exit(r, g_mutex_read) /\ UNCHANGED << starved, toRun, g_count >>
      /\ \/ Goto(r, "counted", "test")
         \/ \E to \in {"read", "end"} : Goto(r, "uncounted", to)
  BY DEF Counted, Uncounted, Exiting, demo2Vars
<1>3. LocksOK'
  BY <1>1, <1>2, ExitLocks, Names
<1>4. lock'[g_mutex_write] = lock[g_mutex_write]
  BY <1>1, <1>2, ExitEffect, Names
<1>5. /\ TasksOK'
      /\ \/ pc[r] = "counted" /\ pc'[r] = "test"
         \/ pc[r] = "uncounted" /\ pc'[r] \in {"read", "end"}
      /\ \A d \in Client : d # r => pc'[d] = pc[d]
  BY <1>1, <1>2, GotoEffect
<1>6. \A q \in Reader : q # r => pc'[q] = pc[q]
  BY <1>5, Names
<1>7. \A q \in Reader : pc'[q] \notin Holding
  BY <1>5, <1>6, HolderAlone DEF ReadersInv, Holding
<1>8. \A q \in Reader : /\ pc'[q] \in Counting <=> pc[q] \in Counting
                        /\ pc'[q] \in Shutting => pc[q] \in Shutting
                        /\ pc'[q] = "letin" => pc[q] = "letin"
  BY <1>5, <1>6 DEF Counting, Shutting
<1>9. pc'["Writer"] = pc["Writer"]
  BY <1>5, Names
<1>10. HoldersOwn' /\ CountRight' /\ WriterOut'
  BY <1>2, <1>4, <1>7, <1>8, <1>9, QuietStep DEF ReadersInv
<1> QED
  BY <1>3, <1>5, <1>10 DEF ReadersInv

-----------------------------------------------------------------------------
(* The shell, and tasks that begin *)

\* A task begins outside of all critical sections.
LEMMA CreateKeepsInv ==
    ASSUME ReadersInv, CreateTask, UNCHANGED demo2Vars
    PROVE  ReadersInv'
<1>1. LocksOK /\ TasksOK
  BY DEF ReadersInv
<1>2. LocksOK' /\ lock' = lock
  BY <1>1, NoLockStep DEF CreateTask
<1>3. toRun \in Seq(AppInfo) /\ toRun # << >>
  BY <1>1 DEF TasksOK, AppInfo, CreateTask
<1>4. Head(toRun) \in AppInfo /\ Tail(toRun) \in Seq(AppInfo)
  BY <1>3
<1> DEFINE c == Head(toRun).name
           main == Head(toRun).main
<1>5. c \in Client /\ main \in Begin
  BY <1>4 DEF AppInfo
<1>6. toRun' \in Seq(AppInfo) /\ pc' = [pc EXCEPT ![c] = main] /\ pc[c] = "absent"
  BY <1>4 DEF CreateTask, Absence
<1> HIDE DEF c, main
<1>7. /\ TasksOK'
      /\ pc'[c] = main
      /\ \A d \in Client : d # c => pc'[d] = pc[d]
  BY <1>1, <1>5, <1>6 DEF TasksOK, AppInfo
<1>8. \A d \in Client : pc'[d] = pc[d] \/ (pc[d] = "absent" /\ pc'[d] \in Begin)
  BY <1>5, <1>6, <1>7
<1>9. \A r \in Reader : /\ pc'[r] \in Holding => pc[r] \in Holding
                        /\ pc'[r] \in Counting <=> pc[r] \in Counting
                        /\ pc'[r] \in Shutting => pc[r] \in Shutting
                        /\ pc'[r] = "letin" => pc[r] = "letin"
  BY <1>8, Names DEF Begin, Holding, Counting, Shutting
<1>10. pc'["Writer"] \in Critical => pc["Writer"] \in Critical
  BY <1>8, Names DEF Begin, Critical
<1>11. UNCHANGED g_count
  BY DEF demo2Vars
<1>12. HoldersOwn' /\ CountRight' /\ WriterOut'
  BY <1>2, <1>9, <1>10, <1>11, QuietStep DEF ReadersInv
<1> QED
  BY <1>2, <1>7, <1>12 DEF ReadersInv

\* A step of the shell that starts nothing.
LEMMA ShellKeepsInv ==
    ASSUME ReadersInv, UNCHANGED << lockVars, starved, toRun, taskVars, demo2Vars >>
    PROVE  ReadersInv'
<1>1. LocksOK' /\ lock' = lock
  BY NoLockStep DEF ReadersInv
<1>2. UNCHANGED << toRun, pc, g_count >>
  BY DEF taskVars, demo2Vars
<1> QED
  BY <1>1, <1>2
     DEF ReadersInv, TasksOK, HoldersOwn, CountRight, WriterOut, Reading, Shut, Locked, Exists

LEMMA RunDemo1KeepsInv ==
    ASSUME ReadersInv, RunDemo1, UNCHANGED demo2Vars
    PROVE  ReadersInv'
<1>1. LocksOK /\ TasksOK /\ LockInv /\ "Deinit" \in Client
  BY Names DEF ReadersInv, LocksOK
<1>2. /\ Create(g_mutex, "Strict") /\ UNCHANGED << starved, taskVars, demo2Vars >>
  BY DEF RunDemo1
<1>3. \A m \in Mutex : m # g_mutex => lock'[m] = lock[m]
  BY <1>1, <1>2 DEF Create, LockInv
<1>4. LockNext
  BY <1>2, Names DEF LockNext
<1>5. LocksOK'
  BY <1>1, <1>2, <1>3, <1>4, LocksKept, Names DEF Exists
<1> DEFINE four == [i \in 1 .. 4 |-> [name |-> << "PA", "PB", "CA", "CB" >>[i], main |-> "name"]]
           five == << [name |-> "Deinit", main |-> "wait1"] >>
<1>6. /\ "PA" \in Client /\ "PB" \in Client /\ "CA" \in Client /\ "CB" \in Client
  BY Names DEF Demo1Task, Producer, Consumer
<1>7. \A i \in 1 .. 4 : four[i] \in AppInfo
  BY <1>6 DEF AppInfo, Begin
<1>8. four \in Seq(AppInfo)
  BY <1>7
<1>9. five \in Seq(AppInfo)
  BY <1>1 DEF AppInfo, Begin
<1>10. toRun' = toRun \o (four \o five)
  BY DEF RunDemo1, RegApps
<1> HIDE DEF four, five
<1>11. toRun' \in Seq(AppInfo)
  BY <1>1, <1>8, <1>9, <1>10 DEF TasksOK, AppInfo
<1>12. UNCHANGED << pc, g_count, lock[g_mutex_read], lock[g_mutex_write] >>
  BY <1>2, <1>3, Names DEF taskVars, demo2Vars
<1>13. TasksOK'
  BY <1>1, <1>11, <1>12 DEF TasksOK, AppInfo
<1>14. HoldersOwn' /\ CountRight' /\ WriterOut'
  BY <1>12, QuietStep DEF ReadersInv, Shut
<1> QED
  BY <1>5, <1>13, <1>14 DEF ReadersInv

\* Readers is a list of readers.
LEMMA ReadersList ==
    /\ Cardinality(Reader) \in Nat
    /\ Readers \in [1 .. Cardinality(Reader) -> Reader]
<1> DEFINE n == Cardinality(Reader)
           Lists(s) == s \in [1 .. n -> Reader] /\ \A r \in Reader : \E i \in DOMAIN s : s[i] = r
<1>1. n \in Nat /\ ExistsBijection(1 .. n, Reader)
  BY FS_CardinalityType, Names
<1>2. PICK s \in Bijection(1 .. n, Reader) : TRUE
  BY <1>1 DEF ExistsBijection
<1> HIDE DEF n
<1>3. Lists(s)
  BY <1>2 DEF Bijection, Injection, Surjection
<1>4. Readers = CHOOSE t \in [1 .. n -> Reader] : \A r \in Reader : \E i \in DOMAIN t : t[i] = r
  BY DEF Readers, n
<1>5. Readers \in [1 .. n -> Reader]
  BY <1>3, <1>4
<1> QED
  BY <1>1, <1>5 DEF n

\* Names are registered with what they begin with.
LEMMA ReadersRegistered ==
    [i \in DOMAIN Readers |-> [name |-> Readers[i], main |-> "read"]] \in Seq(AppInfo)
<1> DEFINE n == Cardinality(Reader)
<1>1. n \in Nat /\ Readers \in [1 .. n -> Reader]
  BY ReadersList
<1> HIDE DEF n
<1>2. \A i \in 1 .. n : [name |-> Readers[i], main |-> "read"] \in AppInfo
  BY <1>1, Names DEF AppInfo, Begin
<1>3. DOMAIN Readers = 1 .. n
  BY <1>1
<1> QED
  BY <1>1, <1>2, <1>3

\* The mutexes did not exist, so nobody was in a critical section or counted.
LEMMA RunDemo2KeepsInv ==
    ASSUME ReadersInv, RunDemo2
    PROVE  ReadersInv'
<1>1. LocksOK /\ TasksOK /\ LockInv /\ "Writer" \in Client /\ "Deinit" \in Client
  BY Names DEF ReadersInv, LocksOK
<1>2. ~Exists(g_mutex_write) /\ ~Exists(g_mutex_read) /\ UNCHANGED << starved, pc >> /\ g_count' = 0
  BY DEF RunDemo2, taskVars
<1> DEFINE free(type) == [type |-> type, owner |-> Nobody]
<1>3. Guarded(free("Normal"), {}) /\ Guarded(free("Strict"), {})
  BY NewGuarded
<1>4. /\ free("Normal").type = "Normal" /\ free("Strict").type = "Strict"
  OBVIOUS
<1>5. /\ lock' = [lock EXCEPT ![g_mutex_write] = free("Normal"), ![g_mutex_read] = free("Strict")]
      /\ in' = [in EXCEPT ![g_mutex_write] = {}, ![g_mutex_read] = {}]
  BY DEF RunDemo2
<1> HIDE DEF free
<1>6. /\ \A m \in Mutex : lock'[m] = IF m = g_mutex_write THEN free("Normal")
                                   ELSE IF m = g_mutex_read THEN free("Strict") ELSE lock[m]
      /\ \A m \in Mutex : in'[m] = IF m \in {g_mutex_write, g_mutex_read} THEN {} ELSE in[m]
      /\ lock' = [m \in Mutex |-> lock'[m]] /\ in' = [m \in Mutex |-> in'[m]]
  BY <1>1, <1>5, Names DEF LockInv
<1>7. \A m \in Mutex : Guarded(lock'[m], in'[m])
  BY <1>1, <1>3, <1>6 DEF LockInv
<1>8. LockInv'
  BY <1>6, <1>7 DEF LockInv
<1>9. lock'[g_mutex_write].type = "Normal" /\ lock'[g_mutex_read].type = "Strict"
  BY <1>4, <1>6, Names
<1>10. LocksOK'
  BY <1>1, <1>2, <1>8, <1>9 DEF LocksOK
<1> DEFINE readers == [i \in DOMAIN Readers |-> [name |-> Readers[i], main |-> "read"]]
           writer == << [name |-> "Writer", main |-> "title"] >>
           deinit == << [name |-> "Deinit", main |-> "wait2"] >>
<1>11. writer \in Seq(AppInfo) /\ deinit \in Seq(AppInfo)
  BY <1>1 DEF AppInfo, Begin
<1>12. readers \in Seq(AppInfo)
  BY ReadersRegistered
<1>13. toRun' = toRun \o (writer \o readers \o deinit)
  BY DEF RunDemo2, RegApps
<1> HIDE DEF readers, writer, deinit
<1>14. toRun' \in Seq(AppInfo)
  BY <1>1, <1>11, <1>12, <1>13 DEF TasksOK, AppInfo
<1>15. TasksOK'
  BY <1>1, <1>2, <1>14 DEF TasksOK, AppInfo
<1>16. /\ \A r \in Reader : pc[r] \notin Holding /\ pc[r] \notin Shutting
       /\ pc["Writer"] \notin Critical
  BY <1>2 DEF ReadersInv, HoldersOwn, WriterOut, Locked, Shut
<1>17. HoldersOwn' /\ WriterOut'
  BY <1>2, <1>16 DEF HoldersOwn, WriterOut, Shut
<1>18. Reading' = {}
  BY <1>2, <1>16 DEF Reading, Shutting, Counting
<1>19. CountRight'
  BY <1>2, <1>18, FS_EmptySet DEF CountRight
<1> QED
  BY <1>10, <1>15, <1>17, <1>19 DEF ReadersInv

LEMMA ReadersInit == ShellInit => ReadersInv
<1> SUFFICES ASSUME ShellInit PROVE ReadersInv
  OBVIOUS
<1>1. LockInv /\ starved = FALSE /\ \A m \in Mutex : ~Exists(m)
  BY InitInv DEF ShellInit, AppInit, LockInit, Exists
<1>2. pc = [c \in Client |-> "absent"] /\ toRun = << >> /\ g_count = 0
  BY DEF ShellInit, AppInit, Demo2Init
<1>3. LocksOK
  BY <1>1, Names DEF LocksOK
<1>4. TasksOK
  BY <1>2 DEF TasksOK
<1>5. HoldersOwn /\ WriterOut
  BY <1>2, Names DEF HoldersOwn, WriterOut, Shut, Holding, Shutting, Counting, Critical
<1>6. Reading = {}
  BY <1>2, Names DEF Reading
<1>7. CountRight
  BY <1>2, <1>6, FS_EmptySet DEF CountRight
<1> QED
  BY <1>3, <1>4, <1>5, <1>7 DEF ReadersInv

LEMMA ReadersStep == ReadersInv /\ [ShellNext]_vars => ReadersInv'
<1> SUFFICES ASSUME ReadersInv, [ShellNext]_vars PROVE ReadersInv'
  OBVIOUS
<1>1. CASE Key
  <2>1. CASE Character \/ StrayStore \/ BSHandler
    BY <2>1, ShellKeepsInv DEF Character, StrayStore, BSHandler, appVars
  <2>2. CASE EnterHandler
    BY <2>2, ShellKeepsInv, RunDemo1KeepsInv, RunDemo2KeepsInv, Zenon DEF EnterHandler
  <2> QED
    BY <1>1, <2>1, <2>2 DEF Key
<1>2. CASE System
  <2>1. CASE DoWait \/ Woken
    BY <2>1, ShellKeepsInv DEF DoWait, Woken
  <2> QED
    BY <1>2, <2>1, CreateKeepsInv DEF System
<1>3. ASSUME NEW c \in Client, Step(c) \/ EnterStep(c)
      PROVE  ReadersInv'
  <2>1. CASE (Demo1Step(c) \/ Demo1Enter(c)) /\ UNCHANGED demo2Vars
    BY <2>1, Demo1KeepsInv
  <2>2. CASE Demo2Step(c) \/ Demo2Enter(c)
    <3>1. CASE c \in Reader /\ (ReaderStep(c) \/ EnterReader(c) \/ ShutOut(c))
      BY <3>1, ReaderEnters, ReaderShuts, ReaderMoves, ReaderCounts, ReaderLetsIn, ReaderLeaves
         DEF ReaderStep
    <3>2. CASE c = "Writer" /\ (WriterStep(c) \/ EnterWriter(c))
      BY <3>2, WriterKeepsInv
    <3>3. CASE c = "Deinit" /\ Deinit2(c)
      BY <3>3, Deinit2KeepsInv
    <3> QED
      BY <2>2, <3>1, <3>2, <3>3, Zenon DEF Demo2Step, Demo2Enter
  <2>3. CASE End(c) /\ UNCHANGED demo2Vars
    BY <2>3, EndKeepsInv
  <2> QED
    BY <1>3, <2>1, <2>2, <2>3, Zenon DEF Step, EnterStep
<1>4. CASE UNCHANGED vars
  BY <1>4, ShellKeepsInv DEF vars, appVars
<1> QED
  BY <1>1, <1>2, <1>3, <1>4, Zenon DEF ShellNext, Lost

-----------------------------------------------------------------------------
(* The whole demonstration *)

\* Where a producer or a consumer is inside its critical section.
InShop == {"check", "count", "take", "leave"}

\* A product is in store and not yet counted, or counted and no longer in store.
Made  == \E c \in Producer : pc[c] = "count"
Taken == \E c \in Consumer : pc[c] = "take"

ShopLock ==
    /\ Exists(g_mutex) => lock[g_mutex].type = "Strict"
    /\ \A c \in Demo1Task : pc[c] \in InShop =>
         Exists(g_mutex) /\ lock[g_mutex].owner = c

ShopRight ==
    /\ g_store \in Seq({"A", "B"})
    /\ g_num \in 0 .. NUM /\ g_get \in 0 .. NUM
    /\ Made => g_num < NUM
    /\ Taken => g_get > 0
    /\ Len(g_store) = g_num - (NUM - g_get) + (IF Made THEN 1 ELSE 0)
                                            - (IF Taken THEN 1 ELSE 0)

\* Somebody is inside who will unlock the mutex.
InsideShop  == \E c \in Demo1Task : pc[c] \in InShop
InsideRead  == \E r \in Reader : pc[r] \in Holding
InsideWrite == Shut \/ pc["Writer"] \in Critical

Open(m) == Exists(m) => IsFree(m)

HeldInside ==
    /\ Open(g_mutex) \/ InsideShop
    /\ Open(g_mutex_read) \/ InsideRead
    /\ Open(g_mutex_write) \/ InsideWrite

\* Nothing is left of a demonstration.
Idle ==
    /\ \A c \in Client : Absence(c)
    /\ toRun = << >>
    /\ \A m \in Mutex : ~Exists(m)

\* Where Deinit is in each of the demonstrations.
Deinit1At == {"wait1", "deinit1", "end"}
Deinit2At == {"wait2", "deinit2", "deinit3", "end"}

\* A demonstration of the given tasks with the given mutexes. Deinit is created
\* last, waits for the others at the place wait, and at is where it may be.
Under(tasks, mutexes, wait, at) ==
    /\ \A i \in DOMAIN toRun :
         /\ toRun[i].name \in tasks \union {"Deinit"}
         /\ toRun[i].name = "Deinit" => i = Len(toRun) /\ toRun[i].main = wait
    /\ toRun # << >> => toRun[Len(toRun)].name = "Deinit" /\ Absence("Deinit")
    /\ \A c \in Client : ~Absence(c) => c \in tasks \union {"Deinit"}
    /\ \A m \in Mutex : Exists(m) => m \in mutexes
    /\ pc["Deinit"] \in at \union {"absent"}
    /\ pc["Deinit"] \notin {wait, "absent"} => \A c \in tasks : Absence(c)
    /\ pc["Deinit"] = "deinit3" => ~Exists(g_mutex_write)
    /\ pc["Deinit"] = "end" => \A m \in Mutex : ~Exists(m)
    /\ toRun = << >> /\ Absence("Deinit") => Idle

UnderDemo1 == Under(Demo1Task, {g_mutex}, "wait1", Deinit1At)
UnderDemo2 == Under(Demo2Task, {g_mutex_read, g_mutex_write}, "wait2", Deinit2At)

\* After an early prompt a demonstration may be at any place of its course.
Stage ==
    /\ shell \in {"prompt", "delay", "asleep", "shared", "lost"}
    /\ Idle \/ UnderDemo1 \/ UnderDemo2
    /\ shell = "prompt" => Idle
    /\ shell = "asleep" => toRun = << >>

\* How often the writer has written.
WriterRight ==
    /\ \A i \in DOMAIN toRun : toRun[i].name = "Writer" =>
         i = 1 /\ Absence("Writer") /\ g_data = 65 /\ toRun[i].main = "title"
    /\ pc["Writer"] \in {"absent", "title", "open", "end"} \union Critical
    /\ pc["Writer"] \in {"title", "open", "write", "clear"} => g_data = 65 + next["Writer"]
    /\ pc["Writer"] = "close" => g_data = 66 + next["Writer"]
    /\ pc["Writer"] \in {"write", "close"} => next["Writer"] < ROUNDS
    /\ g_data \in {0} \union (65 .. 65 + ROUNDS)

\* The variables of tasks are as they were initialised when a task is created.
LocalsRight ==
    /\ next = [c \in Client |-> next[c]] /\ run = [c \in Client |-> run[c]]
    /\ \A c \in Client : /\ pc[c] \in Place
                         /\ next[c] \in 0 .. ROUNDS /\ run[c] \in BOOLEAN
                         /\ Absence(c) \/ c # "Writer" => next[c] = 0

LineRight ==
    /\ gKIndex \in -1 .. BUFF_SIZE
    /\ pos \in Position \union {Anywhere}
    /\ LineOnScreen

DemoInv ==
    /\ ReadersInv /\ ShopLock /\ ShopRight /\ HeldInside
    /\ Stage /\ WriterRight /\ LocalsRight /\ LineRight

-----------------------------------------------------------------------------
(* Producers and consumers *)

LEMMA ShopNames ==
    /\ Producer \subseteq Demo1Task /\ Consumer \subseteq Demo1Task
    /\ Demo1Task \subseteq Client /\ "Deinit" \notin Demo1Task
    /\ Producer \intersect Consumer = {}
    /\ NUM \in Nat
  BY ShellAssumption, Demo1Assumption DEF Demo1Task, Producer, Consumer

\* Nobody enters the shop, leaves it or moves in it.
LEMMA ShopQuiet ==
    ASSUME ShopLock, ShopRight, UNCHANGED demo1Vars,
           \A c \in Demo1Task : \/ pc'[c] = pc[c]
                                \/ pc[c] \notin InShop /\ pc'[c] \notin InShop,
           Exists(g_mutex)' => lock'[g_mutex].type = "Strict",
           (\E c \in Demo1Task : pc[c] \in InShop) => lock'[g_mutex] = lock[g_mutex]
    PROVE  ShopLock' /\ ShopRight'
<1>1. ShopLock'
  BY DEF ShopLock, Exists
<1>2. (Made' <=> Made) /\ (Taken' <=> Taken)
  BY ShopNames DEF Made, Taken, InShop
<1> QED
  BY <1>1, <1>2 DEF ShopRight, demo1Vars

\* One task at most is in the shop.
LEMMA ShopAlone ==
    ASSUME ShopLock, NEW c \in Demo1Task, pc[c] \in InShop,
           NEW d \in Demo1Task, d # c
    PROVE  pc[d] \notin InShop
  BY DEF ShopLock

\* A task moves inside the shop, alone there.
LEMMA ShopMoves ==
    ASSUME TasksOK, ShopLock, UNCHANGED << lock, toRun >>,
           NEW c \in Demo1Task, NEW from \in InShop, NEW to \in InShop, Goto(c, from, to)
    PROVE  /\ ShopLock'
           /\ pc[c] = from /\ pc'[c] = to
           /\ \A d \in Demo1Task : d # c => pc[d] \notin InShop /\ pc'[d] \notin InShop
<1>1. /\ pc[c] = from /\ pc'[c] = to
      /\ \A d \in Client : d # c => pc'[d] = pc[d]
  BY GotoEffect, ShopNames
<1>2. \A d \in Demo1Task : d # c => pc[d] \notin InShop /\ pc'[d] \notin InShop
  BY <1>1, ShopAlone, ShopNames
<1> QED
  BY <1>1, <1>2 DEF ShopLock, Exists

\* What is left when one product is taken out.
LEMMA TakenOut ==
    ASSUME NEW S, NEW s \in Seq(S), NEW i \in DOMAIN s
    PROVE  /\ SubSeq(s, 1, i - 1) \o SubSeq(s, i + 1, Len(s)) \in Seq(S)
           /\ Len(SubSeq(s, 1, i - 1) \o SubSeq(s, i + 1, Len(s))) = Len(s) - 1
<1> DEFINE a == SubSeq(s, 1, i - 1)
           b == SubSeq(s, i + 1, Len(s))
<1>1. i \in 1 .. Len(s) /\ Len(s) \in Nat
  OBVIOUS
<1>2. a \in Seq(S) /\ Len(a) = i - 1
  BY <1>1, SubSeqProperties
<1>3. b \in Seq(S) /\ Len(b) = Len(s) - i
  BY <1>1, SubSeqProperties
<1> HIDE DEF a, b
<1>4. a \o b \in Seq(S) /\ Len(a \o b) = Len(a) + Len(b)
  BY <1>2, <1>3, ConcatProperties
<1>5. Len(a \o b) = Len(s) - 1
  BY <1>1, <1>2, <1>3, <1>4
<1> QED
  BY <1>4, <1>5 DEF a, b

LEMMA ProducerKeepsShop ==
    ASSUME TasksOK, ShopLock, ShopRight, NEW c \in Producer, Produce(c) \/ Count(c)
    PROVE  ShopLock' /\ ShopRight'
<1>1. c \in Demo1Task /\ c \notin Consumer /\ Consumer \subseteq Demo1Task
  BY ShopNames
<1>2. UNCHANGED << lock, toRun >>
  BY DEF Produce, Count, lockVars
<1>3. /\ g_store \in Seq({"A", "B"}) /\ Len(g_store) \in Nat
      /\ g_num \in Nat /\ g_num <= NUM /\ g_get \in Nat /\ g_get <= NUM /\ NUM \in Nat
  BY ShopNames DEF ShopRight
<1>4. ASSUME NEW from \in InShop, NEW to \in InShop, Goto(c, from, to)
      PROVE  /\ ShopLock'
             /\ (Made <=> from = "count") /\ (Made' <=> to = "count")
             /\ ~Taken /\ ~Taken'
  <2>1. /\ ShopLock' /\ pc[c] = from /\ pc'[c] = to
        /\ \A d \in Demo1Task : d # c => pc[d] \notin InShop /\ pc'[d] \notin InShop
    BY <1>1, <1>2, <1>4, ShopMoves
  <2> QED
    BY <1>1, <2>1, ShopNames DEF Made, Taken, InShop
<1>5. CASE Produce(c) /\ g_num < NUM
  <2>1. /\ Goto(c, "check", "count") /\ UNCHANGED << g_num, g_get >>
        /\ g_store' = Append(g_store, KindOf(c))
    BY <1>5 DEF Produce
  <2>2. ShopLock' /\ ~Made /\ Made' /\ ~Taken /\ ~Taken'
    BY <1>4, <2>1 DEF InShop
  <2>3. g_store' \in Seq({"A", "B"}) /\ Len(g_store') = Len(g_store) + 1
    BY <1>3, <2>1, AppendProperties DEF KindOf
  <2> QED
    BY <1>3, <1>5, <2>1, <2>2, <2>3 DEF ShopRight
<1>6. CASE Produce(c) /\ ~(g_num < NUM)
  <2>1. Goto(c, "check", "leave") /\ UNCHANGED << g_num, g_get, g_store >>
    BY <1>6 DEF Produce
  <2>2. ShopLock' /\ ~Made /\ ~Made' /\ ~Taken /\ ~Taken'
    BY <1>4, <2>1 DEF InShop
  <2> QED
    BY <2>1, <2>2 DEF ShopRight
<1>7. CASE Count(c)
  <2>1. Goto(c, "count", "leave") /\ g_num' = g_num + 1 /\ UNCHANGED << g_get, g_store >>
    BY <1>7 DEF Count
  <2>2. ShopLock' /\ Made /\ ~Made' /\ ~Taken /\ ~Taken'
    BY <1>4, <2>1 DEF InShop
  <2>3. g_num < NUM /\ Len(g_store) = g_num - (NUM - g_get) + 1
    BY <2>2, <1>3 DEF ShopRight
  <2>4. g_num' \in 0 .. NUM /\ Len(g_store') = g_num' - (NUM - g_get)
    BY <1>3, <2>1, <2>3
  <2> QED
    BY <1>3, <2>1, <2>2, <2>4 DEF ShopRight
<1> QED
  BY <1>5, <1>6, <1>7

LEMMA ConsumerKeepsShop ==
    ASSUME TasksOK, ShopLock, ShopRight, NEW c \in Consumer, Consume(c) \/ Take(c)
    PROVE  ShopLock' /\ ShopRight'
<1>1. c \in Demo1Task /\ c \notin Producer /\ Producer \subseteq Demo1Task
  BY ShopNames
<1>2. UNCHANGED << lock, toRun >>
  BY DEF Consume, Take, lockVars
<1>3. /\ g_store \in Seq({"A", "B"}) /\ Len(g_store) \in Nat
      /\ g_num \in Nat /\ g_num <= NUM /\ g_get \in Nat /\ g_get <= NUM /\ NUM \in Nat
  BY ShopNames DEF ShopRight
<1>4. ASSUME NEW from \in InShop, NEW to \in InShop, Goto(c, from, to)
      PROVE  /\ ShopLock'
             /\ (Taken <=> from = "take") /\ (Taken' <=> to = "take")
             /\ ~Made /\ ~Made'
  <2>1. /\ ShopLock' /\ pc[c] = from /\ pc'[c] = to
        /\ \A d \in Demo1Task : d # c => pc[d] \notin InShop /\ pc'[d] \notin InShop
    BY <1>1, <1>2, <1>4, ShopMoves
  <2> QED
    BY <1>1, <2>1, ShopNames DEF Made, Taken, InShop
<1> DEFINE own == {i \in DOMAIN g_store : g_store[i] = KindOf(c)}
           got == g_get > 0 /\ own # {}
<1>5. CASE Consume(c) /\ got
  <2>1. /\ Goto(c, "check", "take") /\ UNCHANGED << g_num, g_get >>
        /\ \E i \in DOMAIN g_store :
             g_store' = SubSeq(g_store, 1, i - 1) \o SubSeq(g_store, i + 1, Len(g_store))
    BY <1>5 DEF Consume
  <2>2. ShopLock' /\ ~Made /\ ~Made' /\ ~Taken /\ Taken'
    BY <1>4, <2>1 DEF InShop
  <2>3. g_store' \in Seq({"A", "B"}) /\ Len(g_store') = Len(g_store) - 1
    BY <1>3, <2>1, TakenOut
  <2> QED
    BY <1>3, <1>5, <2>1, <2>2, <2>3 DEF ShopRight
<1>6. CASE Consume(c) /\ ~got
  <2>1. Goto(c, "check", "leave") /\ UNCHANGED << g_num, g_get, g_store >>
    BY <1>6 DEF Consume
  <2>2. ShopLock' /\ ~Made /\ ~Made' /\ ~Taken /\ ~Taken'
    BY <1>4, <2>1 DEF InShop
  <2> QED
    BY <2>1, <2>2 DEF ShopRight
<1>7. CASE Take(c)
  <2>1. Goto(c, "take", "leave") /\ g_get' = g_get - 1 /\ UNCHANGED << g_num, g_store >>
    BY <1>7 DEF Take
  <2>2. ShopLock' /\ ~Made /\ ~Made' /\ Taken /\ ~Taken'
    BY <1>4, <2>1 DEF InShop
  <2>3. g_get > 0 /\ Len(g_store) = g_num - (NUM - g_get) - 1
    BY <2>2, <1>3 DEF ShopRight
  <2>4. g_get' \in 0 .. NUM /\ Len(g_store') = g_num - (NUM - g_get')
    BY <1>3, <2>1, <2>3
  <2> QED
    BY <1>3, <2>1, <2>2, <2>4 DEF ShopRight
<1> QED
  BY <1>5, <1>6, <1>7

LEMMA ShopDoor ==
    ASSUME ReadersInv, ShopLock, ShopRight,
           NEW c \in Demo1Task, EnterShop(c) \/ LeaveShop(c)
    PROVE  ShopLock' /\ ShopRight'
<1>1. LockInv /\ TasksOK /\ c \in Client /\ g_mutex \in Mutex /\ Demo1Task \subseteq Client
  BY Names, ShopNames DEF ReadersInv, LocksOK
<1>2. UNCHANGED << toRun, demo1Vars >>
  BY DEF EnterShop, LeaveShop
<1>3. CASE EnterShop(c)
  <2>1. Goto(c, "enter", "check") /\ Enter(c, g_mutex)
    BY <1>3 DEF EnterShop, Entering
  <2>2. /\ pc[c] = "enter" /\ pc'[c] = "check"
        /\ \A d \in Client : d # c => pc'[d] = pc[d]
    BY <1>1, <1>2, <2>1, GotoEffect
  <2>3. /\ Exists(g_mutex) /\ lock'[g_mutex] \in LockType
        /\ lock'[g_mutex].type = "Strict" /\ lock'[g_mutex].owner = c
    <3>1. /\ Exists(g_mutex) /\ lock'[g_mutex] \in LockType
          /\ lock'[g_mutex].type = lock[g_mutex].type
          /\ lock'[g_mutex].owner = IF lock[g_mutex].type = "Strict" THEN c ELSE Somebody
      BY <1>1, <2>1, EnterEffect
    <3> QED
      BY <3>1 DEF ShopLock
  <2>7. lock[g_mutex].owner \in {Nobody, c}
    BY <2>1 DEF Enter
  <2>4. \A d \in Demo1Task : pc[d] \notin InShop /\ (d # c => pc'[d] \notin InShop)
    BY <1>1, <2>2, <2>7, Special DEF ShopLock, InShop
  <2>5. ShopLock'
    BY <2>3, <2>4, Special DEF ShopLock, Exists
  <2>6. ~Made /\ ~Made' /\ ~Taken /\ ~Taken'
    BY <2>2, <2>4, ShopNames DEF Made, Taken, InShop
  <2> QED
    BY <1>2, <2>5, <2>6 DEF ShopRight, demo1Vars
<1>4. CASE LeaveShop(c)
  <2>1. (\E to \in {"enter", "end"} : Goto(c, "leave", to)) /\ Exit(c, g_mutex)
    BY <1>4 DEF LeaveShop, Exiting
  <2>2. /\ pc[c] = "leave" /\ pc'[c] \in {"enter", "end"}
        /\ \A d \in Client : d # c => pc'[d] = pc[d]
    BY <1>1, <1>2, <2>1, GotoEffect
  <2>3. Exists(g_mutex) /\ lock'[g_mutex].type = lock[g_mutex].type
    BY <1>1, <2>1, ExitEffect
  <2>4. \A d \in Demo1Task : /\ pc'[d] \notin InShop
                             /\ d # c => pc[d] \notin InShop
    BY <1>1, <2>2, ShopAlone DEF InShop
  <2>5. ShopLock'
    BY <2>3, <2>4 DEF ShopLock
  <2>6. ~Made /\ ~Made' /\ ~Taken /\ ~Taken'
    BY <2>2, <2>4, ShopNames DEF Made, Taken, InShop
  <2> QED
    BY <1>2, <2>5, <2>6 DEF ShopRight, demo1Vars
<1> QED
  BY <1>3, <1>4

\* A task moves that is not in the shop.
LEMMA ShopElsewhere ==
    ASSUME ReadersInv, ShopLock, ShopRight, UNCHANGED << toRun, demo1Vars >>,
           NEW c \in Client, NEW from, NEW to, Goto(c, from, to),
           c \in Demo1Task => from \notin InShop /\ to \notin InShop,
           Exists(g_mutex)' => lock'[g_mutex].type = "Strict",
           (\E d \in Demo1Task : pc[d] \in InShop) => lock'[g_mutex] = lock[g_mutex]
    PROVE  ShopLock' /\ ShopRight'
<1>1. pc[c] = from /\ pc'[c] = to /\ \A d \in Client : d # c => pc'[d] = pc[d]
  BY GotoEffect DEF ReadersInv
<1>2. \A d \in Demo1Task : \/ pc'[d] = pc[d]
                           \/ pc[d] \notin InShop /\ pc'[d] \notin InShop
  BY <1>1, ShopNames
<1> QED
  BY <1>2, ShopQuiet

LEMMA ShopNotFree ==
    ASSUME ShopLock, \E d \in Demo1Task : pc[d] \in InShop
    PROVE  Exists(g_mutex) /\ ~IsFree(g_mutex) /\ lock[g_mutex].owner \in Demo1Task
  BY Special, ShopNames DEF ShopLock, IsFree

LEMMA Demo1KeepsShop ==
    ASSUME ReadersInv, ShopLock, ShopRight, NEW c \in Client, Demo1Step(c) \/ Demo1Enter(c)
    PROVE  ShopLock' /\ ShopRight'
<1>1. TasksOK /\ LockInv /\ g_mutex \in Mutex
  BY Names DEF ReadersInv, LocksOK
<1>2. CASE c \in Demo1Task /\ Name(c)
  <2>1. UNCHANGED << toRun, lock, demo1Vars >> /\ Goto(c, "name", "enter")
    BY <1>2 DEF Name, lockVars
  <2> QED
    BY <2>1, ShopElsewhere DEF InShop, ShopLock, Exists
<1>3. CASE c = "Deinit" /\ Deinit1(c)
  <2>1. CASE Goto(c, "wait1", "deinit1") /\ UNCHANGED << toRun, lockVars, demo1Vars >>
    BY <1>3, <2>1, ShopElsewhere, ShopNames DEF ShopLock, Exists, lockVars
  <2>2. CASE /\ Goto(c, "deinit1", "end") /\ DestroyMutex(g_mutex)
             /\ UNCHANGED << toRun, demo1Vars >>
    <3>1. lock'[g_mutex] = lock[g_mutex] \/ (IsFree(g_mutex) /\ ~Exists(g_mutex)')
      BY <1>1, <2>2, DestroyEffect
    <3>2. Exists(g_mutex)' => lock'[g_mutex].type = "Strict"
      BY <3>1 DEF ShopLock, Exists
    <3>3. (\E d \in Demo1Task : pc[d] \in InShop) => lock'[g_mutex] = lock[g_mutex]
      BY <3>1, ShopNotFree
    <3> QED
      BY <1>3, <2>2, <3>2, <3>3, ShopElsewhere, ShopNames
  <2> QED
    BY <1>3, <2>1, <2>2, Zenon DEF Deinit1
<1> QED
  BY <1>1, <1>2, <1>3, ShopDoor, ProducerKeepsShop, ConsumerKeepsShop, Zenon
     DEF Demo1Step, Demo1Enter

\* What the readers and the writer do to mutexes, and which tasks they are.
LEMMA Demo2Moves ==
    ASSUME ReadersInv, NEW c \in Client, Demo2Step(c) \/ Demo2Enter(c)
    PROVE  /\ \E from, to : Goto(c, from, to)
           /\ c \notin Demo1Task /\ UNCHANGED << toRun, starved >>
           /\ \A m \in Mutex \ {g_mutex_read, g_mutex_write} : lock'[m] = lock[m]
           /\ \A m \in Mutex : Exists(m)' => Exists(m)
<1>2. LockInv /\ g_mutex_read \in Mutex /\ g_mutex_write \in Mutex
  BY Names DEF ReadersInv, LocksOK
<1>3. c \notin Demo1Task
  BY Names, ShopNames DEF Demo2Step, Demo2Enter
<1>4. ASSUME UNCHANGED << toRun, starved >>, \E from, to : Goto(c, from, to),
             \/ UNCHANGED lock
             \/ \E m \in {g_mutex_read, g_mutex_write} : Enter(c, m) \/ Exit(c, m) \/ DestroyMutex(m)
      PROVE  /\ \E from, to : Goto(c, from, to)
             /\ c \notin Demo1Task /\ UNCHANGED << toRun, starved >>
             /\ \A m \in Mutex \ {g_mutex_read, g_mutex_write} : lock'[m] = lock[m]
             /\ \A m \in Mutex : Exists(m)' => Exists(m)
  <2>1. CASE UNCHANGED lock
    BY <1>3, <1>4, <2>1 DEF Exists
  <2>2. ASSUME NEW m \in {g_mutex_read, g_mutex_write}, Enter(c, m) \/ Exit(c, m)
        PROVE  \A n \in Mutex : /\ n # m => lock'[n] = lock[n]
                                /\ Exists(n)' => Exists(n)
    BY <1>2, <2>2, EnterEffect, ExitEffect DEF Exists
  <2>3. ASSUME NEW m \in {g_mutex_read, g_mutex_write}, DestroyMutex(m)
        PROVE  \A n \in Mutex : /\ n # m => lock'[n] = lock[n]
                                /\ Exists(n)' => Exists(n)
    BY <1>2, <2>3 DEF DestroyMutex, Destroy, lockVars, LockInv, Exists
  <2>4. \A m \in Mutex \ {g_mutex_read, g_mutex_write} : lock'[m] = lock[m]
    BY <1>4, <2>1, <2>2, <2>3
  <2>5. \A m \in Mutex : Exists(m)' => Exists(m)
    BY <1>4, <2>1, <2>2, <2>3 DEF Exists
  <2> QED
    BY <1>3, <1>4, <2>4, <2>5
<1>5. CASE c \in Reader /\ (EnterReader(c) \/ ShutOut(c))
  BY <1>4, <1>5 DEF EnterReader, ShutOut, Entering
<1>6. CASE c = "Writer" /\ EnterWriter(c)
  BY <1>4, <1>6 DEF EnterWriter, Entering
<1>7. CASE c \in Reader /\ (First(c) \/ CountReader(c) \/ Test(c) \/ Show(c) \/ UncountReader(c))
  BY <1>4, <1>7, Zenon DEF First, CountReader, Test, Show, UncountReader, lockVars
<1>8. CASE c \in Reader /\ (Counted(c) \/ LetIn(c) \/ Uncounted(c))
  BY <1>4, <1>8 DEF Counted, LetIn, Uncounted, Exiting
<1>9. CASE c = "Writer" /\ (Title(c) \/ Write(c))
  BY <1>4, <1>9 DEF Title, Write, lockVars
<1>10. CASE c = "Writer" /\ ExitWriter(c)
  BY <1>4, <1>10 DEF ExitWriter, Exiting
<1>11. CASE c = "Deinit" /\ Deinit2(c)
  BY <1>4, <1>11 DEF Deinit2, lockVars
<1> QED
  BY <1>5, <1>6, <1>7, <1>8, <1>9, <1>10, <1>11, Zenon
     DEF Demo2Step, Demo2Enter, ReaderStep, WriterStep

LEMMA EndKeepsShop ==
    ASSUME ReadersInv, ShopLock, ShopRight, NEW c \in Client, End(c), UNCHANGED demo1Vars
    PROVE  ShopLock' /\ ShopRight'
<1>1. LockInv /\ TasksOK /\ g_mutex \in Mutex
  BY Names DEF ReadersInv, LocksOK
<1>2. Goto(c, "end", "absent") /\ Die(c) /\ UNCHANGED toRun
  BY DEF End
<1>3. /\ Exists(g_mutex)' <=> Exists(g_mutex)
      /\ Exists(g_mutex) => lock'[g_mutex].type = lock[g_mutex].type
      /\ Exists(g_mutex) /\ lock[g_mutex].owner # c => lock'[g_mutex] = lock[g_mutex]
  BY <1>1, <1>2, DieEffect
<1>4. Exists(g_mutex)' => lock'[g_mutex].type = "Strict"
  BY <1>3 DEF ShopLock
<1>5. ASSUME NEW d \in Demo1Task, pc[d] \in InShop
      PROVE  lock'[g_mutex] = lock[g_mutex]
  <2>1. pc[c] = "end"
    BY <1>1, <1>2, GotoEffect
  <2>2. d # c /\ Exists(g_mutex) /\ lock[g_mutex].owner = d
    BY <1>5, <2>1 DEF ShopLock, InShop
  <2> QED
    BY <1>3, <2>2
<1> QED
  BY <1>2, <1>4, <1>5, ShopElsewhere DEF InShop

LEMMA ShopInit == ShellInit => ShopLock /\ ShopRight
<1> SUFFICES ASSUME ShellInit PROVE ShopLock /\ ShopRight
  OBVIOUS
<1>1. /\ \A m \in Mutex : ~Exists(m)
      /\ \A c \in Client : pc[c] = "absent"
      /\ g_store = << >> /\ g_num = 0 /\ g_get = NUM
  BY DEF ShellInit, AppInit, Demo1Init, LockInit, Exists
<1>2. ~Made /\ ~Taken
  BY <1>1, ShopNames DEF Made, Taken
<1>3. ShopLock
  BY <1>1, Names, ShopNames DEF ShopLock, InShop
<1>4. g_store \in Seq({"A", "B"}) /\ Len(g_store) = 0
  BY <1>1
<1> QED
  BY <1>1, <1>2, <1>3, <1>4, ShopNames DEF ShopRight

LEMMA RunDemo1OpensShop ==
    ASSUME ReadersInv, ShopLock, RunDemo1
    PROVE  ShopLock' /\ ShopRight'
<1>1. /\ Create(g_mutex, "Strict") /\ UNCHANGED pc
      /\ g_store' = << >> /\ g_num' = 0 /\ g_get' = NUM
  BY DEF RunDemo1, taskVars
<1>2. \A c \in Demo1Task : pc'[c] \notin InShop
  BY <1>1 DEF Create, ShopLock
<1>3. lock'[g_mutex] = [type |-> "Strict", owner |-> Nobody]
  BY <1>1, Names DEF Create, ReadersInv, LocksOK, LockInv
<1>4. ShopLock'
  BY <1>2, <1>3 DEF ShopLock
<1>5. ~Made' /\ ~Taken'
  BY <1>2, ShopNames DEF Made, Taken, InShop
<1>6. g_store' \in Seq({"A", "B"}) /\ Len(g_store') = 0
  BY <1>1
<1> QED
  BY <1>1, <1>4, <1>5, <1>6, ShopNames DEF ShopRight

\* Nothing happens in the shop.
LEMMA ShopShell ==
    ASSUME ShopLock, ShopRight, UNCHANGED << lock[g_mutex], pc, demo1Vars >>
    PROVE  ShopLock' /\ ShopRight'
  BY ShopQuiet DEF ShopLock, Exists

LEMMA CreateKeepsShop ==
    ASSUME ReadersInv, ShopLock, ShopRight, CreateTask, UNCHANGED demo1Vars
    PROVE  ShopLock' /\ ShopRight'
<1>1. toRun \in Seq(AppInfo) /\ toRun # << >> /\ pc = [c \in Client |-> pc[c]]
  BY DEF ReadersInv, TasksOK, AppInfo, CreateTask
<1>2. Head(toRun) \in AppInfo
  BY <1>1
<1>3. Head(toRun).name \in Client /\ Head(toRun).main \in Begin
  BY <1>2 DEF AppInfo
<1>4. \A c \in Client : pc'[c] = pc[c] \/ (pc[c] = "absent" /\ pc'[c] \in Begin)
  BY <1>1, <1>3 DEF CreateTask, Absence
<1>5. lock' = lock
  BY DEF CreateTask, lockVars
<1> QED
  BY <1>4, <1>5, ShopQuiet, ShopNames DEF ShopLock, Exists, Begin, InShop

LEMMA ShopStep ==
    ReadersInv /\ ShopLock /\ ShopRight /\ [ShellNext]_vars => ShopLock' /\ ShopRight'
<1> SUFFICES ASSUME ReadersInv, ShopLock, ShopRight, [ShellNext]_vars
             PROVE  ShopLock' /\ ShopRight'
  OBVIOUS
<1>1. CASE UNCHANGED << lockVars, taskVars, demo1Vars >>
  BY <1>1, ShopShell DEF lockVars, taskVars
<1>2. CASE RunDemo2 /\ UNCHANGED demo1Vars
  <2>1. UNCHANGED << lock[g_mutex], pc, demo1Vars >>
    BY <1>2, Names DEF RunDemo2, taskVars, ReadersInv, LocksOK, LockInv
  <2> QED
    BY <2>1, ShopShell
<1>3. ASSUME NEW c \in Client, Step(c) \/ EnterStep(c)
      PROVE  ShopLock' /\ ShopRight'
  <2>1. CASE Demo1Step(c) \/ Demo1Enter(c)
    BY <2>1, Demo1KeepsShop
  <2>2. CASE (Demo2Step(c) \/ Demo2Enter(c)) /\ UNCHANGED demo1Vars
    <3>1. lock'[g_mutex] = lock[g_mutex]
      BY <2>2, Demo2Moves, Names
    <3> QED
      BY <2>2, <3>1, Demo2Moves, ShopElsewhere DEF ShopLock, Exists
  <2>3. CASE End(c) /\ UNCHANGED demo1Vars
    BY <2>3, EndKeepsShop
  <2> QED
    BY <1>3, <2>1, <2>2, <2>3, Zenon DEF Step, EnterStep
<1>4. CASE Key
  BY <1>1, <1>2, <1>4, RunDemo1OpensShop, Zenon
     DEF Key, Character, StrayStore, BSHandler, EnterHandler, appVars
<1>5. CASE System
  BY <1>1, <1>5, CreateKeepsShop, Zenon DEF System, DoWait, Woken
<1> QED
  BY <1>1, <1>3, <1>4, <1>5, Zenon DEF ShellNext, Lost, vars, appVars

-----------------------------------------------------------------------------
(* Who holds a mutex *)

\* Nobody leaves a critical section, and no mutex is locked.
LEMMA HeldQuiet ==
    ASSUME HeldInside,
           \A m \in {g_mutex, g_mutex_read, g_mutex_write} : Open(m) => Open(m)',
           InsideShop => InsideShop', InsideRead => InsideRead',
           InsideWrite => InsideWrite'
    PROVE  HeldInside'
  BY DEF HeldInside

LEMMA HeldByReader ==
    ASSUME HeldInside, NEW r \in Reader,
           \A d \in Client : d # r => pc'[d] = pc[d],
           lock'[g_mutex] = lock[g_mutex],
           Open(g_mutex_read)' \/ pc'[r] \in Holding
             \/ (lock'[g_mutex_read] = lock[g_mutex_read] /\ pc[r] \notin Holding),
           Open(g_mutex_write)' \/ pc'[r] \in Shutting
             \/ (/\ lock'[g_mutex_write] = lock[g_mutex_write]
                 /\ pc[r] \in Shutting => \E q \in Reader : q # r /\ pc[q] \in Shutting)
    PROVE  HeldInside'
<1>1. /\ \A q \in Reader : q # r => pc'[q] = pc[q]
      /\ \A c \in Demo1Task : pc'[c] = pc[c]
      /\ pc'["Writer"] = pc["Writer"]
  BY Names
<1>2. Open(g_mutex)' \/ InsideShop'
  BY <1>1 DEF HeldInside, Open, Exists, IsFree, InsideShop
<1>3. Open(g_mutex_read)' \/ InsideRead'
  BY <1>1 DEF HeldInside, Open, Exists, IsFree, InsideRead
<1>4. Open(g_mutex_write)' \/ InsideWrite'
  BY <1>1 DEF HeldInside, Open, Exists, IsFree, InsideWrite, Shut
<1> QED
  BY <1>2, <1>3, <1>4 DEF HeldInside

LEMMA ExitOpens ==
    ASSUME LockInv, NEW c \in Client, NEW m \in Mutex, Exit(c, m)
    PROVE  Open(m)' /\ \A n \in Mutex : n # m => lock'[n] = lock[n]
  BY ExitEffect DEF Open, IsFree, Exists

LEMMA ReaderHolds ==
    ASSUME ReadersInv, HeldInside, NEW r \in Reader,
           ReaderStep(r) \/ EnterReader(r) \/ ShutOut(r)
    PROVE  HeldInside'
<1>1. /\ LockInv /\ TasksOK /\ r \in Client
      /\ {g_mutex, g_mutex_read, g_mutex_write} \subseteq Mutex
      /\ g_mutex # g_mutex_read /\ g_mutex # g_mutex_write /\ g_mutex_read # g_mutex_write
  BY Names DEF ReadersInv, LocksOK
<1>2. ASSUME UNCHANGED toRun, NEW from, NEW to, Goto(r, from, to)
      PROVE  pc[r] = from /\ pc'[r] = to /\ \A d \in Client : d # r => pc'[d] = pc[d]
  BY <1>1, <1>2, GotoEffect
<1>3. CASE EnterReader(r)
  <2>1. /\ Enter(r, g_mutex_read) /\ UNCHANGED toRun
        /\ Goto(r, "read", "first") \/ Goto(r, "reread", "uncount")
    BY <1>3 DEF EnterReader, Entering
  <2>2. \A n \in Mutex : n # g_mutex_read => lock'[n] = lock[n]
    BY <1>1, <2>1, EnterEffect
  <2>3. \A d \in Client : d # r => pc'[d] = pc[d]
    BY <1>2, <2>1
  <2>4. \/ pc[r] = "read" /\ pc'[r] = "first"
        \/ pc[r] = "reread" /\ pc'[r] = "uncount"
    BY <1>2, <2>1
  <2> QED
    BY <1>1, <2>2, <2>3, <2>4, HeldByReader DEF Holding, Shutting, Counting
<1>4. CASE ShutOut(r)
  <2>1. Enter(r, g_mutex_write) /\ UNCHANGED toRun /\ Goto(r, "shut", "count")
    BY <1>4 DEF ShutOut, Entering
  <2>2. \A n \in Mutex : n # g_mutex_write => lock'[n] = lock[n]
    BY <1>1, <2>1, EnterEffect
  <2> QED
    BY <1>1, <1>2, <2>1, <2>2, HeldByReader DEF Holding, Shutting, Counting
<1>5. CASE First(r) \/ CountReader(r) \/ Test(r) \/ Show(r)
  <2>1. /\ UNCHANGED << lock, toRun >>
        /\ \/ \E to \in {"shut", "count"} : Goto(r, "first", to)
           \/ Goto(r, "count", "counted")
           \/ \E to \in {"show", "reread"} : Goto(r, "test", to)
           \/ Goto(r, "show", "reread")
    BY <1>5, Zenon DEF First, CountReader, Test, Show, lockVars
  <2>2. \A d \in Client : d # r => pc'[d] = pc[d]
    BY <1>2, <2>1
  <2>3. /\ pc[r] \in Holding => pc'[r] \in Holding
        /\ pc[r] \in Shutting => pc'[r] \in Shutting
    BY <1>2, <2>1 DEF Holding, Shutting, Counting
  <2> QED
    BY <2>1, <2>2, <2>3, HeldByReader
<1>6. CASE UncountReader(r)
  <2>1. /\ UNCHANGED << lock, toRun >>
        /\ \/ Goto(r, "uncount", "letin")
           \/ Goto(r, "uncount", "uncounted") /\ g_count # 1
    BY <1>6, Zenon DEF UncountReader, lockVars
  <2>2. /\ pc[r] = "uncount" /\ pc'[r] \in {"letin", "uncounted"}
        /\ \A d \in Client : d # r => pc'[d] = pc[d]
        /\ pc'[r] = "letin" \/ g_count # 1
    BY <1>2, <2>1
  <2>3. ASSUME g_count # 1
        PROVE  \E q \in Reader : q # r /\ pc[q] \in Shutting
    <3>1. r \in Reading
      BY <2>2 DEF Reading
    <3>2. Reading # {r}
      BY <2>3, FS_Singleton DEF ReadersInv, CountRight
    <3> QED
      BY <3>1, <3>2 DEF Reading, Shutting, Counting
  <2> QED
    BY <2>1, <2>2, <2>3, HeldByReader DEF Holding, Shutting
<1>7. CASE Counted(r) \/ Uncounted(r)
  <2>1. /\ Exit(r, g_mutex_read) /\ UNCHANGED toRun
        /\ \/ Goto(r, "counted", "test")
           \/ \E to \in {"read", "end"} : Goto(r, "uncounted", to)
    BY <1>7 DEF Counted, Uncounted, Exiting
  <2>2. Open(g_mutex_read)' /\ \A n \in Mutex : n # g_mutex_read => lock'[n] = lock[n]
    BY <1>1, <2>1, ExitOpens
  <2>3. /\ \A d \in Client : d # r => pc'[d] = pc[d]
        /\ pc[r] \in Shutting => pc'[r] \in Shutting
    BY <1>2, <2>1 DEF Shutting, Counting
  <2> QED
    BY <1>1, <2>2, <2>3, HeldByReader
<1>8. CASE LetIn(r)
  <2>1. Exit(r, g_mutex_write) /\ UNCHANGED toRun /\ Goto(r, "letin", "uncounted")
    BY <1>8 DEF LetIn, Exiting
  <2>2. Open(g_mutex_write)' /\ \A n \in Mutex : n # g_mutex_write => lock'[n] = lock[n]
    BY <1>1, <2>1, ExitOpens
  <2> QED
    BY <1>1, <1>2, <2>1, <2>2, HeldByReader DEF Holding
<1> QED
  BY <1>3, <1>4, <1>5, <1>6, <1>7, <1>8 DEF ReaderStep

LEMMA WriterHolds ==
    ASSUME ReadersInv, HeldInside, WriterStep("Writer") \/ EnterWriter("Writer")
    PROVE  HeldInside'
<1>1. /\ LockInv /\ TasksOK /\ "Writer" \in Client
      /\ {g_mutex, g_mutex_read, g_mutex_write} \subseteq Mutex
      /\ g_mutex # g_mutex_read /\ g_mutex # g_mutex_write /\ g_mutex_read # g_mutex_write
  BY Names DEF ReadersInv, LocksOK
<1>2. /\ UNCHANGED toRun /\ \E from, to : Goto("Writer", from, to)
      /\ \/ UNCHANGED lock /\ (pc["Writer"] \in Critical => pc'["Writer"] \in Critical)
         \/ Enter("Writer", g_mutex_write) /\ pc'["Writer"] \in Critical
         \/ Exit("Writer", g_mutex_write)
  <2>1. CASE Title("Writer") \/ Write("Writer")
    <3>1. /\ UNCHANGED << toRun, lock >>
          /\ \/ Goto("Writer", "title", "open")
             \/ Goto("Writer", "write", "close") \/ Goto("Writer", "clear", "cleared")
      BY <2>1 DEF Title, Write, lockVars
    <3> QED
      BY <1>1, <3>1, GotoEffect DEF Critical
  <2>2. CASE EnterWriter("Writer")
    <3>1. /\ UNCHANGED toRun /\ Enter("Writer", g_mutex_write)
          /\ \E to \in {"write", "clear"} : Goto("Writer", "open", to)
      BY <2>2 DEF EnterWriter, Entering
    <3> QED
      BY <1>1, <3>1, GotoEffect DEF Critical
  <2>3. CASE ExitWriter("Writer")
    BY <2>3 DEF ExitWriter, Exiting
  <2> QED
    BY <2>1, <2>2, <2>3 DEF WriterStep
<1>3. \A d \in Client : d # "Writer" => pc'[d] = pc[d]
  BY <1>1, <1>2, GotoEffect
<1>4. (InsideShop' <=> InsideShop) /\ (InsideRead' <=> InsideRead) /\ (Shut' <=> Shut)
  BY <1>3, Names DEF InsideShop, InsideRead, Shut
<1>5. lock'[g_mutex] = lock[g_mutex] /\ lock'[g_mutex_read] = lock[g_mutex_read]
  BY <1>1, <1>2, EnterEffect, ExitEffect
<1>6. Open(g_mutex)' \/ InsideShop'
  BY <1>4, <1>5 DEF HeldInside, Open, Exists, IsFree
<1>7. Open(g_mutex_read)' \/ InsideRead'
  BY <1>4, <1>5 DEF HeldInside, Open, Exists, IsFree
<1>8. CASE UNCHANGED lock /\ (pc["Writer"] \in Critical => pc'["Writer"] \in Critical)
  BY <1>4, <1>6, <1>7, <1>8 DEF HeldInside, Open, Exists, IsFree, InsideWrite
<1>9. CASE pc'["Writer"] \in Critical
  BY <1>6, <1>7, <1>9 DEF HeldInside, InsideWrite
<1>10. CASE Exit("Writer", g_mutex_write)
  BY <1>1, <1>6, <1>7, <1>10, ExitOpens DEF HeldInside
<1> QED
  BY <1>2, <1>8, <1>9, <1>10

\* Destroying a mutex, or leaving it alone, keeps all mutexes open that are.
LEMMA DestroyOpens ==
    ASSUME LockInv, NEW m \in Mutex, DestroyMutex(m)
    PROVE  \A n \in Mutex : Open(n) => Open(n)'
  BY DestroyEffect DEF Open, Exists, IsFree

LEMMA Demo1Holds ==
    ASSUME ReadersInv, HeldInside, NEW c \in Demo1Task, Demo1Step(c) \/ Demo1Enter(c)
    PROVE  HeldInside'
<1>1. /\ LockInv /\ TasksOK /\ c \in Client /\ c # "Deinit"
      /\ {g_mutex, g_mutex_read, g_mutex_write} \subseteq Mutex
      /\ g_mutex # g_mutex_read /\ g_mutex # g_mutex_write
  BY Names, ShopNames DEF ReadersInv, LocksOK
<1>2. /\ UNCHANGED toRun /\ \E from, to : Goto(c, from, to)
      /\ \/ UNCHANGED lock /\ (pc[c] \in InShop => pc'[c] \in InShop)
         \/ Enter(c, g_mutex) /\ pc'[c] \in InShop
         \/ Exit(c, g_mutex)
  <2>1. CASE Name(c) \/ Produce(c) \/ Count(c) \/ Consume(c) \/ Take(c)
    <3>1. /\ UNCHANGED << toRun, lock >>
          /\ \/ Goto(c, "name", "enter")
             \/ \E from, to \in InShop : Goto(c, from, to)
      BY <2>1, Zenon DEF Name, Produce, Count, Consume, Take, lockVars, InShop
    <3> QED
      BY <1>1, <3>1, GotoEffect DEF InShop
  <2>2. CASE EnterShop(c)
    <3>1. UNCHANGED toRun /\ Enter(c, g_mutex) /\ Goto(c, "enter", "check")
      BY <2>2 DEF EnterShop, Entering
    <3> QED
      BY <1>1, <3>1, GotoEffect DEF InShop
  <2>3. CASE LeaveShop(c)
    BY <2>3 DEF LeaveShop, Exiting
  <2> QED
    BY <1>1, <2>1, <2>2, <2>3, Zenon DEF Demo1Step, Demo1Enter
<1>3. \A d \in Client : d # c => pc'[d] = pc[d]
  BY <1>1, <1>2, GotoEffect
<1>4. (InsideRead' <=> InsideRead) /\ (InsideWrite' <=> InsideWrite)
  BY <1>3, Names DEF InsideWrite, InsideRead, Shut
<1>5. lock'[g_mutex_write] = lock[g_mutex_write] /\ lock'[g_mutex_read] = lock[g_mutex_read]
  BY <1>1, <1>2, EnterEffect, ExitEffect
<1>6. Open(g_mutex_write)' \/ InsideWrite'
  BY <1>4, <1>5 DEF HeldInside, Open, Exists, IsFree
<1>7. Open(g_mutex_read)' \/ InsideRead'
  BY <1>4, <1>5 DEF HeldInside, Open, Exists, IsFree
<1>8. CASE UNCHANGED lock /\ (pc[c] \in InShop => pc'[c] \in InShop)
  <2>1. InsideShop => InsideShop'
    BY <1>3, <1>8, ShopNames DEF InsideShop
  <2> QED
    BY <1>6, <1>7, <1>8, <2>1 DEF HeldInside, Open, Exists, IsFree
<1>9. CASE pc'[c] \in InShop
  BY <1>6, <1>7, <1>9 DEF HeldInside, InsideShop
<1>10. CASE Exit(c, g_mutex)
  BY <1>1, <1>6, <1>7, <1>10, ExitOpens DEF HeldInside
<1> QED
  BY <1>2, <1>8, <1>9, <1>10

LEMMA DeinitHolds ==
    ASSUME ReadersInv, HeldInside, Deinit1("Deinit") \/ Deinit2("Deinit")
    PROVE  HeldInside'
<1>1. /\ LockInv /\ TasksOK /\ "Deinit" \in Client
      /\ {g_mutex, g_mutex_read, g_mutex_write} \subseteq Mutex
  BY Names DEF ReadersInv, LocksOK
<1>2. /\ UNCHANGED toRun /\ \E from, to : Goto("Deinit", from, to)
      /\ UNCHANGED lock \/ \E m \in {g_mutex, g_mutex_read, g_mutex_write} : DestroyMutex(m)
  BY DEF Deinit1, Deinit2, lockVars
<1>3. \A d \in Client : d # "Deinit" => pc'[d] = pc[d]
  BY <1>1, <1>2, GotoEffect
<1>4. \A m \in {g_mutex, g_mutex_read, g_mutex_write} : Open(m) => Open(m)'
  <2>1. CASE UNCHANGED lock
    BY <2>1 DEF Open, Exists, IsFree
  <2> QED
    BY <1>1, <1>2, <2>1, DestroyOpens
<1>5. /\ InsideShop => InsideShop'
      /\ InsideRead => InsideRead'
      /\ InsideWrite => InsideWrite'
  BY <1>3, Names, ShopNames DEF InsideShop, InsideRead, InsideWrite, Shut
<1> QED
  BY <1>4, <1>5, HeldQuiet

\* A task that ends owns no mutex.
LEMMA EndHolds ==
    ASSUME ReadersInv, HeldInside, NEW c \in Client, End(c)
    PROVE  HeldInside'
<1>1. LockInv /\ TasksOK /\ {g_mutex, g_mutex_read, g_mutex_write} \subseteq Mutex
  BY Names DEF ReadersInv, LocksOK
<1>2. Goto(c, "end", "absent") /\ Die(c) /\ UNCHANGED toRun
  BY DEF End
<1>3. /\ pc[c] = "end" /\ pc'[c] = "absent"
      /\ \A d \in Client : d # c => pc'[d] = pc[d]
  BY <1>1, <1>2, GotoEffect
<1>4. ASSUME NEW m \in {g_mutex, g_mutex_read, g_mutex_write}, Open(m)
      PROVE  Open(m)'
  <2>1. /\ Exists(m)' <=> Exists(m)
        /\ Exists(m) /\ lock[m].owner # c => lock'[m] = lock[m]
    BY <1>1, <1>2, DieEffect
  <2> QED
    BY <1>4, <2>1, Special DEF Open, IsFree
<1>5. \A d \in Client : pc'[d] = pc[d] \/ pc[d] = "end"
  BY <1>3
<1>6. InsideShop => InsideShop'
  BY <1>5, ShopNames DEF InsideShop, InShop
<1>7. InsideRead => InsideRead'
  BY <1>5, Names DEF InsideRead, Holding
<1>8. InsideWrite => InsideWrite'
  BY <1>5, Names DEF InsideWrite, Shut, Shutting, Counting, Critical
<1> QED
  BY <1>4, <1>6, <1>7, <1>8, HeldQuiet

\* A task is created where it is not yet.
LEMMA CreateEffect ==
    ASSUME TasksOK, CreateTask
    PROVE  LET c == Head(toRun).name IN
           /\ c \in Client /\ pc[c] = "absent"
           /\ toRun # << >> /\ toRun' = Tail(toRun)
           /\ pc'[c] = Head(toRun).main
           /\ \A d \in Client : d # c => pc'[d] = pc[d]
           /\ UNCHANGED << lockVars, next, run, pos >>
<1>1. toRun \in Seq(AppInfo) /\ toRun # << >> /\ pc = [c \in Client |-> pc[c]]
  BY DEF TasksOK, AppInfo, CreateTask
<1>2. Head(toRun) \in AppInfo
  BY <1>1
<1>3. Head(toRun).name \in Client
  BY <1>2 DEF AppInfo
<1> QED
  BY <1>1, <1>3 DEF CreateTask, Absence

LEMMA CreateHolds ==
    ASSUME ReadersInv, HeldInside, CreateTask
    PROVE  HeldInside'
<1>1. \A d \in Client : pc'[d] = pc[d] \/ pc[d] = "absent"
  BY CreateEffect DEF ReadersInv
<1>2. UNCHANGED lock
  BY DEF CreateTask, lockVars
<1>3. InsideShop => InsideShop'
  BY <1>1, ShopNames DEF InsideShop, InShop
<1>4. InsideRead => InsideRead'
  BY <1>1, Names DEF InsideRead, Holding
<1>5. InsideWrite => InsideWrite'
  BY <1>1, Names DEF InsideWrite, Shut, Shutting, Counting, Critical
<1> QED
  BY <1>2, <1>3, <1>4, <1>5, HeldQuiet DEF Open, Exists, IsFree

LEMMA RunHolds ==
    ASSUME ReadersInv, HeldInside, RunDemo1 \/ RunDemo2
    PROVE  HeldInside'
<1>1. LockInv /\ {g_mutex, g_mutex_read, g_mutex_write} \subseteq Mutex
  BY Names DEF ReadersInv, LocksOK
<1>2. UNCHANGED pc
  BY DEF RunDemo1, RunDemo2, taskVars
<1>3. \A m \in Mutex : \/ lock'[m] = lock[m]
                       \/ lock'[m].owner = Nobody
  BY <1>1 DEF RunDemo1, RunDemo2, Create, LockInv
<1>4. \A m \in Mutex : Open(m) => Open(m)'
  BY <1>3 DEF Open, IsFree, Exists
<1>5. /\ InsideShop => InsideShop'
      /\ InsideRead => InsideRead'
      /\ InsideWrite => InsideWrite'
  BY <1>2 DEF InsideShop, InsideRead, InsideWrite, Shut
<1> QED
  BY <1>1, <1>4, <1>5, HeldQuiet

LEMMA HeldStep ==
    ASSUME ReadersInv, HeldInside, [ShellNext]_vars
    PROVE  HeldInside'
<1>1. CASE UNCHANGED << lockVars, taskVars >>
  <2>1. UNCHANGED << lock, pc >>
    BY <1>1 DEF lockVars, taskVars
  <2> QED
    BY <2>1 DEF HeldInside, Open, Exists, IsFree, InsideShop, InsideRead, InsideWrite, Shut
<1>2. ASSUME NEW c \in Client, Step(c) \/ EnterStep(c)
      PROVE  HeldInside'
  <2>1. CASE Demo1Step(c) \/ Demo1Enter(c)
    <3>1. c \in Demo1Task \/ (c = "Deinit" /\ Deinit1(c))
      BY <2>1, ShopNames DEF Demo1Step, Demo1Enter
    <3> QED
      BY <2>1, <3>1, Demo1Holds, DeinitHolds
  <2>2. CASE Demo2Step(c) \/ Demo2Enter(c)
    BY <2>2, ReaderHolds, WriterHolds, DeinitHolds, Zenon DEF Demo2Step, Demo2Enter
  <2>3. CASE End(c)
    BY <2>3, EndHolds
  <2> QED
    BY <1>2, <2>1, <2>2, <2>3, Zenon DEF Step, EnterStep
<1>3. CASE Key
  BY <1>1, <1>3, RunHolds, Zenon DEF Key, Character, StrayStore, BSHandler, EnterHandler, appVars
<1>4. CASE System
  BY <1>1, <1>4, CreateHolds, Zenon DEF System, DoWait, Woken
<1> QED
  BY <1>1, <1>2, <1>3, <1>4, Zenon DEF ShellNext, Lost, vars, appVars

-----------------------------------------------------------------------------
(* The course of a demonstration *)

\* A task other than Deinit moves.
LEMMA UnderOther ==
    ASSUME NEW tasks, NEW mutexes, NEW wait, NEW at, Under(tasks, mutexes, wait, at),
           NEW c \in Client, c # "Deinit", pc[c] # "absent", UNCHANGED toRun,
           \A d \in Client : d # c => pc'[d] = pc[d],
           \A m \in Mutex : Exists(m)' => Exists(m)
    PROVE  Under(tasks, mutexes, wait, at)'
<1>1. /\ pc'["Deinit"] = pc["Deinit"]
      /\ \A d \in Client : pc'[d] # "absent" => pc[d] # "absent"
  BY Names
<1>2. c \in tasks
  BY DEF Under, Absence
<1>3. pc["Deinit"] \in {wait, "absent"} /\ ~(toRun = << >> /\ Absence("Deinit"))
  BY <1>2 DEF Under, Idle, Absence
<1> QED
  BY <1>1, <1>3, Names DEF Under, Absence

\* Deinit moves.
LEMMA UnderDeinit ==
    ASSUME NEW tasks, NEW mutexes, NEW wait, NEW at, Under(tasks, mutexes, wait, at),
           tasks \subseteq Client, "Deinit" \notin tasks,
           pc["Deinit"] # "absent", UNCHANGED toRun,
           \A d \in Client : d # "Deinit" => pc'[d] = pc[d],
           \A m \in Mutex : Exists(m)' => Exists(m),
           pc'["Deinit"] \in at \union {"absent"},
           pc["Deinit"] = wait => \A c \in tasks : Absence(c),
           pc'["Deinit"] = "deinit3" => ~Exists(g_mutex_write)',
           pc'["Deinit"] = "end" => \A m \in Mutex : ~Exists(m)',
           pc'["Deinit"] = "absent" => pc["Deinit"] = "end"
    PROVE  Under(tasks, mutexes, wait, at)'
<1>1. \A c \in tasks : pc'[c] = "absent"
  BY DEF Under, Absence
<1>2. toRun = << >>
  BY DEF Under, Absence
<1>3. \A d \in Client : pc'[d] # "absent" => pc[d] # "absent"
  BY Names
<1>4. ASSUME pc'["Deinit"] = "absent"
      PROVE  Idle'
  <2>1. \A m \in Mutex : ~Exists(m)'
    BY <1>4 DEF Under
  <2>2. \A d \in Client : d # "Deinit" => pc[d] = "absent"
    BY <1>1 DEF Under, Absence
  <2> QED
    BY <1>2, <1>4, <2>1, <2>2 DEF Idle, Absence
<1> QED
  BY <1>1, <1>2, <1>3, <1>4 DEF Under, Absence

\* What the producers and the consumers do to mutexes.
LEMMA Demo1Moves ==
    ASSUME ReadersInv, NEW c \in Client, Demo1Step(c) \/ Demo1Enter(c)
    PROVE  /\ \E from, to : Goto(c, from, to)
           /\ UNCHANGED << toRun, starved >>
           /\ \A m \in Mutex : Exists(m)' => Exists(m)
<1>1. LockInv /\ g_mutex \in Mutex
  BY Names DEF ReadersInv, LocksOK
<1>2. /\ \E from, to : Goto(c, from, to)
      /\ UNCHANGED << toRun, starved >>
      /\ \/ UNCHANGED lock
         \/ Enter(c, g_mutex) \/ Exit(c, g_mutex) \/ DestroyMutex(g_mutex)
  <2>1. CASE Name(c) \/ Produce(c) \/ Count(c) \/ Consume(c) \/ Take(c)
    BY <2>1, Zenon DEF Name, Produce, Count, Consume, Take, lockVars
  <2>2. CASE EnterShop(c) \/ LeaveShop(c) \/ Deinit1(c)
    BY <2>2 DEF EnterShop, LeaveShop, Deinit1, Entering, Exiting, lockVars
  <2> QED
    BY <2>1, <2>2, Zenon DEF Demo1Step, Demo1Enter
<1>3. CASE Enter(c, g_mutex) \/ Exit(c, g_mutex)
  BY <1>1, <1>2, <1>3, EnterEffect, ExitEffect DEF Exists
<1>4. CASE UNCHANGED lock \/ DestroyMutex(g_mutex)
  BY <1>1, <1>2, <1>4, DestroyEffect DEF Exists
<1> QED
  BY <1>2, <1>3, <1>4

\* A task is there when it moves, and gone only when it ends.
LEMMA Present1 ==
    ASSUME NEW c \in Client, Demo1Step(c) \/ Demo1Enter(c)
    PROVE  pc[c] # "absent"
<1>1. CASE Name(c) \/ Produce(c) \/ Count(c) \/ Consume(c) \/ Take(c)
  BY <1>1 DEF Name, Produce, Count, Consume, Take, Goto
<1>2. CASE EnterShop(c) \/ LeaveShop(c) \/ Deinit1(c)
  BY <1>2 DEF EnterShop, LeaveShop, Deinit1, Entering, Exiting, Goto
<1> QED
  BY <1>1, <1>2, Zenon DEF Demo1Step, Demo1Enter

LEMMA Present2 ==
    ASSUME NEW c \in Client, Demo2Step(c) \/ Demo2Enter(c)
    PROVE  pc[c] # "absent"
<1>1. CASE First(c) \/ CountReader(c) \/ Test(c) \/ Show(c) \/ UncountReader(c)
  BY <1>1 DEF First, CountReader, Test, Show, UncountReader, Goto
<1>2. CASE EnterReader(c) \/ ShutOut(c) \/ Counted(c) \/ LetIn(c) \/ Uncounted(c)
  BY <1>2 DEF EnterReader, ShutOut, Counted, LetIn, Uncounted, Entering, Exiting, Goto
<1>3. CASE EnterWriter(c) \/ Title(c) \/ Write(c) \/ ExitWriter(c) \/ Deinit2(c)
  BY <1>3 DEF EnterWriter, Title, Write, ExitWriter, Deinit2, Entering, Exiting, Goto
<1> QED
  BY <1>1, <1>2, <1>3, Zenon DEF Demo2Step, Demo2Enter, ReaderStep, WriterStep

LEMMA TaskMoves ==
    ASSUME ReadersInv, NEW c \in Client, Step(c) \/ EnterStep(c)
    PROVE  /\ pc[c] # "absent"
           /\ \A d \in Client : d # c => pc'[d] = pc[d]
           /\ UNCHANGED << toRun, shell, gKIndex >>
           /\ \A m \in Mutex : Exists(m)' => Exists(m)
<1>1. TasksOK /\ LockInv
  BY DEF ReadersInv, LocksOK
<1>2. UNCHANGED << shell, gKIndex >>
  BY DEF Step, EnterStep, shellVars
<1>3. CASE Demo1Step(c) \/ Demo1Enter(c)
  BY <1>1, <1>2, <1>3, Demo1Moves, Present1, GotoEffect
<1>4. CASE Demo2Step(c) \/ Demo2Enter(c)
  BY <1>1, <1>2, <1>4, Demo2Moves, Present2, GotoEffect
<1>5. CASE End(c)
  <2>1. Goto(c, "end", "absent") /\ Die(c) /\ UNCHANGED toRun
    BY <1>5 DEF End
  <2> QED
    BY <1>1, <1>2, <2>1, DieEffect, GotoEffect
<1> QED
  BY <1>3, <1>4, <1>5, Zenon DEF Step, EnterStep

\* No task is there at the prompt.
LEMMA NotAtPrompt ==
    ASSUME ReadersInv, Stage, NEW c \in Client, Step(c) \/ EnterStep(c)
    PROVE  shell # "prompt"
  BY TaskMoves DEF Stage, Idle, Absence

\* While a task is there a demonstration is under way.
LEMMA NotIdle ==
    ASSUME ReadersInv, Stage, NEW c \in Client, pc[c] # "absent"
    PROVE  UnderDemo1 \/ UnderDemo2
  BY DEF Stage, Idle, Absence

\* When it is over nothing is left of a demonstration.
LEMMA OverIdle ==
    ASSUME Stage, Over
    PROVE  Idle
  BY Names DEF Stage, Over, UnderDemo1, UnderDemo2, Under

LEMMA OtherKeepsStage ==
    ASSUME ReadersInv, Stage, NEW c \in Client, c # "Deinit", Step(c) \/ EnterStep(c)
    PROVE  Stage'
<1>1. /\ pc[c] # "absent" /\ UNCHANGED << toRun, shell >>
      /\ \A d \in Client : d # c => pc'[d] = pc[d]
      /\ \A m \in Mutex : Exists(m)' => Exists(m)
  BY TaskMoves
<1>2. shell # "prompt"
  BY NotAtPrompt
<1>3. UnderDemo1 => UnderDemo1'
  BY <1>1, UnderOther DEF UnderDemo1
<1>4. UnderDemo2 => UnderDemo2'
  BY <1>1, UnderOther DEF UnderDemo2
<1> QED
  BY <1>1, <1>2, <1>3, <1>4, NotIdle DEF Stage

\* A mutex that is open is destroyed.
LEMMA DestroyedIfOpen ==
    ASSUME LockInv, NEW m \in Mutex, Open(m), DestroyMutex(m)
    PROVE  ~Exists(m)'
  BY DEF DestroyMutex, Destroy, Open, IsFree, Exists, lockVars, LockInv

LEMMA Deinit1KeepsStage ==
    ASSUME ReadersInv, HeldInside, Stage, Deinit1("Deinit"), UNCHANGED shellVars
    PROVE  Stage'
<1>1. LockInv /\ TasksOK /\ "Deinit" \in Client /\ g_mutex \in Mutex
  BY Names DEF ReadersInv, LocksOK
<1>2. Demo1Step("Deinit")
  BY DEF Demo1Step
<1>3. /\ pc["Deinit"] # "absent" /\ UNCHANGED << toRun, shell >>
      /\ \A d \in Client : d # "Deinit" => pc'[d] = pc[d]
      /\ \A m \in Mutex : Exists(m)' => Exists(m)
  BY <1>1, <1>2, Demo1Moves, Present1, GotoEffect DEF shellVars
<1>4. \/ /\ pc["Deinit"] = "wait1" /\ pc'["Deinit"] = "deinit1"
         /\ \A c \in Demo1Task : Absence(c)
      \/ /\ pc["Deinit"] = "deinit1" /\ pc'["Deinit"] = "end"
         /\ DestroyMutex(g_mutex)
  BY <1>1, <1>3, GotoEffect DEF Deinit1, Waiting
<1>5. shell # "prompt" /\ ~Idle /\ ~UnderDemo2
  BY <1>1, <1>3, <1>4 DEF Stage, Idle, Absence, UnderDemo2, Under, Deinit2At
<1>6. UnderDemo1
  BY <1>5 DEF Stage
<1>7. ASSUME pc["Deinit"] = "deinit1", DestroyMutex(g_mutex)
      PROVE  \A m \in Mutex : ~Exists(m)'
  <2>1. \A c \in Demo1Task : pc[c] = "absent"
    BY <1>6, <1>7 DEF UnderDemo1, Under, Absence
  <2>2. Open(g_mutex)
    BY <2>1 DEF HeldInside, InsideShop, InShop
  <2>3. ~Exists(g_mutex)'
    BY <1>1, <1>7, <2>2, DestroyedIfOpen
  <2> QED
    BY <1>3, <1>6, <2>3 DEF UnderDemo1, Under
<1>8. UnderDemo1'
  BY <1>3, <1>4, <1>6, <1>7, UnderDeinit, ShopNames DEF UnderDemo1, Deinit1At
<1> QED
  BY <1>3, <1>5, <1>8 DEF Stage

LEMMA Deinit2KeepsStage ==
    ASSUME ReadersInv, HeldInside, Stage, Deinit2("Deinit"), UNCHANGED shellVars
    PROVE  Stage'
<1>1. /\ LockInv /\ TasksOK /\ "Deinit" \in Client
      /\ g_mutex_read \in Mutex /\ g_mutex_write \in Mutex
  BY Names DEF ReadersInv, LocksOK
<1>2. Demo2Step("Deinit")
  BY DEF Demo2Step
<1>3. /\ pc["Deinit"] # "absent" /\ UNCHANGED << toRun, shell >>
      /\ \A d \in Client : d # "Deinit" => pc'[d] = pc[d]
      /\ \A m \in Mutex : Exists(m)' => Exists(m)
  BY <1>1, <1>2, Demo2Moves, Present2, GotoEffect DEF shellVars
<1>4. \/ /\ pc["Deinit"] = "wait2" /\ pc'["Deinit"] = "deinit2"
         /\ \A c \in Demo2Task : Absence(c)
      \/ /\ pc["Deinit"] = "deinit2" /\ pc'["Deinit"] = "deinit3"
         /\ DestroyMutex(g_mutex_write)
      \/ /\ pc["Deinit"] = "deinit3" /\ pc'["Deinit"] = "end"
         /\ DestroyMutex(g_mutex_read)
  BY <1>1, <1>3, GotoEffect DEF Deinit2, Waiting
<1>5. shell # "prompt" /\ ~Idle /\ ~UnderDemo1
  BY <1>1, <1>3, <1>4 DEF Stage, Idle, Absence, UnderDemo1, Under, Deinit1At
<1>6. UnderDemo2
  BY <1>5 DEF Stage
<1>7. ASSUME pc["Deinit"] \in {"deinit2", "deinit3"}
      PROVE  Open(g_mutex_read) /\ Open(g_mutex_write)
  <2>1. \A c \in Demo2Task : pc[c] = "absent"
    BY <1>6, <1>7 DEF UnderDemo2, Under, Absence
  <2>2. /\ \A r \in Reader : pc[r] = "absent"
        /\ pc["Writer"] = "absent"
    BY <2>1 DEF Demo2Task
  <2>3. ~InsideRead /\ ~InsideWrite
    BY <2>2 DEF InsideRead, InsideWrite, Shut, Holding, Shutting, Counting, Critical
  <2> QED
    BY <2>3 DEF HeldInside
<1>8. pc'["Deinit"] = "deinit3" => ~Exists(g_mutex_write)'
  BY <1>1, <1>4, <1>7, DestroyedIfOpen
<1>9. ASSUME pc'["Deinit"] = "end"
      PROVE  \A m \in Mutex : ~Exists(m)'
  <2>1. ~Exists(g_mutex_read)' /\ pc["Deinit"] = "deinit3"
    BY <1>1, <1>4, <1>7, <1>9, DestroyedIfOpen
  <2>2. ~Exists(g_mutex_write)'
    BY <1>1, <1>3, <1>6, <2>1 DEF UnderDemo2, Under
  <2> QED
    BY <1>3, <1>6, <2>1, <2>2 DEF UnderDemo2, Under
<1>10. Demo2Task \subseteq Client /\ "Deinit" \notin Demo2Task
  BY Names DEF Demo2Task
<1>11. UnderDemo2'
  BY <1>3, <1>4, <1>6, <1>8, <1>9, <1>10, UnderDeinit DEF UnderDemo2, Deinit2At
<1> QED
  BY <1>3, <1>5, <1>11 DEF Stage

LEMMA DeinitEndsStage ==
    ASSUME ReadersInv, Stage, End("Deinit"), UNCHANGED shellVars
    PROVE  Stage'
<1>1. /\ "Deinit" \in Client /\ Demo2Task \subseteq Client /\ "Deinit" \notin Demo2Task
      /\ TasksOK /\ LockInv
  BY Names DEF Demo2Task, ReadersInv, LocksOK
<1>2. Goto("Deinit", "end", "absent") /\ Die("Deinit") /\ UNCHANGED << toRun, shell >>
  BY DEF End, shellVars
<1>3. /\ pc["Deinit"] = "end" /\ pc'["Deinit"] = "absent"
      /\ \A d \in Client : d # "Deinit" => pc'[d] = pc[d]
  BY <1>1, <1>2, GotoEffect
<1>4. \A m \in Mutex : Exists(m)' => Exists(m)
  BY <1>1, <1>2, DieEffect
<1>5. shell # "prompt" /\ ~Idle
  BY <1>1, <1>3 DEF Stage, Idle, Absence
<1>6. UnderDemo1 => UnderDemo1'
  BY <1>2, <1>3, <1>4, UnderDeinit, ShopNames DEF UnderDemo1
<1>7. UnderDemo2 => UnderDemo2'
  BY <1>1, <1>2, <1>3, <1>4, UnderDeinit DEF UnderDemo2
<1> QED
  BY <1>2, <1>5, <1>6, <1>7 DEF Stage

LEMMA UnderCreate ==
    ASSUME NEW tasks, NEW mutexes, NEW wait, NEW at, Under(tasks, mutexes, wait, at),
           TasksOK, CreateTask,
           wait \in at, wait \notin {"deinit3", "end", "absent"}
    PROVE  Under(tasks, mutexes, wait, at)'
<1> DEFINE c == Head(toRun).name
<1>1. /\ c \in Client /\ pc[c] = "absent"
      /\ toRun # << >> /\ toRun' = Tail(toRun)
      /\ pc'[c] = Head(toRun).main
      /\ \A d \in Client : d # c => pc'[d] = pc[d]
      /\ UNCHANGED lockVars
  BY CreateEffect
<1>2. \A m \in Mutex : Exists(m)' <=> Exists(m)
  BY <1>1 DEF lockVars, Exists
<1>3. /\ toRun \in Seq(AppInfo) /\ Len(toRun) \in Nat \ {0}
      /\ Head(toRun) = toRun[1] /\ 1 \in DOMAIN toRun /\ DOMAIN toRun = 1 .. Len(toRun)
  BY <1>1 DEF TasksOK, AppInfo
<1>4. /\ Len(toRun') = Len(toRun) - 1 /\ DOMAIN toRun' = 1 .. Len(toRun) - 1
      /\ \A i \in 1 .. Len(toRun) - 1 : toRun'[i] = toRun[i + 1]
      /\ Len(toRun) = 1 => toRun' = << >>
  BY <1>1, <1>3
<1>5. c = toRun[1].name
  BY <1>3
<1> HIDE DEF c
<1>6. /\ c \in tasks \union {"Deinit"}
      /\ c = "Deinit" => Len(toRun) = 1 /\ pc'[c] = wait
      /\ toRun[Len(toRun)].name = "Deinit" /\ pc["Deinit"] = "absent"
  BY <1>1, <1>3, <1>5 DEF Under, Absence
<1>7. \A i \in DOMAIN toRun' :
        /\ toRun'[i].name \in tasks \union {"Deinit"}
        /\ toRun'[i].name = "Deinit" => i = Len(toRun') /\ toRun'[i].main = wait
  <2> TAKE i \in DOMAIN toRun'
  <2>1. i \in 1 .. Len(toRun) - 1 /\ i + 1 \in DOMAIN toRun /\ toRun'[i] = toRun[i + 1]
    BY <1>3, <1>4
  <2>2. /\ toRun[i + 1].name \in tasks \union {"Deinit"}
        /\ toRun[i + 1].name = "Deinit" => i + 1 = Len(toRun) /\ toRun[i + 1].main = wait
    BY <2>1 DEF Under
  <2> QED
    BY <1>3, <1>4, <2>1, <2>2
<1>8. \A d \in Client : pc'[d] # "absent" => d = c \/ pc[d] # "absent"
  BY <1>1
<1>9. \A d \in Client : pc'[d] # "absent" => d \in tasks \union {"Deinit"}
  BY <1>6, <1>8 DEF Under, Absence
<1>10. CASE c = "Deinit"
  <2>1. toRun' = << >> /\ pc'["Deinit"] = wait
    BY <1>4, <1>6, <1>10
  <2> QED
    BY <1>2, <1>7, <1>9, <2>1, Names DEF Under, Absence
<1>11. CASE c # "Deinit"
  <2>1. Len(toRun) # 1
    BY <1>5, <1>6, <1>11
  <2>2. toRun' # << >> /\ toRun'[Len(toRun')].name = "Deinit"
    <3>1. Len(toRun') \in 1 .. Len(toRun) - 1
      BY <1>3, <1>4, <2>1
    <3>2. toRun'[Len(toRun')] = toRun[Len(toRun') + 1] /\ Len(toRun') + 1 = Len(toRun)
      BY <1>3, <1>4, <3>1
    <3> QED
      BY <1>6, <3>1, <3>2
  <2>3. pc'["Deinit"] = "absent"
    BY <1>1, <1>6, <1>11, Names
  <2> QED
    BY <1>2, <1>7, <1>9, <2>2, <2>3, Names DEF Under, Absence
<1> QED
  BY <1>10, <1>11

LEMMA CreateKeepsStage ==
    ASSUME ReadersInv, Stage, CreateTask, UNCHANGED shellVars
    PROVE  Stage'
<1>1. toRun # << >> /\ UNCHANGED shell /\ TasksOK
  BY DEF CreateTask, shellVars, ReadersInv
<1>2. shell \notin {"prompt", "asleep"} /\ ~Idle
  BY <1>1 DEF Stage, Idle
<1>3. UnderDemo1 => UnderDemo1'
  BY <1>1, UnderCreate DEF UnderDemo1, Deinit1At
<1>4. UnderDemo2 => UnderDemo2'
  BY <1>1, UnderCreate DEF UnderDemo2, Deinit2At
<1> QED
  BY <1>1, <1>2, <1>3, <1>4 DEF Stage

\* A demonstration begins where nothing is: Deinit is registered last.
LEMMA UnderRun ==
    ASSUME NEW tasks, NEW mutexes, NEW wait, NEW at, Idle,
           NEW others \in Seq(AppInfo),
           \A i \in DOMAIN others : others[i].name \in tasks,
           "Deinit" \notin tasks,
           toRun' = others \o << [name |-> "Deinit", main |-> wait] >>,
           UNCHANGED pc,
           \A m \in Mutex : Exists(m)' => m \in mutexes
    PROVE  Under(tasks, mutexes, wait, at)'
<1> DEFINE last == [name |-> "Deinit", main |-> wait]
           n == Len(others)
<1>1. n \in Nat /\ DOMAIN others = 1 .. n
  OBVIOUS
<1>2. toRun' = Append(others, last)
  OBVIOUS
<1>3. last.name = "Deinit" /\ last.main = wait
  OBVIOUS
<1> HIDE DEF last
<1>4. /\ DOMAIN toRun' = 1 .. n + 1 /\ Len(toRun') = n + 1
      /\ toRun'[n + 1] = last
      /\ \A i \in 1 .. n : toRun'[i] = others[i]
  BY <1>1, <1>2
<1> HIDE DEF n
<1>5. \A i \in DOMAIN toRun' :
        /\ toRun'[i].name \in tasks \union {"Deinit"}
        /\ toRun'[i].name = "Deinit" => i = Len(toRun') /\ toRun'[i].main = wait
  <2> TAKE i \in DOMAIN toRun'
  <2>1. i \in 1 .. n \/ i = n + 1
    BY <1>1, <1>4
  <2> QED
    BY <1>1, <1>3, <1>4, <2>1
<1>6. toRun' # << >> /\ toRun'[Len(toRun')].name = "Deinit"
  BY <1>1, <1>3, <1>4
<1>7. \A d \in Client : pc'[d] = "absent"
  BY DEF Idle, Absence
<1> QED
  BY <1>5, <1>6, <1>7, Names DEF Under, Absence

LEMMA RunDemo1Registers ==
    ASSUME Idle, RunDemo1
    PROVE  \E others \in Seq(AppInfo) :
             /\ \A i \in DOMAIN others : others[i].name \in Demo1Task
             /\ toRun' = others \o << [name |-> "Deinit", main |-> "wait1"] >>
<1> DEFINE four == [i \in 1 .. 4 |-> [name |-> << "PA", "PB", "CA", "CB" >>[i], main |-> "name"]]
           five == << [name |-> "Deinit", main |-> "wait1"] >>
<1>1. /\ "PA" \in Demo1Task /\ "PB" \in Demo1Task /\ "CA" \in Demo1Task /\ "CB" \in Demo1Task
  BY DEF Demo1Task, Producer, Consumer
<1>2. \A i \in 1 .. 4 : four[i] \in AppInfo /\ four[i].name \in Demo1Task
  BY <1>1, ShopNames DEF AppInfo, Begin
<1>3. four \in Seq(AppInfo) /\ DOMAIN four = 1 .. 4
  BY <1>2
<1>4. toRun' = toRun \o (four \o five) /\ toRun = << >>
  BY DEF RunDemo1, RegApps, Idle
<1> HIDE DEF four
<1>5. toRun' = four \o five
  BY <1>3, <1>4
<1> QED
  BY <1>2, <1>3, <1>5

LEMMA RunDemo1KeepsStage ==
    ASSUME ReadersInv, Stage, Over, RunDemo1, shell' = "delay"
    PROVE  Stage'
<1>1. Idle /\ LockInv /\ g_mutex \in Mutex
  BY Names, OverIdle DEF ReadersInv, LocksOK
<1>2. PICK others \in Seq(AppInfo) :
        /\ \A i \in DOMAIN others : others[i].name \in Demo1Task
        /\ toRun' = others \o << [name |-> "Deinit", main |-> "wait1"] >>
  BY <1>1, RunDemo1Registers
<1>3. UNCHANGED pc
  BY DEF RunDemo1, taskVars
<1>4. \A m \in Mutex : Exists(m)' => m \in {g_mutex}
  BY <1>1 DEF RunDemo1, Create, LockInv, Idle, Exists
<1>5. UnderDemo1'
  BY <1>1, <1>2, <1>3, <1>4, UnderRun, ShopNames DEF UnderDemo1
<1> QED
  BY <1>5 DEF Stage

LEMMA InFront ==
    ASSUME NEW S, NEW e \in S, NEW s \in Seq(S)
    PROVE  /\ << e >> \o s \in Seq(S) /\ Len(<< e >> \o s) = Len(s) + 1
           /\ (<< e >> \o s)[1] = e
           /\ \A i \in 2 .. Len(s) + 1 : (<< e >> \o s)[i] = s[i - 1]
<1> DEFINE one == << e >>
<1>1. one \in Seq(S) /\ Len(one) = 1 /\ one[1] = e
  OBVIOUS
<1> HIDE DEF one
<1>2. /\ one \o s \in Seq(S)
      /\ Len(one \o s) = Len(one) + Len(s)
      /\ \A i \in 1 .. Len(one) + Len(s) :
           (one \o s)[i] = IF i <= Len(one) THEN one[i] ELSE s[i - Len(one)]
  BY <1>1, ConcatProperties
<1>3. Len(s) \in Nat
  OBVIOUS
<1>4. /\ one \o s \in Seq(S) /\ Len(one \o s) = Len(s) + 1 /\ (one \o s)[1] = e
      /\ \A i \in 2 .. Len(s) + 1 : (one \o s)[i] = s[i - 1]
  BY <1>1, <1>2, <1>3
<1> QED
  BY <1>4 DEF one

\* The tasks of the second demonstration other than Deinit, as they are registered.
LEMMA WriterFirst ==
    ASSUME NEW readers \in Seq(AppInfo),
           \A i \in DOMAIN readers : readers[i].name \in Reader,
           NEW writer \in AppInfo
    PROVE  LET others == << writer >> \o readers IN
           /\ others \in Seq(AppInfo)
           /\ others # << >> /\ others[1] = writer
           /\ \A i \in DOMAIN others : i # 1 => others[i].name \in Reader
<1> DEFINE others == << writer >> \o readers
<1>1. /\ others \in Seq(AppInfo) /\ Len(others) = Len(readers) + 1
      /\ others[1] = writer
      /\ \A i \in 2 .. Len(readers) + 1 : others[i] = readers[i - 1]
  BY InFront
<1> HIDE DEF others
<1>2. Len(readers) \in Nat /\ DOMAIN readers = 1 .. Len(readers)
  OBVIOUS
<1>3. DOMAIN others = 1 .. Len(readers) + 1
  BY <1>1
<1>4. ASSUME NEW i \in DOMAIN others, i # 1
      PROVE  others[i].name \in Reader
  <2>1. i - 1 \in DOMAIN readers /\ others[i] = readers[i - 1]
    BY <1>1, <1>2, <1>3, <1>4
  <2> QED
    BY <2>1
<1>5. others # << >>
  BY <1>1, <1>2
<1> QED
  BY <1>1, <1>4, <1>5 DEF others

LEMMA RegisteredDemo2 ==
    LET others == << [name |-> "Writer", main |-> "title"] >> \o
                  [i \in DOMAIN Readers |-> [name |-> Readers[i], main |-> "read"]]
    IN /\ others \in Seq(AppInfo)
       /\ others # << >> /\ others[1] = [name |-> "Writer", main |-> "title"]
       /\ \A i \in DOMAIN others : i # 1 => others[i].name \in Reader
<1> DEFINE readers == [i \in DOMAIN Readers |-> [name |-> Readers[i], main |-> "read"]]
           writer == [name |-> "Writer", main |-> "title"]
<1>1. readers \in Seq(AppInfo) /\ writer \in AppInfo
  BY ReadersRegistered, Names DEF AppInfo, Begin
<1>2. \A i \in DOMAIN readers : readers[i].name \in Reader
  BY ReadersList
<1> HIDE DEF readers, writer
<1>3. LET others == << writer >> \o readers IN
      /\ others \in Seq(AppInfo)
      /\ others # << >> /\ others[1] = writer
      /\ \A i \in DOMAIN others : i # 1 => others[i].name \in Reader
  BY <1>1, <1>2, WriterFirst
<1> QED
  BY <1>3 DEF readers, writer

LEMMA RunDemo2Registers ==
    ASSUME Idle, RunDemo2
    PROVE  \E others \in Seq(AppInfo) :
             /\ others # << >> /\ others[1] = [name |-> "Writer", main |-> "title"]
             /\ \A i \in DOMAIN others : i # 1 => others[i].name \in Reader
             /\ toRun' = others \o << [name |-> "Deinit", main |-> "wait2"] >>
<1> DEFINE others == << [name |-> "Writer", main |-> "title"] >> \o
                     [i \in DOMAIN Readers |-> [name |-> Readers[i], main |-> "read"]]
           deinit == << [name |-> "Deinit", main |-> "wait2"] >>
<1>1. toRun' = toRun \o (others \o deinit) /\ toRun = << >>
  BY DEF RunDemo2, RegApps, Idle
<1>2. /\ others \in Seq(AppInfo)
      /\ others # << >> /\ others[1] = [name |-> "Writer", main |-> "title"]
      /\ \A i \in DOMAIN others : i # 1 => others[i].name \in Reader
  BY RegisteredDemo2
<1>3. deinit \in Seq(AppInfo)
  BY Names DEF AppInfo, Begin
<1> HIDE DEF others
<1>4. toRun' = others \o deinit
  <2> HIDE DEF deinit
  <2> QED
    BY <1>1, <1>2, <1>3
<1> QED
  BY <1>2, <1>4

LEMMA RunDemo2KeepsStage ==
    ASSUME ReadersInv, Stage, Over, RunDemo2, shell' = "delay"
    PROVE  Stage'
<1>1. Idle /\ LockInv /\ g_mutex_read \in Mutex /\ g_mutex_write \in Mutex
  BY Names, OverIdle DEF ReadersInv, LocksOK
<1>2. PICK others \in Seq(AppInfo) :
        /\ others # << >> /\ others[1] = [name |-> "Writer", main |-> "title"]
        /\ \A i \in DOMAIN others : i # 1 => others[i].name \in Reader
        /\ toRun' = others \o << [name |-> "Deinit", main |-> "wait2"] >>
  BY <1>1, RunDemo2Registers
<1>3. \A i \in DOMAIN others : others[i].name \in Demo2Task
  BY <1>2 DEF Demo2Task
<1>4. UNCHANGED pc
  BY DEF RunDemo2, taskVars
<1>5. \A m \in Mutex : Exists(m)' => m \in {g_mutex_read, g_mutex_write}
  BY <1>1 DEF RunDemo2, LockInv, Idle, Exists
<1>6. "Deinit" \notin Demo2Task
  BY Names DEF Demo2Task
<1>7. UnderDemo2'
  BY <1>1, <1>2, <1>3, <1>4, <1>5, <1>6, UnderRun DEF UnderDemo2
<1> QED
  BY <1>7 DEF Stage

LEMMA StageInit == ShellInit => Stage
  BY DEF ShellInit, AppInit, LockInit, Stage, Idle, Absence, Exists

LEMMA StageStep ==
    ASSUME ReadersInv, HeldInside, Stage, [ShellNext]_vars
    PROVE  Stage'
<1>1. ASSUME UNCHANGED << lockVars, toRun, taskVars >>,
             \/ shell' \in {shell, "shared", "lost"}
             \/ shell' = "asleep" /\ ~Absence("Deinit")
             \/ shell' = "prompt" /\ (Over \/ (shell = "asleep" /\ Absence("Deinit")))
      PROVE  Stage'
  <2>1. UNCHANGED << lock, toRun, pc >>
    BY <1>1 DEF lockVars, taskVars
  <2>2. (Idle' <=> Idle) /\ (UnderDemo1' <=> UnderDemo1) /\ (UnderDemo2' <=> UnderDemo2)
    BY <2>1 DEF Idle, UnderDemo1, UnderDemo2, Under, Absence, Exists
  <2>3. toRun = << >> /\ Absence("Deinit") /\ (UnderDemo1 \/ UnderDemo2) => Idle
    BY DEF UnderDemo1, UnderDemo2, Under
  <2>4. ~Absence("Deinit") => toRun = << >>
    BY Names DEF Stage, Idle, UnderDemo1, UnderDemo2, Under
  <2> QED
    BY <1>1, <2>1, <2>2, <2>3, <2>4, OverIdle DEF Stage
<1>2. ASSUME NEW c \in Client, Step(c) \/ EnterStep(c)
      PROVE  Stage'
  <2>1. CASE c # "Deinit"
    BY <1>2, <2>1, OtherKeepsStage
  <2>2. CASE c = "Deinit"
    <3>1. UNCHANGED shellVars
      BY <1>2 DEF Step, EnterStep
    <3>2. Deinit1("Deinit") \/ Deinit2("Deinit") \/ End("Deinit")
      BY <1>2, <2>2, Names, ShopNames, Zenon
         DEF Step, EnterStep, Demo1Step, Demo1Enter, Demo2Step, Demo2Enter
    <3> QED
      BY <3>1, <3>2, Deinit1KeepsStage, Deinit2KeepsStage, DeinitEndsStage
  <2> QED
    BY <2>1, <2>2
<1>3. CASE Character \/ StrayStore \/ BSHandler
  BY <1>1, <1>3 DEF Character, StrayStore, BSHandler, appVars
<1>4. ASSUME NewLine, UNCHANGED << lockVars, toRun, taskVars >>
      PROVE  Stage'
  BY <1>1, <1>4 DEF NewLine
<1>8. CASE EnterHandler
  BY <1>4, <1>8, RunDemo1KeepsStage, RunDemo2KeepsStage, Zenon DEF EnterHandler
<1>5. CASE DoWait \/ Woken
  BY <1>1, <1>4, <1>5 DEF DoWait, Woken
<1>6. CASE CreateTask /\ UNCHANGED shellVars
  BY <1>6, CreateKeepsStage
<1>7. CASE UNCHANGED vars
  BY <1>1, <1>7 DEF vars, appVars, shellVars
<1> QED
  BY <1>2, <1>3, <1>5, <1>6, <1>7, <1>8, Zenon DEF ShellNext, Key, System, Lost

-----------------------------------------------------------------------------
(* What tasks keep for themselves, and the writer *)

\* What a task does to its own variables.
MovesTo(c) == \E from, to \in Place : Goto(c, from, to)

SetsRun(c) == UNCHANGED run \/ \E b \in BOOLEAN : run' = [run EXCEPT ![c] = b]

LEMMA Boolean ==
    ASSUME NEW c, NEW b, b \in BOOLEAN, run' = [run EXCEPT ![c] = b]
    PROVE  SetsRun(c)
  BY DEF SetsRun

LEMMA Locals1 ==
    ASSUME NEW c \in Client, Demo1Step(c) \/ Demo1Enter(c)
    PROVE  MovesTo(c) /\ SetsRun(c) /\ UNCHANGED next
<1>1. CASE Name(c) \/ Count(c) \/ Take(c) \/ EnterShop(c) \/ LeaveShop(c) \/ Deinit1(c)
  <2>1. UNCHANGED << next, run >>
    BY <1>1 DEF Name, Count, Take, EnterShop, Entering, LeaveShop, Deinit1
  <2>2. \/ Goto(c, "name", "enter") \/ Goto(c, "count", "leave") \/ Goto(c, "take", "leave")
        \/ Goto(c, "enter", "check") \/ Goto(c, "leave", "enter") \/ Goto(c, "leave", "end")
        \/ Goto(c, "wait1", "deinit1") \/ Goto(c, "deinit1", "end")
    BY <1>1 DEF Name, Count, Take, EnterShop, Entering, LeaveShop, Exiting, Deinit1
  <2> QED
    BY <2>1, <2>2 DEF MovesTo, SetsRun, Place, Begin
<1>2. CASE Produce(c)
  <2>1. run' = [run EXCEPT ![c] = g_num < NUM] /\ UNCHANGED next
    BY <1>2, Zenon DEF Produce
  <2>2. (g_num < NUM) \in BOOLEAN
    OBVIOUS
  <2>3. SetsRun(c)
    BY <2>1, <2>2, Boolean, Zenon
  <2>4. Goto(c, "check", "count") \/ Goto(c, "check", "leave")
    BY <1>2 DEF Produce
  <2> QED
    BY <2>1, <2>3, <2>4 DEF MovesTo, Place
<1>3. CASE Consume(c)
  <2>1. run' = [run EXCEPT ![c] = g_get > 0] /\ UNCHANGED next
    BY <1>3, Zenon DEF Consume
  <2>2. (g_get > 0) \in BOOLEAN
    OBVIOUS
  <2>3. SetsRun(c)
    BY <2>1, <2>2, Boolean, Zenon
  <2>4. Goto(c, "check", "take") \/ Goto(c, "check", "leave")
    BY <1>3 DEF Consume
  <2> QED
    BY <2>1, <2>3, <2>4 DEF MovesTo, Place
<1> QED
  BY <1>1, <1>2, <1>3, Zenon DEF Demo1Step, Demo1Enter

\* The writer as it moves.
WriterMoves ==
    \/ Goto("Writer", "title", "open") /\ UNCHANGED << next, g_data >>
    \/ /\ Goto("Writer", "open", IF next["Writer"] < ROUNDS THEN "write" ELSE "clear")
       /\ UNCHANGED << next, g_data >>
    \/ Goto("Writer", "write", "close") /\ g_data' = g_data + 1 /\ UNCHANGED next
    \/ Goto("Writer", "clear", "cleared") /\ g_data' = 0 /\ UNCHANGED next
    \/ /\ Goto("Writer", "close", "open")
       /\ next' = [next EXCEPT !["Writer"] = next["Writer"] + 1] /\ UNCHANGED g_data
    \/ Goto("Writer", "cleared", "end") /\ UNCHANGED << next, g_data >>

LEMMA Locals2 ==
    ASSUME NEW c \in Client, Demo2Step(c) \/ Demo2Enter(c)
    PROVE  /\ MovesTo(c) /\ SetsRun(c)
           /\ \/ c # "Writer" /\ UNCHANGED << next, g_data >>
              \/ c = "Writer" /\ WriterMoves
<1>1. CASE c \in Reader /\ (EnterReader(c) \/ ShutOut(c) \/ Counted(c) \/ LetIn(c) \/ Uncounted(c))
  <2>1. UNCHANGED << next, run, g_data >>
    BY <1>1 DEF EnterReader, ShutOut, Entering, Counted, LetIn, Uncounted, demo2Vars
  <2>2. \/ Goto(c, "read", "first") \/ Goto(c, "reread", "uncount") \/ Goto(c, "shut", "count")
        \/ Goto(c, "counted", "test") \/ Goto(c, "letin", "uncounted")
        \/ Goto(c, "uncounted", "read") \/ Goto(c, "uncounted", "end")
    BY <1>1 DEF EnterReader, ShutOut, Entering, Counted, LetIn, Uncounted, Exiting
  <2> QED
    BY <1>1, <2>1, <2>2, Names DEF MovesTo, SetsRun, Place, Begin
<1>2. CASE c \in Reader /\ (First(c) \/ CountReader(c) \/ Show(c) \/ UncountReader(c))
  <2>1. UNCHANGED << next, run, g_data >>
    BY <1>2, Zenon DEF First, CountReader, Show, UncountReader, demo2Vars
  <2>2. \/ Goto(c, "first", "shut") \/ Goto(c, "first", "count") \/ Goto(c, "count", "counted")
        \/ Goto(c, "show", "reread") \/ Goto(c, "uncount", "letin")
        \/ Goto(c, "uncount", "uncounted")
    BY <1>2 DEF First, CountReader, Show, UncountReader
  <2> QED
    BY <1>2, <2>1, <2>2, Names DEF MovesTo, SetsRun, Place
<1>3. CASE c \in Reader /\ Test(c)
  <2>1. run' = [run EXCEPT ![c] = g_data # 0] /\ UNCHANGED << next, g_data >>
    BY <1>3, Zenon DEF Test, demo2Vars
  <2>2. (g_data # 0) \in BOOLEAN
    OBVIOUS
  <2>3. SetsRun(c)
    BY <2>1, <2>2, Boolean, Zenon
  <2>4. Goto(c, "test", "show") \/ Goto(c, "test", "reread")
    BY <1>3 DEF Test
  <2>5. MovesTo(c)
    BY <2>4 DEF MovesTo, Place
  <2> QED
    BY <1>3, <2>1, <2>3, <2>5, Names
<1>4. CASE c = "Writer" /\ (WriterStep(c) \/ EnterWriter(c))
  <2>1. WriterMoves /\ UNCHANGED run
    BY <1>4 DEF WriterStep, Title, Write, ExitWriter, EnterWriter, Entering, Exiting, demo2Vars,
                WriterMoves
  <2>2. \/ Goto(c, "title", "open") \/ Goto(c, "open", "write") \/ Goto(c, "open", "clear")
        \/ Goto(c, "write", "close") \/ Goto(c, "clear", "cleared")
        \/ Goto(c, "close", "open") \/ Goto(c, "cleared", "end")
    BY <1>4, <2>1 DEF WriterMoves
  <2> QED
    BY <1>4, <2>1, <2>2 DEF MovesTo, SetsRun, Place, Begin
<1>5. CASE c = "Deinit" /\ Deinit2(c)
  <2>1. UNCHANGED << next, run, g_data >>
    BY <1>5 DEF Deinit2, demo2Vars
  <2>2. \/ Goto(c, "wait2", "deinit2") \/ Goto(c, "deinit2", "deinit3")
        \/ Goto(c, "deinit3", "end")
    BY <1>5 DEF Deinit2
  <2> QED
    BY <1>5, <2>1, <2>2 DEF MovesTo, SetsRun, Place, Begin
<1> QED
  BY <1>1, <1>2, <1>3, <1>4, <1>5, Zenon DEF Demo2Step, Demo2Enter, ReaderStep

\* A task keeps to its places and to its own variables.
LEMMA LocalsKept ==
    ASSUME TasksOK, LocalsRight, NEW c \in Client, MovesTo(c), SetsRun(c), UNCHANGED next,
           c = "Writer" => pc'[c] # "absent"
    PROVE  LocalsRight'
<1>1. \A d \in Client : pc'[d] \in Place /\ (d # c => pc'[d] = pc[d])
  BY DEF TasksOK, LocalsRight, MovesTo, Goto
<1>2. /\ run' = [d \in Client |-> run'[d]]
      /\ \A d \in Client : run'[d] \in BOOLEAN
  <2>1. CASE UNCHANGED run
    BY <2>1 DEF LocalsRight
  <2>2. ASSUME NEW b \in BOOLEAN, run' = [run EXCEPT ![c] = b]
        PROVE  /\ run' = [d \in Client |-> run'[d]]
               /\ \A d \in Client : run'[d] \in BOOLEAN
    <3>1. run = [d \in Client |-> run[d]] /\ \A d \in Client : run[d] \in BOOLEAN
      BY DEF LocalsRight
    <3>2. run' = [d \in Client |-> IF d = c THEN b ELSE run[d]]
      BY <2>2, <3>1, Zenon
    <3>3. \A d \in Client : run'[d] = IF d = c THEN b ELSE run[d]
      BY <3>2, Zenon
    <3> QED
      BY <2>2, <3>1, <3>2, <3>3, Zenon
  <2> QED
    BY <2>1, <2>2, Zenon DEF SetsRun
<1>3. ASSUME NEW d \in Client, pc'[d] = "absent" \/ d # "Writer"
      PROVE  next'[d] = 0
  BY <1>1, <1>3 DEF LocalsRight, Absence
<1>4. next' = [d \in Client |-> next'[d]] /\ \A d \in Client : next'[d] \in 0 .. ROUNDS
  BY DEF LocalsRight
<1> QED
  BY <1>1, <1>2, <1>3, <1>4, Zenon DEF LocalsRight, Absence

LEMMA WriterKept ==
    ASSUME WriterRight, UNCHANGED << g_data, toRun >>,
           pc'["Writer"] = pc["Writer"], next'["Writer"] = next["Writer"]
    PROVE  WriterRight'
  BY DEF WriterRight, Absence

LEMMA WriterWrites ==
    ASSUME TasksOK, WriterRight, LocalsRight, UNCHANGED << toRun, run >>, WriterMoves
    PROVE  WriterRight' /\ LocalsRight'
<1>1. "Writer" \in Client /\ ROUNDS \in Nat
  BY Names, Demo2Assumption
<1>2. /\ next = [c \in Client |-> next[c]]
      /\ \A c \in Client : next[c] \in 0 .. ROUNDS
      /\ \A c \in Client : c # "Writer" => next[c] = 0
  BY DEF LocalsRight
<1> DEFINE n == next["Writer"]
<1>3. n \in 0 .. ROUNDS
  BY <1>1, <1>2
<1>4. ASSUME NEW from, NEW to, Goto("Writer", from, to)
      PROVE  /\ pc["Writer"] = from /\ pc'["Writer"] = to
             /\ \A d \in Client : d # "Writer" => pc'[d] = pc[d]
  BY <1>1, <1>4, GotoEffect
<1>5. /\ next' = [c \in Client |-> next'[c]]
      /\ \A c \in Client : c # "Writer" => next'[c] = 0
      /\ next'["Writer"] \in 0 .. ROUNDS
      /\ pc'["Writer"] \in {"title", "open", "end"} \union Critical
      /\ pc'["Writer"] \in {"title", "open", "write", "clear"} => g_data' = 65 + next'["Writer"]
      /\ pc'["Writer"] = "close" => g_data' = 66 + next'["Writer"]
      /\ pc'["Writer"] \in {"write", "close"} => next'["Writer"] < ROUNDS
      /\ g_data' \in {0} \union (65 .. 65 + ROUNDS)
      /\ pc["Writer"] # "absent"
      /\ \A d \in Client : d # "Writer" => pc'[d] = pc[d]
  <2>1. CASE Goto("Writer", "title", "open") /\ UNCHANGED << next, g_data >>
    BY <1>2, <1>3, <1>4, <2>1 DEF WriterRight, Critical
  <2>2. CASE /\ Goto("Writer", "open", IF next["Writer"] < ROUNDS THEN "write" ELSE "clear")
             /\ UNCHANGED << next, g_data >>
    BY <1>2, <1>3, <1>4, <2>2 DEF WriterRight, Critical
  <2>3. CASE Goto("Writer", "write", "close") /\ g_data' = g_data + 1 /\ UNCHANGED next
    <3>1. g_data = 65 + n /\ n < ROUNDS
      BY <1>4, <2>3 DEF WriterRight
    <3>2. g_data' = 66 + n /\ g_data' \in 65 .. 65 + ROUNDS
      BY <1>1, <1>3, <2>3, <3>1
    <3> QED
      BY <1>2, <1>3, <1>4, <2>3, <3>1, <3>2 DEF Critical
  <2>4. CASE Goto("Writer", "clear", "cleared") /\ g_data' = 0 /\ UNCHANGED next
    BY <1>2, <1>3, <1>4, <2>4 DEF WriterRight, Critical
  <2>5. CASE /\ Goto("Writer", "close", "open")
             /\ next' = [next EXCEPT !["Writer"] = next["Writer"] + 1] /\ UNCHANGED g_data
    <3>1. g_data = 66 + n /\ n < ROUNDS /\ g_data \in {0} \union (65 .. 65 + ROUNDS)
      BY <1>4, <2>5 DEF WriterRight
    <3>2. \A c \in Client : next'[c] = IF c = "Writer" THEN n + 1 ELSE next[c]
      BY <1>2, <2>5
    <3>3. next' = [c \in Client |-> next'[c]]
      BY <1>2, <2>5
    <3>4. pc["Writer"] = "close" /\ pc'["Writer"] = "open"
      BY <1>4, <2>5
    <3>5. next'["Writer"] \in 0 .. ROUNDS /\ g_data' = 65 + next'["Writer"]
      BY <1>1, <1>3, <2>5, <3>1, <3>2
    <3> QED
      BY <1>2, <1>4, <2>5, <3>1, <3>2, <3>3, <3>4, <3>5
  <2>6. CASE Goto("Writer", "cleared", "end") /\ UNCHANGED << next, g_data >>
    BY <1>2, <1>3, <1>4, <2>6 DEF WriterRight, Critical
  <2> QED
    BY <2>1, <2>2, <2>3, <2>4, <2>5, <2>6 DEF WriterMoves
<1>6. \A i \in DOMAIN toRun : toRun[i].name # "Writer"
  BY <1>5 DEF WriterRight, Absence
<1>7. WriterRight'
  BY <1>5, <1>6 DEF WriterRight
<1>8. ASSUME NEW c \in Client
      PROVE  /\ pc'[c] \in Place
             /\ next'[c] \in 0 .. ROUNDS /\ run'[c] \in BOOLEAN
             /\ pc'[c] = "absent" \/ c # "Writer" => next'[c] = 0
  <2>1. CASE c = "Writer"
    BY <1>5, <2>1 DEF LocalsRight, Place, Begin, Critical
  <2>2. CASE c # "Writer"
    BY <1>1, <1>5, <2>2 DEF LocalsRight
  <2> QED
    BY <2>1, <2>2
<1>9. run' = [c \in Client |-> run'[c]]
  BY DEF LocalsRight
<1>10. LocalsRight'
  BY <1>5, <1>8, <1>9, Zenon DEF LocalsRight, Absence
<1> QED
  BY <1>7, <1>10

LEMMA EndKeepsLocals ==
    ASSUME TasksOK, WriterRight, LocalsRight, NEW c \in Client, End(c), UNCHANGED g_data
    PROVE  WriterRight' /\ LocalsRight'
<1>1. /\ UNCHANGED toRun /\ pc[c] = "end" /\ pc'[c] = "absent"
      /\ \A d \in Client : d # c => pc'[d] = pc[d]
  BY GotoEffect DEF End
<1>2. /\ next = [d \in Client |-> next[d]] /\ run = [d \in Client |-> run[d]]
      /\ next' = [next EXCEPT ![c] = 0] /\ run' = [run EXCEPT ![c] = TRUE]
  BY DEF End, LocalsRight
<1>3. /\ next' = [d \in Client |-> next'[d]]
      /\ \A d \in Client : next'[d] = IF d = c THEN 0 ELSE next[d]
  BY <1>2
<1>4. /\ run' = [d \in Client |-> run'[d]]
      /\ \A d \in Client : run'[d] = IF d = c THEN TRUE ELSE run[d]
  BY <1>2, Zenon
<1>5. ROUNDS \in Nat /\ "Writer" \in Client
  BY Demo2Assumption, Names
<1>6. ASSUME NEW d \in Client
      PROVE  /\ pc'[d] \in Place
             /\ next'[d] \in 0 .. ROUNDS
             /\ pc'[d] = "absent" \/ d # "Writer" => next'[d] = 0
  <2>1. CASE d = c
    BY <1>1, <1>3, <1>5, <2>1 DEF Place
  <2>2. CASE d # c
    BY <1>1, <1>3, <2>2 DEF LocalsRight, Absence
  <2> QED
    BY <2>1, <2>2
<1>7. \A d \in Client : run'[d] \in BOOLEAN
  BY <1>4, Zenon DEF LocalsRight
<1>8. LocalsRight'
  BY <1>3, <1>4, <1>6, <1>7, Zenon DEF LocalsRight, Absence
<1>9. WriterRight'
  <2>1. CASE c # "Writer"
    BY <1>1, <1>3, <1>5, <2>1, WriterKept
  <2>2. CASE c = "Writer"
    BY <1>1, <2>2 DEF WriterRight, Absence
  <2> QED
    BY <2>1, <2>2
<1> QED
  BY <1>8, <1>9

LEMMA CreateKeepsLocals ==
    ASSUME TasksOK, WriterRight, LocalsRight, CreateTask, UNCHANGED g_data
    PROVE  WriterRight' /\ LocalsRight'
<1> DEFINE c == Head(toRun).name
           main == Head(toRun).main
<1>1. /\ c \in Client /\ pc[c] = "absent"
      /\ toRun # << >> /\ toRun' = Tail(toRun)
      /\ pc'[c] = main
      /\ \A d \in Client : d # c => pc'[d] = pc[d]
      /\ UNCHANGED << next, run >>
  BY CreateEffect
<1>2. /\ toRun \in Seq(AppInfo) /\ Len(toRun) \in Nat \ {0}
      /\ Head(toRun) = toRun[1] /\ 1 \in DOMAIN toRun /\ DOMAIN toRun = 1 .. Len(toRun)
      /\ Head(toRun) \in AppInfo
  BY <1>1 DEF TasksOK
<1>3. /\ DOMAIN toRun' = 1 .. Len(toRun) - 1
      /\ \A i \in 1 .. Len(toRun) - 1 : toRun'[i] = toRun[i + 1]
  BY <1>1, <1>2
<1>4. c = toRun[1].name /\ main = toRun[1].main /\ main \in Begin
  BY <1>2 DEF AppInfo
<1> HIDE DEF c, main
<1>5. \A i \in DOMAIN toRun' : toRun'[i].name # "Writer"
  <2> SUFFICES ASSUME NEW i \in DOMAIN toRun', toRun'[i].name = "Writer" PROVE FALSE
    OBVIOUS
  <2>1. i + 1 \in DOMAIN toRun /\ toRun[i + 1].name = "Writer" /\ i + 1 # 1
    BY <1>2, <1>3
  <2> QED
    BY <2>1 DEF WriterRight
<1>6. c = "Writer" => main = "title" /\ g_data = 65
  BY <1>2, <1>4 DEF WriterRight
<1>7. \A d \in Client : /\ pc'[d] \in Place
                        /\ pc'[d] = "absent" => pc[d] = "absent"
  BY <1>1, <1>4 DEF LocalsRight, Place
<1>8. LocalsRight'
  BY <1>1, <1>7 DEF LocalsRight, Absence
<1>9. CASE c = "Writer"
  <2>1. next["Writer"] = 0
    BY <1>1, <1>9 DEF LocalsRight, Absence
  <2>2. pc'["Writer"] = "title"
    BY <1>1, <1>6, <1>9
  <2>3. WriterRight'
    BY <1>1, <1>5, <1>6, <1>9, <2>1, <2>2 DEF WriterRight, Critical
  <2> QED
    BY <1>8, <2>3
<1>10. CASE c # "Writer"
  <2>1. pc'["Writer"] = pc["Writer"]
    BY <1>1, <1>10, Names
  <2>2. WriterRight'
    BY <1>1, <1>5, <2>1 DEF WriterRight
  <2> QED
    BY <1>8, <2>2
<1> QED
  BY <1>9, <1>10

\* The writer is registered first, or not at all.
LEMMA RunKeepsLocals ==
    ASSUME Idle, WriterRight, LocalsRight, (RunDemo1 /\ UNCHANGED g_data) \/ RunDemo2
    PROVE  WriterRight' /\ LocalsRight'
<1>1. UNCHANGED << pc, next, run >>
  BY DEF RunDemo1, RunDemo2, taskVars
<1>2. LocalsRight'
  BY <1>1 DEF LocalsRight, Absence
<1>3. pc["Writer"] = "absent" /\ ROUNDS \in Nat
  BY Names, Demo2Assumption DEF Idle, Absence
<1>4. g_data' = g_data \/ g_data' = 65
  BY DEF RunDemo2
<1>5. \A i \in DOMAIN toRun' : toRun'[i].name = "Writer" =>
        i = 1 /\ g_data' = 65 /\ toRun'[i].main = "title"
  <2>1. ASSUME NEW others \in Seq(AppInfo), NEW main,
               toRun' = others \o << [name |-> "Deinit", main |-> main] >>,
               NEW i \in DOMAIN toRun', toRun'[i].name = "Writer"
        PROVE  i \in DOMAIN others /\ toRun'[i] = others[i]
    <3> DEFINE last == [name |-> "Deinit", main |-> main]
    <3>1. toRun' = Append(others, last) /\ last.name = "Deinit"
      BY <2>1
    <3> HIDE DEF last
    <3>2. i \in DOMAIN others \/ toRun'[i] = last
      BY <2>1, <3>1
    <3> QED
      BY <2>1, <3>1, <3>2
  <2>2. CASE RunDemo1
    BY <2>1, <2>2, RunDemo1Registers, Names
  <2>3. CASE RunDemo2
    <3>1. PICK others \in Seq(AppInfo) :
            /\ others # << >> /\ others[1] = [name |-> "Writer", main |-> "title"]
            /\ \A i \in DOMAIN others : i # 1 => others[i].name \in Reader
            /\ toRun' = others \o << [name |-> "Deinit", main |-> "wait2"] >>
      BY <2>3, RunDemo2Registers
    <3>2. g_data' = 65
      BY <2>3 DEF RunDemo2
    <3>3. ASSUME NEW i \in DOMAIN toRun', toRun'[i].name = "Writer"
          PROVE  i = 1 /\ toRun'[i].main = "title"
      <4>1. i \in DOMAIN others /\ toRun'[i] = others[i]
        BY <2>1, <3>1, <3>3
      <4> QED
        BY <3>1, <3>3, <4>1, Names
    <3> QED
      BY <3>2, <3>3
  <2> QED
    BY <2>2, <2>3
<1>6. WriterRight'
  BY <1>1, <1>3, <1>4, <1>5 DEF WriterRight, Absence, Critical
<1> QED
  BY <1>2, <1>6

LEMMA LocalsInit == ShellInit => WriterRight /\ LocalsRight
<1> SUFFICES ASSUME ShellInit PROVE WriterRight /\ LocalsRight
  OBVIOUS
<1>1. /\ pc = [c \in Client |-> "absent"] /\ next = [c \in Client |-> 0]
      /\ run = [c \in Client |-> TRUE] /\ toRun = << >> /\ g_data = 65
  BY Zenon DEF ShellInit, AppInit, Demo2Init
<1>2. ROUNDS \in Nat /\ "Writer" \in Client
  BY Demo2Assumption, Names
<1>3. run = [c \in Client |-> run[c]] /\ \A c \in Client : run[c] \in BOOLEAN
  BY <1>1, Zenon
<1>4. /\ next = [c \in Client |-> next[c]]
      /\ \A c \in Client : next[c] = 0 /\ pc[c] \in Place
  BY <1>1 DEF Place
<1>5. LocalsRight
  BY <1>2, <1>3, <1>4 DEF LocalsRight
<1>6. WriterRight
  BY <1>1, <1>2 DEF WriterRight
<1> QED
  BY <1>5, <1>6

LEMMA LocalsStep ==
    ASSUME ReadersInv, Stage, WriterRight, LocalsRight, [ShellNext]_vars
    PROVE  WriterRight' /\ LocalsRight'
<1>1. TasksOK
  BY DEF ReadersInv
<1>2. CASE UNCHANGED << toRun, taskVars, demo2Vars >>
  BY <1>2 DEF WriterRight, LocalsRight, Absence, taskVars, demo2Vars
<1>3. ASSUME NEW c \in Client, Step(c) \/ EnterStep(c)
      PROVE  WriterRight' /\ LocalsRight'
  <2>1. /\ pc[c] # "absent" /\ UNCHANGED toRun
        /\ \A d \in Client : d # c => pc'[d] = pc[d]
    BY <1>3, TaskMoves
  <2>2. CASE (Demo1Step(c) \/ Demo1Enter(c)) /\ UNCHANGED demo2Vars
    <3>1. MovesTo(c) /\ SetsRun(c) /\ UNCHANGED << next, g_data >>
      BY <2>2, Locals1 DEF demo2Vars
    <3>2. c # "Writer"
      BY <2>2, Names DEF Demo1Step, Demo1Enter, Demo1Task
    <3> QED
      BY <1>1, <2>1, <3>1, <3>2, LocalsKept, WriterKept, Names
  <2>3. CASE Demo2Step(c) \/ Demo2Enter(c)
    <3>1. CASE c # "Writer"
      <4>1. MovesTo(c) /\ SetsRun(c) /\ UNCHANGED << next, g_data >>
        BY <2>3, <3>1, Locals2
      <4> QED
        BY <1>1, <2>1, <3>1, <4>1, LocalsKept, WriterKept, Names
    <3>2. CASE c = "Writer"
      <4>1. WriterMoves
        BY <2>3, <3>2, Locals2
      <4>2. UNCHANGED run
        BY <2>3, <3>2, Names
           DEF Demo2Step, Demo2Enter, WriterStep, Title, Write, ExitWriter, EnterWriter, Entering
      <4> QED
        BY <1>1, <2>1, <4>1, <4>2, WriterWrites
    <3> QED
      BY <3>1, <3>2
  <2>4. CASE End(c) /\ UNCHANGED demo2Vars
    BY <1>1, <2>4, EndKeepsLocals DEF demo2Vars
  <2> QED
    BY <1>3, <2>2, <2>3, <2>4, Zenon DEF Step, EnterStep
<1>4. CASE EnterHandler
  <2>1. ASSUME Over PROVE Idle
    BY <2>1, OverIdle
  <2>2. CASE Over /\ RunDemo1 /\ UNCHANGED demo2Vars
    BY <2>1, <2>2, RunKeepsLocals DEF demo2Vars
  <2>3. CASE Over /\ RunDemo2
    BY <2>1, <2>3, RunKeepsLocals
  <2> QED
    BY <1>2, <1>4, <2>2, <2>3, Zenon DEF EnterHandler
<1>5. CASE Character \/ StrayStore \/ BSHandler \/ DoWait \/ Woken
  BY <1>2, <1>5, Zenon DEF Character, StrayStore, BSHandler, DoWait, Woken, appVars
<1>6. CASE CreateTask /\ UNCHANGED demo2Vars
  BY <1>1, <1>6, CreateKeepsLocals DEF demo2Vars
<1> QED
  BY <1>2, <1>3, <1>4, <1>5, <1>6, Zenon DEF ShellNext, Key, System, Lost, vars, appVars

-----------------------------------------------------------------------------
(* The cursor and the command line *)

LEMMA OnScreen ==
    ASSUME NEW k \in 0 .. 1999
    PROVE  (k % 80) \in 0 .. 79 /\ (k \div 80) \in 0 .. 24
<1> DEFINE q == k \div 80
           r == k % 80
<1>1. k \in Int /\ 0 <= k /\ k <= 1999
  OBVIOUS
<1>2. q \in Int /\ r \in 0 .. 79 /\ k = 80 * q + r
  BY <1>1
<1> HIDE DEF q, r
<1>3. q \in 0 .. 24
  BY <1>1, <1>2
<1> QED
  BY <1>2, <1>3 DEF q, r

LEMMA PrintStringPosition ==
    ASSUME NEW p \in Position \union {Anywhere}, NEW n \in Nat
    PROVE  PrintString(p, n) \in Position \union {Anywhere}
<1>1. CASE p = Anywhere
  BY <1>1 DEF PrintString
<1>2. CASE p \in Position /\ p # Anywhere
  <2> DEFINE w == p[1]
             h == p[2]
             cell == h * 80 + w + n
             to == IF cell > 1999 THEN 1999 ELSE cell
  <2>1. w \in 0 .. 79 /\ h \in 0 .. 24
    BY <1>2 DEF Position, SCREEN_WIDTH, SCREEN_HEIGHT
  <2>2. PrintString(p, n) = << (to % 80), (to \div 80) >>
    BY <1>2 DEF PrintString, SCREEN_WIDTH, SCREEN_HEIGHT
  <2> HIDE DEF w, h
  <2>3. cell \in Nat
    BY <2>1
  <2> HIDE DEF cell
  <2>5. to \in 0 .. 1999
    BY <2>3
  <2> HIDE DEF to
  <2>4. (to % 80) \in 0 .. 79 /\ (to \div 80) \in 0 .. 24
    BY <2>5, OnScreen
  <2> QED
    BY <2>2, <2>4 DEF Position, SCREEN_WIDTH, SCREEN_HEIGHT
<1> QED
  BY <1>1, <1>2

LEMMA SetPrintPosPosition ==
    ASSUME NEW p \in Position \union {Anywhere}, NEW w \in Nat, NEW h \in Nat
    PROVE  SetPrintPos(p, w, h) \in Position \union {Anywhere}
  BY DEF SetPrintPos, Position, SCREEN_WIDTH, SCREEN_HEIGHT

\* A character behind a line that has room for it.
LEMMA CharacterBehind ==
    ASSUME NEW k \in 0 .. BUFF_SIZE - 1
    PROVE  PrintChar(<< PROMPT + k, CMD_START_H >>) = << PROMPT + (k + 1), CMD_START_H >>
<1> DEFINE p == << 12 + k, 9 >>
<1>1. k \in 0 .. 66
  BY LineAssumption DEF PROMPT, SCREEN_WIDTH
<1>2. p # << 80, 25 >> /\ p[1] = 12 + k /\ p[2] = 9
  OBVIOUS
<1>3. ((733 + k) % 80) = 13 + k /\ ((733 + k) \div 80) = 9
  BY <1>1
<1>4. 9 * 80 + (12 + k) + 1 = 733 + k /\ ~(733 + k > 25 * 80 - 1) /\ 12 + (k + 1) = 13 + k
  BY <1>1
<1> HIDE DEF p
<1>5. PrintString(p, 1) = << 13 + k, 9 >>
  BY <1>2, <1>3, <1>4 DEF PrintString, Anywhere, SCREEN_WIDTH, SCREEN_HEIGHT
<1> QED
  BY <1>4, <1>5 DEF PrintChar, PROMPT, CMD_START_H, p

\* The prompt is printed where the line begins, wherever the cursor was.
LEMMA PromptPosition ==
    ASSUME NEW p
    PROVE  ResetCmdLine(p) = << PROMPT + 0, CMD_START_H >>
<1>1. SetPrintPos(p, 0, 9) = << 0, 9 >>
  BY DEF SetPrintPos, SCREEN_WIDTH, SCREEN_HEIGHT
<1>2. (732 % 80) = 12 /\ (732 \div 80) = 9 /\ 9 * 80 + 0 + 12 = 732
  OBVIOUS
<1>3. PrintString(<< 0, 9 >>, 12) = << 12, 9 >>
  BY <1>2 DEF PrintString, Anywhere, SCREEN_WIDTH, SCREEN_HEIGHT
<1> QED
  BY <1>1, <1>3 DEF ResetCmdLine, PROMPT, CMD_START_W, CMD_START_H

LEMMA LinePosition ==
    ASSUME NEW k \in 0 .. BUFF_SIZE
    PROVE  << PROMPT + k, CMD_START_H >> \in Position
  BY LineAssumption DEF Position, PROMPT, CMD_START_H, SCREEN_WIDTH, SCREEN_HEIGHT

\* What a task does to the cursor.
LEMMA CursorMoves ==
    ASSUME LineRight, NEW c \in Client, Step(c) \/ EnterStep(c)
    PROVE  pos' \in Position \union {Anywhere}
<1>1. pos \in Position \union {Anywhere}
  BY DEF LineRight
<1>2. ASSUME pos' = pos \/ pos' = Anywhere PROVE pos' \in Position \union {Anywhere}
  BY <1>1, <1>2
<1>3. PrintString(SetPrintPos(pos, 0, 20), 6) \in Position \union {Anywhere}
  BY <1>1, SetPrintPosPosition, PrintStringPosition
<1>4. CASE Demo1Step(c) \/ Demo1Enter(c)
  <2>1. CASE Name(c) \/ LeaveShop(c) \/ EnterShop(c) \/ Produce(c) \/ Count(c) \/ Consume(c) \/ Take(c)
    BY <1>2, <2>1, Zenon DEF Name, LeaveShop, EnterShop, Produce, Count, Consume, Take
  <2>2. CASE Deinit1(c)
    BY <1>2, <1>3, <2>2, Zenon DEF Deinit1
  <2> QED
    BY <1>4, <2>1, <2>2, Zenon DEF Demo1Step, Demo1Enter
<1>5. CASE Demo2Step(c) \/ Demo2Enter(c)
  <2>1. CASE EnterReader(c) \/ ShutOut(c) \/ First(c) \/ CountReader(c) \/ Counted(c) \/ Test(c)
    BY <1>2, <2>1, Zenon DEF EnterReader, ShutOut, First, CountReader, Counted, Test
  <2>2. CASE Show(c) \/ UncountReader(c) \/ LetIn(c) \/ Uncounted(c)
    BY <1>2, <2>2, Zenon DEF Show, UncountReader, LetIn, Uncounted
  <2>3. CASE Title(c) \/ Write(c) \/ ExitWriter(c) \/ EnterWriter(c)
    BY <1>2, <2>3, Zenon DEF Title, Write, ExitWriter, EnterWriter
  <2>4. CASE Deinit2(c)
    BY <1>2, <1>3, <2>4, Zenon DEF Deinit2
  <2> QED
    BY <1>5, <2>1, <2>2, <2>3, <2>4, Zenon DEF Demo2Step, Demo2Enter, ReaderStep, WriterStep
<1>6. CASE End(c)
  BY <1>2, <1>6 DEF End
<1> QED
  BY <1>4, <1>5, <1>6, Zenon DEF Step, EnterStep

LEMMA LineInit == ShellInit => LineRight
<1> SUFFICES ASSUME ShellInit PROVE LineRight
  OBVIOUS
<1>1. gKIndex = 0 /\ pos = << PROMPT, CMD_START_H >>
  BY DEF ShellInit
<1>2. pos = << PROMPT + 0, CMD_START_H >> /\ gKIndex \in 0 .. BUFF_SIZE
  BY <1>1, LineAssumption DEF PROMPT
<1> QED
  BY <1>1, <1>2, LinePosition DEF LineRight, LineOnScreen

LEMMA LineStep ==
    ASSUME ReadersInv, Stage, LineRight, [ShellNext]_vars
    PROVE  LineRight'
<1>1. gKIndex \in -1 .. BUFF_SIZE /\ pos \in Position \union {Anywhere} /\ BUFF_SIZE \in Nat
  BY LineAssumption DEF LineRight
<1>2. ASSUME NEW k \in 0 .. BUFF_SIZE, gKIndex' = k, pos' = << PROMPT + k, CMD_START_H >>
      PROVE  LineRight'
  BY <1>2, LinePosition DEF LineRight, LineOnScreen
<1>3. ASSUME UNCHANGED << gKIndex, pos >>, shell' = "prompt" => shell = "prompt"
      PROVE  LineRight'
  BY <1>3 DEF LineRight, LineOnScreen
<1>4. ASSUME gKIndex' \in -1 .. BUFF_SIZE, pos' \in {pos, Anywhere}, shell' # "prompt"
      PROVE  LineRight'
  BY <1>1, <1>4 DEF LineRight, LineOnScreen
<1>5. ASSUME NEW c \in Client, Step(c) \/ EnterStep(c)
      PROVE  LineRight'
  <2>1. UNCHANGED << shell, gKIndex >> /\ shell # "prompt"
    BY <1>5, TaskMoves, NotAtPrompt
  <2>2. pos' \in Position \union {Anywhere}
    BY <1>5, CursorMoves
  <2> QED
    BY <1>1, <2>1, <2>2 DEF LineRight, LineOnScreen
<1>6. CASE Character
  <2>1. /\ gKIndex \in 0 .. BUFF_SIZE - 1 /\ gKIndex' = gKIndex + 1
        /\ gKIndex + 1 \in 0 .. BUFF_SIZE
        /\ shell' = shell /\ shell \in {"prompt", "shared"}
    BY <1>1, <1>6 DEF Character, InLine, AtPrompt
  <2>2. CASE shell = "prompt"
    <3>1. pos' = PrintChar(pos) /\ pos = << PROMPT + gKIndex, CMD_START_H >>
      BY <1>6, <2>2 DEF Character, Cursor, LineRight, LineOnScreen
    <3>2. pos' = << PROMPT + (gKIndex + 1), CMD_START_H >>
      BY <2>1, <3>1, CharacterBehind
    <3> QED
      BY <1>2, <2>1, <3>2
  <2>3. CASE shell = "shared"
    <3>1. pos' = Anywhere
      BY <1>6, <2>3 DEF Character, Cursor
    <3> QED
      BY <1>4, <2>1, <2>3, <3>1
  <2> QED
    BY <2>1, <2>2, <2>3
<1>7. CASE BSHandler
  <2>1. shell' = shell /\ shell \in {"prompt", "shared"}
    BY <1>7 DEF BSHandler, AtPrompt
  <2>2. CASE shell = "shared"
    <3>1. gKIndex' \in -1 .. BUFF_SIZE /\ pos' \in {pos, Anywhere}
      BY <1>1, <1>7, <2>2 DEF BSHandler, Cursor
    <3> QED
      BY <1>4, <2>1, <2>2, <3>1
  <2>3. CASE shell = "prompt"
    <3>1. gKIndex \in 0 .. BUFF_SIZE /\ pos = << PROMPT + gKIndex, CMD_START_H >>
      BY <1>1, <2>3 DEF LineRight, LineOnScreen
    <3>2. pos[1] = 12 + gKIndex
      BY <3>1 DEF PROMPT
    <3>3. CASE UNCHANGED << pos, gKIndex >>
      BY <1>3, <2>1, <3>3
    <3>4. CASE /\ pos[1] > PROMPT
               /\ pos' = SetPrintPos(pos, pos[1] - 1, CMD_START_H)
               /\ gKIndex' = gKIndex - 1
      <4>1. /\ gKIndex - 1 \in 0 .. BUFF_SIZE
            /\ pos[1] - 1 = 12 + (gKIndex - 1) /\ pos[1] - 1 < 80
        BY <3>1, <3>2, <3>4, LineAssumption DEF PROMPT, SCREEN_WIDTH
      <4>2. pos' = << pos[1] - 1, 9 >>
        BY <3>4, <4>1 DEF SetPrintPos, CMD_START_H, SCREEN_WIDTH, SCREEN_HEIGHT
      <4>3. pos' = << PROMPT + (gKIndex - 1), CMD_START_H >>
        BY <4>1, <4>2 DEF PROMPT, CMD_START_H
      <4> QED
        BY <1>2, <3>4, <4>1, <4>3
    <3> QED
      BY <1>7, <2>3, <3>1, <3>3, <3>4 DEF BSHandler, Cursor
  <2> QED
    BY <2>1, <2>2, <2>3
<1>8. ASSUME gKIndex' = 0, pos' = ResetCmdLine(pos)
      PROVE  LineRight'
  BY <1>1, <1>2, <1>8, PromptPosition
<1>9. ASSUME NewLine PROVE LineRight'
  <2>1. CASE Over
    BY <1>8, <1>9, <2>1 DEF NewLine
  <2>2. CASE ~Over
    <3>1. gKIndex' \in -1 .. BUFF_SIZE /\ pos' = Anywhere /\ shell' = "shared"
      BY <1>1, <1>9, <2>2 DEF NewLine
    <3> QED
      BY <1>4, <3>1
  <2> QED
    BY <2>1, <2>2
<1>10. ASSUME gKIndex = CMD_LENGTH, gKIndex' = gKIndex + 1, shell' = "delay",
              RunDemo1 \/ RunDemo2
       PROVE  LineRight'
  <2>1. UNCHANGED pos /\ gKIndex' \in -1 .. BUFF_SIZE
    BY <1>10, LineAssumption DEF RunDemo1, RunDemo2
  <2> QED
    BY <1>4, <1>10, <2>1
<1>11. CASE EnterHandler
  BY <1>9, <1>10, <1>11, Zenon DEF EnterHandler
<1>12. CASE DoWait \/ Woken
  BY <1>3, <1>8, <1>9, <1>12 DEF DoWait, Woken
<1>13. CASE StrayStore \/ (CreateTask /\ UNCHANGED shellVars) \/ UNCHANGED vars
  BY <1>3, <1>13 DEF StrayStore, CreateTask, shellVars, vars, appVars
<1> QED
  BY <1>5, <1>6, <1>7, <1>11, <1>12, <1>13, Zenon DEF ShellNext, Key, System, Lost

-----------------------------------------------------------------------------
(* Theorems *)

\* While the applications run, one of them at most is in each mutex.
THEOREM AppsExclude == ShellSpec => []Exclusive
<1>1. ReadersInv => Exclusive
  BY DEF ReadersInv, LocksOK, LockInv, Guarded, Exclusive, Exists, IsFree
<1> QED
  BY <1>1, ReadersInit, ReadersStep, PTL DEF ShellSpec

\* Readers count themselves exactly, however many there are, and lock the writer's
\* mutex as long as there are any (demo2.c:21-28, 46-53).
THEOREM ReadersCount == ShellSpec => []ReadersCounted
<1>1. ReadersInv => ReadersCounted
  <2> SUFFICES ASSUME ReadersInv PROVE ReadersCounted
    OBVIOUS
  <2>1. g_count = Cardinality(Reading)
    BY DEF ReadersInv, CountRight
  <2>2. g_count > 0 => Reading # {}
    BY <2>1, FS_EmptySet
  <2>3. Reading # {} => Shut
    BY DEF Reading, Shut, Shutting, Counting
  <2> QED
    BY <2>1, <2>2, <2>3, LockedNotFree DEF ReadersCounted
<1> QED
  BY <1>1, ReadersInit, ReadersStep, PTL DEF ShellSpec

\* g_data does not change while a reader reads it, for any number of readers
\* (demo2.c:30-36, 71, 85).
THEOREM ReadersRead == ShellSpec => ReadersUndisturbed
<1>1. ReadersInv /\ [ShellNext]_vars => [Reading # {} => g_data' = g_data]_demo2Vars
  <2> SUFFICES ASSUME ReadersInv, [ShellNext]_vars, Reading # {}
               PROVE  g_data' = g_data
    OBVIOUS
  <2>1. Shut
    BY DEF Reading, Shut, Shutting, Counting
  <2>2. Exists(g_mutex_write) /\ pc["Writer"] \notin Critical
    BY <2>1 DEF ReadersInv, WriterOut, Locked
  <2>3. ~RunDemo2
    BY <2>2 DEF RunDemo2
  <2>4. ~Write("Writer")
    BY <2>2 DEF Write, Goto, Critical
  <2>5. CASE UNCHANGED demo2Vars
    BY <2>5 DEF demo2Vars
  <2>6. ASSUME NEW c \in Client, Demo2Step(c) \/ Demo2Enter(c)
        PROVE  g_data' = g_data
    BY <2>4, <2>6
       DEF Demo2Step, Demo2Enter, ReaderStep, WriterStep, Deinit2, EnterReader, First, ShutOut,
           CountReader, Counted, Test, Show, UncountReader, LetIn, Uncounted, Title, EnterWriter,
           ExitWriter, demo2Vars
  <2> QED
    BY <2>3, <2>5, <2>6
       DEF ShellNext, Key, System, Lost, Step, EnterStep, Character, StrayStore, BSHandler,
           EnterHandler, DoWait, Woken, vars
<1> QED
  BY <1>1, ReadersInit, ReadersStep, PTL DEF ShellSpec, ReadersUndisturbed

\* No product is lost, made twice or taken twice, whatever the number of products
\* (demo1.c:73-89, 147-157).
THEOREM ShopBalances == ShellSpec => []ProductsCounted
<1> DEFINE ShopInv == ReadersInv /\ ShopLock /\ ShopRight
<1>1. ShellInit => ShopInv
  BY ReadersInit, ShopInit
<1>2. ShopInv /\ [ShellNext]_vars => ShopInv'
  BY ReadersStep, ShopStep, Zenon
<1>3. ShopInv => ProductsCounted
  <2> SUFFICES ASSUME ShopInv, IsFree(g_mutex)
               PROVE  Len(g_store) = g_num - (NUM - g_get) /\ g_num <= NUM
    BY DEF ProductsCounted
  <2>1. ~Made /\ ~Taken
    BY ShopNotFree, ShopNames DEF Made, Taken, InShop
  <2>2. ShopRight /\ NUM \in Nat
    BY ShopNames
  <2> QED
    BY <2>1, <2>2 DEF ShopRight
<1> QED
  BY <1>1, <1>2, <1>3, PTL DEF ShellSpec

\* From the first prompt on, every step keeps the invariant.
LEMMA DemoInvariance == ShellSpec => []DemoInv
<1>1. ShellInit => DemoInv
  <2> SUFFICES ASSUME ShellInit PROVE DemoInv
    OBVIOUS
  <2>1. \A m \in Mutex : ~Exists(m)
    BY DEF ShellInit, AppInit, LockInit, Exists
  <2>2. HeldInside
    BY <2>1, Names DEF HeldInside, Open
  <2> QED
    BY <2>2, ReadersInit, ShopInit, StageInit, LocalsInit, LineInit DEF DemoInv
<1>2. DemoInv /\ [ShellNext]_vars => DemoInv'
  <2> SUFFICES ASSUME DemoInv, [ShellNext]_vars PROVE DemoInv'
    OBVIOUS
  <2>1. ReadersInv' /\ ShopLock' /\ ShopRight'
    BY ReadersStep, ShopStep, Zenon DEF DemoInv
  <2>2. HeldInside' /\ Stage'
    BY HeldStep, StageStep, Zenon DEF DemoInv
  <2>3. WriterRight' /\ LocalsRight' /\ LineRight'
    BY LocalsStep, LineStep, Zenon DEF DemoInv
  <2> QED
    BY <2>1, <2>2, <2>3, Zenon DEF DemoInv
<1> QED
  BY <1>1, <1>2, PTL DEF ShellSpec

\* Everything keeps its type, for any number of readers, products and rounds: no
\* counter of the demonstrations runs off, and the cursor stays on the screen. Only
\* the command line may run out of its buffer, and the model ends with that.
THEOREM AppsTypes == ShellSpec => []AppsTypeOK
<1>1. DemoInv => AppsTypeOK
  <2> SUFFICES ASSUME DemoInv PROVE AppsTypeOK
    OBVIOUS
  <2>1. LockInv /\ toRun \in Seq(AppInfo) /\ pc = [c \in Client |-> pc[c]]
    BY DEF DemoInv, ReadersInv, LocksOK, TasksOK
  <2>2. \A m \in Mutex : Exists(m) =>
          /\ lock[m].type \in {"Normal", "Strict"}
          /\ lock[m].owner \in Client \union {Nobody, Somebody, Gone}
    BY <2>1 DEF LockInv, Guarded, LockType, Exists
  <2>3. \A m \in Mutex : in[m] \subseteq Client
    BY <2>1 DEF LockInv, Guarded
  <2>4. \A i \in DOMAIN toRun : toRun[i] \in AppInfo
    BY <2>1
  <2>5. pc \in [Client -> Place] /\ next \in [Client -> 0 .. ROUNDS]
    BY <2>1 DEF DemoInv, LocalsRight
  <2>6. run \in [Client -> BOOLEAN]
    BY Zenon DEF DemoInv, LocalsRight
  <2>7. pos \in Position \union {Anywhere} /\ gKIndex \in -1 .. BUFF_SIZE
    BY DEF DemoInv, LineRight
  <2>8. /\ \A i \in DOMAIN g_store : g_store[i] \in {"A", "B"}
        /\ g_num \in 0 .. NUM /\ g_get \in 0 .. NUM
    BY DEF DemoInv, ShopRight
  <2>9. /\ g_data \in {0} \union (65 .. 65 + ROUNDS)
        /\ shell \in {"prompt", "delay", "asleep", "shared", "lost"}
    BY DEF DemoInv, WriterRight, Stage
  <2>10. g_count \in 0 .. Cardinality(Reader)
    <3>1. Reading \subseteq Reader /\ IsFiniteSet(Reader)
      BY Names DEF Reading
    <3>2. /\ Cardinality(Reading) \in Nat /\ Cardinality(Reader) \in Nat
          /\ Cardinality(Reading) <= Cardinality(Reader)
      BY <3>1, FS_Subset, FS_CardinalityType
    <3> QED
      BY <3>2 DEF DemoInv, ReadersInv, CountRight
  <2> QED
    BY <2>2, <2>3, <2>4, <2>5, <2>6, <2>7, <2>8, <2>9, <2>10, Zenon DEF AppsTypeOK
<1> QED
  BY <1>1, DemoInvariance, PTL

\* When a Wait that has slept returns, a demonstration has left no task and nothing to
\* be created; and whenever that is so it has left no mutex, wherever the shell is
\* (shell.c:206-211, demo1.c:207-218, demo2.c:100-112).
THEOREM PromptLast == ShellSpec => []PromptAfterDemo
<1>1. DemoInv => PromptAfterDemo
  BY OverIdle DEF DemoInv, Stage, Idle, Over, PromptAfterDemo
<1> QED
  BY <1>1, DemoInvariance, PTL

\* With no demonstration beside, the cursor is behind the line that is typed until the
\* line leaves gKBuf, so Backspace takes from the line what it takes from the screen
\* (shell.c:161-190).
THEOREM CursorBehindLine == ShellSpec => []LineOnScreen
<1>1. DemoInv => LineOnScreen
  BY DEF DemoInv, LineRight
<1> QED
  BY <1>1, DemoInvariance, PTL
=============================================================================
