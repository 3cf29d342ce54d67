-------------------------------- MODULE Demo2 ---------------------------------
(***************************************************************************)
(* Readers and a writer: src/src/demo2.c. The first reader locks the       *)
(* writer's mutex and the last one unlocks it; readers count themselves    *)
(* under a mutex of their own. Where they print (g_rnext, g_rcol) is not   *)
(* modelled; nothing guards the cursor while several readers print.        *)
(***************************************************************************)
EXTENDS Apps, FiniteSets

CONSTANTS
    Reader,         \* the tasks that run Reader (three)
    ROUNDS,         \* NUM of demo2.c (50): how often the writer writes
    g_mutex_write,  \* normal, by the variable that holds the address
    g_mutex_read    \* strict

ASSUME Demo2Assumption ==
    /\ Reader \subseteq Client \ {"Writer", "Deinit"} /\ IsFiniteSet(Reader)
    /\ ROUNDS \in Nat
    /\ {g_mutex_write, g_mutex_read} \subseteq Mutex
    /\ g_mutex_write # g_mutex_read

VARIABLES
    g_data,   \* what is written: 'A', 'B', ... and 0 at the end
    g_count   \* the number of readers

demo2Vars == << g_data, g_count >>

Demo2Task == Reader \union {"Writer"}

Demo2Init == g_data = 65 /\ g_count = 0

\* ReaderA, ReaderB, ReaderC.
Readers == CHOOSE s \in [1 .. Cardinality(Reader) -> Reader] :
               \A r \in Reader : \E i \in DOMAIN s : s[i] = r

\* Initialize creates both mutexes.
RunDemo2 ==
    /\ ~Exists(g_mutex_write) /\ ~Exists(g_mutex_read)
    /\ lock' = [lock EXCEPT
                  ![g_mutex_write] = [type |-> "Normal", owner |-> Nobody],
                  ![g_mutex_read]  = [type |-> "Strict", owner |-> Nobody]]
    /\ in' = [in EXCEPT ![g_mutex_write] = {}, ![g_mutex_read] = {}]
    /\ g_data' = 65 /\ g_count' = 0
    /\ RegApps(<< [name |-> "Writer", main |-> "title"] >> \o
               [i \in DOMAIN Readers |-> [name |-> Readers[i], main |-> "read"]] \o
               << [name |-> "Deinit", main |-> "wait2"] >>)
    /\ UNCHANGED << starved, taskVars, pos >>

-----------------------------------------------------------------------------
(* Reader *)

EnterReader(r) ==
    /\ \/ Entering(r, g_mutex_read, "read", "first")
       \/ Entering(r, g_mutex_read, "reread", "uncount")
    /\ UNCHANGED << starved, toRun, pos, demo2Vars >>

\* The first reader would not lock the writer out.
First_Bug(r) ==
    /\ Goto(r, "first", "count")
    /\ UNCHANGED << lockVars, starved, toRun, next, run, pos, demo2Vars >>

First(r) ==
    /\ Goto(r, "first", IF g_count = 0 THEN "shut" ELSE "count")
    /\ UNCHANGED << lockVars, starved, toRun, next, run, pos, demo2Vars >>

ShutOut(r) ==
    /\ Entering(r, g_mutex_write, "shut", "count")
    /\ UNCHANGED << starved, toRun, pos, demo2Vars >>

CountReader(r) ==
    /\ Goto(r, "count", "counted")
    /\ g_count' = g_count + 1
    /\ UNCHANGED << lockVars, starved, toRun, next, run, pos, g_data >>

Counted(r) ==
    /\ Exiting(r, g_mutex_read, "counted", "test")
    /\ UNCHANGED << starved, toRun, next, run, pos, demo2Vars >>

\* The reader would go on when there is nothing left to read.
Test_Bug(r) ==
    /\ Goto(r, "test", IF g_data # 0 THEN "show" ELSE "reread")
    /\ UNCHANGED << lockVars, starved, toRun, next, run, pos, demo2Vars >>

Test(r) ==
    /\ Goto(r, "test", IF g_data # 0 THEN "show" ELSE "reread")
    /\ run' = [run EXCEPT ![r] = g_data # 0]
    /\ UNCHANGED << lockVars, starved, toRun, next, pos, demo2Vars >>

Show(r) ==
    /\ Goto(r, "show", "reread")
    /\ pos' = Anywhere
    /\ UNCHANGED << lockVars, starved, toRun, next, run, demo2Vars >>

\* The reader would not look whether others still read.
UncountReader_Bug(r) ==
    /\ Goto(r, "uncount", "letin")
    /\ g_count' = g_count - 1
    /\ UNCHANGED << lockVars, starved, toRun, next, run, pos, g_data >>

UncountReader(r) ==
    /\ Goto(r, "uncount", IF g_count = 1 THEN "letin" ELSE "uncounted")
    /\ g_count' = g_count - 1
    /\ UNCHANGED << lockVars, starved, toRun, next, run, pos, g_data >>

\* The last reader unlocks what the first one has locked.
LetIn(r) ==
    /\ Exiting(r, g_mutex_write, "letin", "uncounted")
    /\ UNCHANGED << starved, toRun, next, run, pos, demo2Vars >>

Uncounted(r) ==
    /\ Exiting(r, g_mutex_read, "uncounted", IF run[r] THEN "read" ELSE "end")
    /\ UNCHANGED << starved, toRun, next, run, pos, demo2Vars >>

-----------------------------------------------------------------------------
(* Writer and Deinit *)

Title(w) ==
    /\ Goto(w, "title", "open")
    /\ pos' = Anywhere
    /\ UNCHANGED << lockVars, starved, toRun, next, run, demo2Vars >>

\* The writer would write once more.
EnterWriter_Bug(w) ==
    /\ Entering(w, g_mutex_write, "open", IF next[w] <= ROUNDS THEN "write" ELSE "clear")
    /\ UNCHANGED << starved, toRun, pos, demo2Vars >>

EnterWriter(w) ==
    /\ Entering(w, g_mutex_write, "open", IF next[w] < ROUNDS THEN "write" ELSE "clear")
    /\ UNCHANGED << starved, toRun, pos, demo2Vars >>

\* g_data is changed, and printed unless it is the last time.
Write(w) ==
    \/ /\ Goto(w, "write", "close")
       /\ g_data' = g_data + 1
       /\ pos' = Anywhere
       /\ UNCHANGED << lockVars, starved, toRun, next, run, g_count >>
    \/ /\ Goto(w, "clear", "cleared")
       /\ g_data' = 0
       /\ UNCHANGED << lockVars, starved, toRun, next, run, pos, g_count >>

ExitWriter(w) ==
    /\ \/ /\ Exiting(w, g_mutex_write, "close", "open")
          /\ next' = [next EXCEPT ![w] = @ + 1]
       \/ /\ Exiting(w, g_mutex_write, "cleared", "end")
          /\ UNCHANGED next
    /\ UNCHANGED << starved, toRun, run, pos, demo2Vars >>

Deinit2(c) ==
    \/ /\ Goto(c, "wait2", "deinit2")
       /\ Waiting(Demo2Task)
       /\ pos' = PrintString(SetPrintPos(pos, 0, 20), 6)
       /\ UNCHANGED << lockVars, starved, toRun, next, run, demo2Vars >>
    \/ /\ Goto(c, "deinit2", "deinit3")
       /\ DestroyMutex(g_mutex_write)
       /\ UNCHANGED << starved, toRun, next, run, pos, demo2Vars >>
    \/ /\ Goto(c, "deinit3", "end")
       /\ DestroyMutex(g_mutex_read)
       /\ UNCHANGED << starved, toRun, next, run, pos, demo2Vars >>

ReaderStep(r) ==
    \/ First(r) \/ CountReader(r) \/ Counted(r) \/ Test(r) \/ Show(r)
    \/ UncountReader(r) \/ LetIn(r) \/ Uncounted(r)

WriterStep(w) == Title(w) \/ Write(w) \/ ExitWriter(w)

Demo2Step(c) ==
    \/ c \in Reader /\ ReaderStep(c)
    \/ c = "Writer" /\ WriterStep(c)
    \/ c = "Deinit" /\ Deinit2(c)

Demo2Enter(c) ==
    \/ c \in Reader /\ (EnterReader(c) \/ ShutOut(c))
    \/ c = "Writer" /\ EnterWriter(c)

-----------------------------------------------------------------------------
(* Properties *)

\* The readers that have counted themselves.
Reading == {r \in Reader : pc[r] \in {"counted", "test", "show", "reread", "uncount"}}

\* g_data never changes while a reader has counted itself and reads it, once to
\* test and again to print it, although the reader may hold no mutex at all then:
\* a reader that came before holds the writer's, and that one may have gone
\* (demo2.c:30-36, 71, 85).
ReadersUndisturbed == [][Reading # {} => g_data' = g_data]_demo2Vars

\* Readers count themselves exactly: when their mutex is free, g_count is their
\* number, and the writer's mutex is locked if there are any (demo2.c:21-28, 46-53).
ReadersCounted ==
    IsFree(g_mutex_read) =>
        /\ g_count = Cardinality(Reading)
        /\ Exists(g_mutex_write) /\ g_count > 0 => ~IsFree(g_mutex_write)
=============================================================================
