-------------------------------- MODULE Demo1 ---------------------------------
(***************************************************************************)
(* Producers and consumers: src/src/demo1.c. Two producers put products of *)
(* two kinds into a store, two consumers take one kind each; everything    *)
(* they share is guarded by one strict mutex, except for the cursor when a *)
(* task prints its name. The columns they print to are not modelled.       *)
(***************************************************************************)
EXTENDS Apps

CONSTANTS
    NUM,      \* number of products (60)
    g_mutex   \* the mutex, by the variable that holds its address

ASSUME Demo1Assumption == NUM \in Nat \ {0} /\ g_mutex \in Mutex

VARIABLES
    g_store,  \* the products in store, each given by its kind
    g_num,    \* how many products have been made
    g_get     \* how many products are still to be taken

demo1Vars == << g_store, g_num, g_get >>

Producer == {"PA", "PB"}
Consumer == {"CA", "CB"}
Demo1Task == Producer \union Consumer

KindOf(c) == IF c \in {"PA", "CA"} THEN "A" ELSE "B"

Demo1Init == g_store = << >> /\ g_num = 0 /\ g_get = NUM

\* The shell calls Initialize and RegApp five times.
RunDemo1 ==
    /\ Create(g_mutex, "Strict")
    /\ g_store' = << >> /\ g_num' = 0 /\ g_get' = NUM
    /\ RegApps([i \in 1 .. 4 |-> [name |-> << "PA", "PB", "CA", "CB" >>[i],
                                  main |-> "name"]] \o
               << [name |-> "Deinit", main |-> "wait1"] >>)
    /\ UNCHANGED << starved, taskVars, pos >>

-----------------------------------------------------------------------------

\* A task prints its name outside of the critical section.
Name(c) ==
    /\ Goto(c, "name", "enter")
    /\ pos' = Anywhere
    /\ UNCHANGED << lockVars, starved, toRun, next, run, demo1Vars >>

EnterShop(c) ==
    /\ Entering(c, g_mutex, "enter", "check")
    /\ UNCHANGED << starved, toRun, pos, demo1Vars >>

\* The last product would be made once more.
Produce_Bug(c) ==
    /\ Goto(c, "check", IF g_num <= NUM THEN "count" ELSE "leave")
    /\ run' = [run EXCEPT ![c] = g_num <= NUM]
    /\ g_store' = IF g_num <= NUM THEN Append(g_store, KindOf(c)) ELSE g_store
    /\ UNCHANGED << lockVars, starved, toRun, next, pos, g_num, g_get >>

\* A producer that sees the last product made ends, otherwise it stores one.
Produce(c) ==
    /\ Goto(c, "check", IF g_num < NUM THEN "count" ELSE "leave")
    /\ run' = [run EXCEPT ![c] = g_num < NUM]
    /\ g_store' = IF g_num < NUM THEN Append(g_store, KindOf(c)) ELSE g_store
    /\ UNCHANGED << lockVars, starved, toRun, next, pos, g_num, g_get >>

\* Where the product is printed depends on the tasks that print their names.
Count(c) ==
    /\ Goto(c, "count", "leave")
    /\ g_num' = g_num + 1
    /\ pos' = Anywhere
    /\ UNCHANGED << lockVars, starved, toRun, next, run, g_store, g_get >>

\* Fetch: the oldest product of the consumer's kind, if there is one.
Consume(c) ==
    LET own == {i \in DOMAIN g_store : g_store[i] = KindOf(c)}
        got == g_get > 0 /\ own # {}
    IN /\ Goto(c, "check", IF got THEN "take" ELSE "leave")
       /\ run' = [run EXCEPT ![c] = g_get > 0]
       /\ IF got
          THEN \E i \in own : /\ \A j \in own : i <= j
                              /\ g_store' = SubSeq(g_store, 1, i - 1) \o
                                            SubSeq(g_store, i + 1, Len(g_store))
          ELSE UNCHANGED g_store
       /\ UNCHANGED << lockVars, starved, toRun, next, pos, g_num, g_get >>

\* A consumer would count down only when it takes the last product in store.
Take_Bug(c) ==
    /\ Goto(c, "take", "leave")
    /\ g_get' = IF g_store = << >> THEN g_get - 1 ELSE g_get
    /\ pos' = Anywhere
    /\ UNCHANGED << lockVars, starved, toRun, next, run, g_store, g_num >>

Take(c) ==
    /\ Goto(c, "take", "leave")
    /\ g_get' = g_get - 1
    /\ pos' = Anywhere
    /\ UNCHANGED << lockVars, starved, toRun, next, run, g_store, g_num >>

\* Delay changes nothing.
LeaveShop(c) ==
    /\ Exiting(c, g_mutex, "leave", IF run[c] THEN "enter" ELSE "end")
    /\ UNCHANGED << starved, toRun, next, run, pos, demo1Vars >>

Deinit1(c) ==
    \/ /\ Goto(c, "wait1", "deinit1")
       /\ Waiting(Demo1Task)
       /\ pos' = PrintString(SetPrintPos(pos, 0, 20), 6)
       /\ UNCHANGED << lockVars, starved, toRun, next, run, demo1Vars >>
    \/ /\ Goto(c, "deinit1", "end")
       /\ DestroyMutex(g_mutex)
       /\ UNCHANGED << starved, toRun, next, run, pos, demo1Vars >>

Demo1Step(c) ==
    \/ c \in Demo1Task /\ (Name(c) \/ LeaveShop(c))
    \/ c \in Producer /\ (Produce(c) \/ Count(c))
    \/ c \in Consumer /\ (Consume(c) \/ Take(c))
    \/ c = "Deinit" /\ Deinit1(c)

Demo1Enter(c) == c \in Demo1Task /\ EnterShop(c)

-----------------------------------------------------------------------------
(* Properties *)

\* No product is lost, made twice or taken twice: whenever nobody is at work in
\* the shop, what was made and not yet taken is in store, and producers that both
\* look at g_num do not make one product too many (demo1.c:73-89, 147-157).
ProductsCounted ==
    IsFree(g_mutex) => Len(g_store) = g_num - (NUM - g_get) /\ g_num <= NUM
=============================================================================
