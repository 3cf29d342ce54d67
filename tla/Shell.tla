-------------------------------- MODULE Shell ---------------------------------
(***************************************************************************)
(* The shell (src/src/shell.c) and the demonstrations it starts. The       *)
(* characters of the command line are not modelled, only how many there    *)
(* are: a line as long as a command can be that command.                   *)
(***************************************************************************)
EXTENDS Demo1, Demo2

ASSUME ShellAssumption ==
    /\ Demo1Task \union {"Writer", "Deinit"} \subseteq Client
    /\ Reader \intersect Demo1Task = {}
    /\ g_mutex \notin {g_mutex_write, g_mutex_read}

CONSTANTS
    BUFF_SIZE,  \* the length of gKBuf (64)
    CMD_LENGTH  \* the length of a command that starts a demonstration (5)

PROMPT    == 12   \* the length of the prompt
CMD_START_W == 0
CMD_START_H == 9

\* A command and its 0 fit into gKBuf, and gKBuf into the rest of the line.
ASSUME LineAssumption ==
    /\ CMD_LENGTH \in Nat /\ BUFF_SIZE \in Nat
    /\ CMD_LENGTH < BUFF_SIZE
    /\ PROMPT + BUFF_SIZE < SCREEN_WIDTH

VARIABLES
    shell,   \* "prompt": it waits for a key, "delay", "asleep": it is in DoWait
    gKIndex  \* how many characters are in gKBuf; -1 stands for every number below 0

\* Two more values of shell: "shared" is like "prompt", but a demonstration was
\* there when the prompt was printed, and prints as the user types. In "lost" the
\* shell has written outside of gKBuf: what a build does then depends on what it
\* has put there, and nothing is said of it.

shellVars == << shell, gKIndex >>
vars == << appVars, demo1Vars, demo2Vars, shellVars >>

\* The shell has printed its prompt and waits for the first key.
ShellInit ==
    /\ AppInit /\ Demo1Init /\ Demo2Init
    /\ shell = "prompt" /\ gKIndex = 0
    /\ pos = << PROMPT, CMD_START_H >>

AtPrompt == shell \in {"prompt", "shared"}

\* gKBuf[gKIndex] is in the array. Nothing in the code looks.
InLine == gKIndex \in 0 .. BUFF_SIZE - 1

\* Of the demonstration started last no task is there or registered.
Over == toRun = << >> /\ \A c \in Client : Absence(c)

\* The cursor when the shell has moved it to p, perhaps not alone.
Cursor(p) == IF shell = "shared" THEN Anywhere ELSE p

\* The prompt would be printed where the cursor is.
ResetCmdLine_Bug(p) == PrintString(p, PROMPT)

\* The position when ResetCmdLine returns.
ResetCmdLine(p) == PrintString(SetPrintPos(p, CMD_START_W, CMD_START_H), PROMPT)

\* The shell prints its prompt, if need be into what a demonstration prints.
NewLine ==
    /\ gKIndex' = 0
    /\ IF Over THEN shell' = "prompt" /\ pos' = ResetCmdLine(pos)
               ELSE shell' = "shared" /\ pos' = Anywhere

-----------------------------------------------------------------------------

\* A printable character.
Character ==
    /\ AtPrompt /\ InLine
    /\ gKIndex' = gKIndex + 1
    /\ pos' = Cursor(PrintChar(pos))
    /\ UNCHANGED << lockVars, starved, toRun, taskVars, demo1Vars, demo2Vars, shell >>

\* A printable character, or the 0 that ends the line, is stored where gKBuf is
\* not: behind it when the line is too long, or before it when Backspace has gone
\* by a cursor that demonstrations have moved.
StrayStore ==
    /\ AtPrompt /\ ~InLine
    /\ shell' = "lost"
    /\ UNCHANGED << appVars, demo1Vars, demo2Vars, gKIndex >>

\* Backspace: where the line begins is seen from the cursor, not from gKIndex.
BSHandler ==
    /\ AtPrompt
    /\ \/ /\ pos[1] > PROMPT
          /\ pos' = Cursor(SetPrintPos(pos, pos[1] - 1, CMD_START_H))
          /\ gKIndex' = IF gKIndex < 0 THEN gKIndex ELSE gKIndex - 1
       \/ /\ pos[1] <= PROMPT \/ pos = Anywhere
          /\ UNCHANGED << pos, gKIndex >>
    /\ UNCHANGED << lockVars, starved, toRun, taskVars, demo1Vars, demo2Vars, shell >>

\* Enter: a command that starts no demonstration (mem, clear), none at all
\* (Unknown), or one of the demonstrations, which DoWait waits for. The user is
\* assumed to start none before the last is over.
EnterHandler ==
    /\ AtPrompt /\ InLine
    /\ \/ /\ NewLine
          /\ UNCHANGED << lockVars, starved, toRun, taskVars, demo1Vars, demo2Vars >>
       \/ /\ gKIndex = CMD_LENGTH /\ Over
          /\ gKIndex' = gKIndex + 1
          /\ shell' = "delay"
          /\ \/ RunDemo1 /\ UNCHANGED demo2Vars
             \/ RunDemo2 /\ UNCHANGED demo1Vars

\* Delay(5) counts to five million: the reschedule that creates the tasks may come
\* before that or after. Wait("Deinit") returns at once when there is no such task.
DoWait ==
    /\ shell = "delay"
    /\ IF Absence("Deinit") THEN NewLine
       ELSE shell' = "asleep" /\ UNCHANGED << gKIndex, pos >>
    /\ UNCHANGED << lockVars, starved, toRun, taskVars, demo1Vars, demo2Vars >>

\* Wait("Deinit") returns because that task has ended.
Woken ==
    /\ shell = "asleep"
    /\ Absence("Deinit")
    /\ shell' = "prompt"
    /\ gKIndex' = 0
    /\ pos' = ResetCmdLine(pos)
    /\ UNCHANGED << lockVars, starved, toRun, taskVars, demo1Vars, demo2Vars >>

-----------------------------------------------------------------------------

Key == Character \/ StrayStore \/ BSHandler \/ EnterHandler

System ==
    /\ shell # "lost"
    /\ \/ CreateTask /\ UNCHANGED << demo1Vars, demo2Vars, shellVars >>
       \/ DoWait
       \/ Woken

\* What a task does without waiting, and entering a mutex, which may be taken.
Step(c) ==
    /\ shell # "lost" /\ ~Absence(c)
    /\ \/ Demo1Step(c) /\ UNCHANGED << demo2Vars, shellVars >>
       \/ Demo2Step(c) /\ UNCHANGED << demo1Vars, shellVars >>
       \/ End(c) /\ UNCHANGED << demo1Vars, demo2Vars, shellVars >>

EnterStep(c) ==
    /\ shell # "lost" /\ ~Absence(c)
    /\ \/ Demo1Enter(c) /\ UNCHANGED << demo2Vars, shellVars >>
       \/ Demo2Enter(c) /\ UNCHANGED << demo1Vars, shellVars >>

\* The model ends here.
Lost == shell = "lost" /\ UNCHANGED vars

ShellNext ==
    \/ Key \/ System \/ Lost
    \/ \E c \in Client : Step(c) \/ EnterStep(c)

ShellSpec == ShellInit /\ [][ShellNext]_vars

\* Every task runs again and again. A producer or consumer that enters the mutex
\* is woken at every exit, and whoever leaves it is in Delay, outside of the
\* critical section, for longer than its time slice: one day the task finds the
\* mutex free. Readers and the writer need no such luck for what is claimed.
Fairness ==
    /\ WF_vars(System)
    /\ \A c \in Client : WF_vars(Step(c) \/ EnterStep(c))
    /\ \A c \in Demo1Task : SF_vars(EnterStep(c))

FairShellSpec == ShellSpec /\ Fairness

-----------------------------------------------------------------------------
(* Properties *)

\* Where tasks begin, and all places they come to.
Begin == {"name", "wait1", "title", "read", "wait2"}

Place ==
    {"absent", "end"} \union Begin
    \union {"enter", "check", "count", "take", "leave", "deinit1"}
    \union {"first", "shut", "counted", "test", "show", "reread", "uncount", "letin",
            "uncounted", "open", "write", "close", "clear", "cleared", "deinit2", "deinit3"}

AppInfo == [name : Client, main : Begin]

AppsTypeOK ==
    /\ \A m \in Mutex : Exists(m) =>
         /\ lock[m].type \in {"Normal", "Strict"}
         /\ lock[m].owner \in Client \union {Nobody, Somebody, Gone}
    /\ \A m \in Mutex : in[m] \subseteq Client
    /\ \A i \in DOMAIN toRun : toRun[i] \in AppInfo
    /\ pc \in [Client -> Place]
    /\ next \in [Client -> 0 .. ROUNDS]
    /\ run \in [Client -> BOOLEAN]
    /\ pos \in Position \union {Anywhere}
    /\ \A i \in DOMAIN g_store : g_store[i] \in {"A", "B"}
    /\ g_num \in 0 .. NUM /\ g_get \in 0 .. NUM
    /\ g_data \in {0} \union (65 .. 65 + ROUNDS)
    /\ g_count \in 0 .. Cardinality(Reader)
    /\ shell \in {"prompt", "delay", "asleep", "shared", "lost"}
    /\ gKIndex \in -1 .. BUFF_SIZE

\* A Wait that has found Deinit, and slept, returns when all of the demonstration
\* is gone. Nothing keeps a mutex then, now or after an early prompt: none was
\* locked when it was to be destroyed (shell.c:206-211, demo1.c:207-218,
\* demo2.c:100-112).
PromptAfterDemo ==
    /\ shell = "prompt" => Over
    /\ Over => \A m \in Mutex : ~Exists(m)

\* While a line is typed with no demonstration beside, the cursor is behind its last
\* character, wherever the demonstrations before have left it: what Backspace takes
\* from the screen it takes from gKBuf, never more than was typed. A line that has
\* filled gKBuf has not reached the end of the screen's (shell.c:161-190).
LineOnScreen ==
    shell = "prompt" => gKIndex >= 0 /\ pos = << PROMPT + gKIndex, CMD_START_H >>

\* A started demonstration of producers and consumers comes to its end with the
\* shell at a prompt, although a consumer finds products of its own kind only and
\* goes on looking until all products are taken (demo1.c:111-164, shell.c:213-217).
Demo1Ends == Exists(g_mutex) ~> (AtPrompt /\ Over) \/ shell = "lost"

\* Once the writer has written 0 all readers see it and end, and the shell comes to a
\* prompt. That the writer gets that far is not claimed: readers that overlap lock
\* it out (demo2.c:30, 56, 85).
Demo2Ends == g_data = 0 ~> (AtPrompt /\ Over) \/ shell = "lost"
=============================================================================
