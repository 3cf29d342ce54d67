------------------------------ MODULE Keyboard --------------------------------
(***************************************************************************)
(* The keyboard: the interrupt handler, the key buffer and the tasks that  *)
(* wait in ReadKey (src/src/keyboard.c, ihandler.c), on the scheduler. An  *)
(* interrupt handles one byte, between any two steps of tasks.             *)
(***************************************************************************)
EXTENDS Task, Typing, KeyBuffer

CONSTANT gKeyWait   \* the queue of the tasks that wait for a key

\* A key code has the scan code of a key in it, so it is not 0.
ASSUME KeyWaitAssumption == gKeyWait \in ObjectQ /\ NoKey \notin KeyCode

VARIABLES
    buff,    \* gKCBuff
    got      \* the key code that the last handler wrote into the variable of
             \* ReadKey, per TCB

keyboardVars == << taskVars, typingVars, buff, got >>

KeyboardModInit ==
    /\ TaskInit
    /\ TypingInit
    /\ buff = EmptyBuffer
    /\ got = [t \in Node |-> NoKey]

Waiting == Members(kern.queue[gKeyWait])

\* The waiters would be woken without a key.
NotifyAll_Bug(kc) ==
    /\ kern' = WaittingToReady(kern, gKeyWait)
    /\ UNCHANGED got

\* Every waiter gets the code and becomes ready.
NotifyAll(kc) ==
    /\ kern' = WaittingToReady(kern, gKeyWait)
    /\ got' = [t \in Node |-> IF t \in Waiting THEN kc ELSE NoKey]

\* Storing the codes of one byte: none, one, or the two of Pause.
StoreAll(b, out) ==
    IF out = << >> THEN b
    ELSE IF Len(out) = 1 THEN StoreKeyCode(b, out[1])
    ELSE StoreKeyCode(StoreKeyCode(b, out[1]), out[2])

\* A byte that gives no code would not take one out of the buffer.
KeyboardHandler_Bug ==
    /\ Byte
    /\ LET b == StoreAll(buff, Codes)
       IN  IF Codes = << >>
           THEN UNCHANGED << kern, buff, got >>
           ELSE /\ buff' = FetchKeyCode(b)
                /\ NotifyAll(Fetched(b))
    /\ UNCHANGED << tick, lost >>

\* PutScanCode and NotifyKeyCode: a code is fetched also when nobody waits.
KeyboardHandler ==
    /\ Byte
    /\ LET b == StoreAll(buff, Codes)
       IN  /\ buff' = FetchKeyCode(b)
           /\ IF Fetched(b) # NoKey
              THEN NotifyAll(Fetched(b))
              ELSE UNCHANGED << kern, got >>
    /\ UNCHANGED << tick, lost >>

\* A reader would wait without looking into the buffer.
ReadKey_Bug ==
    /\ UserMode
    /\ kern' = IF kern.heap = 0 THEN kern ELSE WaitEvent(kern, gKeyWait)
    /\ got' = [t \in Node |-> NoKey]
    /\ UNCHANGED << tick, lost, typingVars, buff >>

\* KeyCallHandler. Without memory for the event, EventSchedule reads the type
\* of an event at address 0, the first interrupt vector of the BIOS, which is
\* none of its cases: ReadKey returns 0.
ReadKey ==
    /\ UserMode
    /\ buff' = FetchKeyCode(buff)
    /\ IF Fetched(buff) # NoKey
       THEN /\ kern' = WaittingToReady(kern, gKeyWait)
            /\ got' = [t \in Node |-> IF t \in Waiting \union {kern.cur}
                                      THEN Fetched(buff) ELSE NoKey]
       ELSE /\ kern' = IF kern.heap = 0 THEN kern ELSE WaitEvent(kern, gKeyWait)
            /\ got' = [t \in Node |-> NoKey]
    /\ UNCHANGED << tick, lost, typingVars >>

KeyboardNext ==
    \/ /\ \E k \in Key : Press(k) \/ Release(k)
       /\ UNCHANGED << taskVars, buff, got >>
    \/ KeyboardHandler
    \/ ReadKey
    \/ /\ \/ TimerHandler \/ Exit \/ TaskEntryEnd \/ Fault
          \/ \E name \in Name \union {IdleName} : Wait(name)
          \/ \E name \in Name, pri \in Priority : RegApp(name, pri)
       /\ UNCHANGED << typingVars, buff, got >>

KeyboardSpec == KeyboardModInit /\ [][KeyboardNext]_keyboardVars

-----------------------------------------------------------------------------
(* Properties *)

\* The variables hold values of their types.
KeyboardTypeOK == /\ TaskTypeOK
                  /\ TypingTypeOK
                  /\ buff \in Buffers(KeyCode)
                  /\ got \in [Node -> KeyCode \union {NoKey}]

\* No reader sleeps beside a key code: the buffer is empty while tasks wait,
\* although Pause stores two codes in one interrupt and the handler takes out
\* only one (keyboard.c:449-480).
NoReaderBesideCode == kern.queue[gKeyWait] # << >> => buff.count = 0

\* A reader that is woken has been given a key code: ReadKey returns 0 only to
\* a task that could not wait (keyboard.c:359-377, task.c:359-383).
WokenWithCode ==
    [][\A t \in TaskNode : t \in Waiting \ Members(kern'.queue[gKeyWait])
          => got'[t] # NoKey]_keyboardVars

\* No key code is lost because the buffer of two is full: whatever an interrupt
\* stores fits, since every byte, also one that gives no code, takes a code out
\* (keyboard.c:154-172, 226-227, 449-457).
NothingOverwritten == line # << >> => buff.count + Len(Codes) <= KeyMax
=============================================================================
