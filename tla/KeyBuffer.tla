------------------------------ MODULE KeyBuffer -------------------------------
(***************************************************************************)
(* The buffer gKCBuff of src/src/keyboard.c: a ring of at most max codes   *)
(* in an array of KB_BUFF_SIZE, that forgets the oldest code when it is    *)
(* full.                                                                   *)
(***************************************************************************)
EXTENDS Naturals, Sequences

CONSTANTS
    KB_BUFF_SIZE,  \* size of the array
    KeyMax,        \* gKCBuff.max, set by KeyboardModInit
    NoKey          \* 0: no code

ASSUME BufferAssumption ==
    /\ KB_BUFF_SIZE \in Nat /\ KeyMax \in Nat \ {0}
    /\ KeyMax <= KB_BUFF_SIZE

Slot == 0 .. KB_BUFF_SIZE - 1

Buffers(Code) == [head : Slot, tail : Slot, count : 0 .. KeyMax,
                  buff : [Slot -> Code \union {NoKey}]]

EmptyBuffer == [head |-> 0, tail |-> 0, count |-> 0,
                buff |-> [i \in Slot |-> NoKey]]

\* The code FetchKeyCode returns, and the buffer it leaves.
Fetched(b) == IF b.count > 0 THEN b.buff[b.head] ELSE NoKey

\* The head would run out of the ring.
FetchKeyCode_Bug(b) ==
    IF b.count > 0 THEN [b EXCEPT !.head = @ + 1, !.count = @ - 1] ELSE b

FetchKeyCode(b) ==
    IF b.count > 0
    THEN [b EXCEPT !.head = (@ + 1) % KeyMax, !.count = @ - 1]
    ELSE b

Put(b, kc) == [b EXCEPT !.buff[b.tail] = kc,
                        !.tail = (@ + 1) % KeyMax, !.count = @ + 1]

\* The recursive call finds room.
StoreKeyCode(b, kc) ==
    IF b.count < KeyMax THEN Put(b, kc) ELSE Put(FetchKeyCode(b), kc)
=============================================================================
