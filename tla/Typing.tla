-------------------------------- MODULE Typing --------------------------------
(***************************************************************************)
(* The keyboard as a device and the decoder of src/src/keyboard.c that     *)
(* gets its bytes, one per interrupt. The device sends the bytes of one    *)
(* key after those of another; the shift codes that it inserts around some *)
(* grey keys are left out.                                                 *)
(***************************************************************************)
EXTENDS Decoder

CONSTANT Key   \* keys of the keyboard, by the bytes they send when pressed

Pause == \hE1   \* sends PauseCode and nothing when it is released

Plain == Mapped \ {\h5E}   \* codes that a key of their own sends

ASSUME KeyAssumption ==
    Key \subseteq Plain \union {\hE000 + c : c \in Plain} \union {Pause}

VARIABLES
    dec,     \* static variables of the decoder
    line,    \* bytes that the device has still to deliver
    held,    \* keys that are pressed
    down     \* scan codes whose last key code was a press

typingVars == << dec, line, held, down >>

TypingInit ==
    /\ dec = DecoderStart
    /\ line = << >>
    /\ held = {}
    /\ down = {}

ScanOf(k) == IF k >= \hE000 THEN k - \hE000 ELSE k

Sent(k, release) ==
    LET byte == ScanOf(k) + (IF release THEN 128 ELSE 0)
    IN  IF k = Pause THEN PauseCode
        ELSE IF k >= \hE000 THEN << \hE0, byte >> ELSE << byte >>

\* A key that is held down is repeated.
Press(k) ==
    /\ line = << >>
    /\ line' = Sent(k, FALSE)
    /\ held' = IF k = Pause THEN held ELSE held \union {k}
    /\ UNCHANGED << dec, down >>

Release(k) ==
    /\ line = << >> /\ k \in held
    /\ line' = Sent(k, TRUE)
    /\ held' = held \ {k}
    /\ UNCHANGED << dec, down >>

Pressed(d, code) == IF code.press THEN d \union {code.scan} ELSE d \ {code.scan}

AllPressed(d, out) ==
    IF out = << >> THEN d
    ELSE IF Len(out) = 1 THEN Pressed(d, out[1])
    ELSE Pressed(Pressed(d, out[1]), out[2])

\* The interrupt handler passes a byte to PutScanCode, which stores the codes
\* that Codes gives.
Codes == PutScanCode(dec, Head(line)).out

Byte ==
    /\ line # << >>
    /\ dec' = PutScanCode(dec, Head(line)).dec
    /\ down' = AllPressed(down, Codes)
    /\ line' = Tail(line)
    /\ UNCHANGED held

TypingNext == Byte \/ \E k \in Key : Press(k) \/ Release(k)

TypingSpec == TypingInit /\ [][TypingNext]_typingVars

-----------------------------------------------------------------------------
(* Properties *)

\* The variables hold values of their types.
TypingTypeOK == /\ dec \in DecoderState
                /\ held \subseteq Key
                /\ down \subseteq Mapped

\* Between two keys the decoder has forgotten every prefix, so that no key is
\* taken for another, and no byte has made it read beyond its table
\* (keyboard.c:202-232, 364-417).
DecoderAtRest == /\ line = << >> => dec.pause = 0 /\ ~dec.E0
                 /\ dec.inTable

\* No key is stuck: a scan code whose last code was a press is that of a key
\* that is held, and so is shift. (The converse fails when two keys share a
\* scan code, as the two shift keys do as far as cShift is concerned.)
NoStuckKey ==
    line = << >> =>
        /\ down \subseteq {ScanOf(k) : k \in held}
        /\ dec.shift => \E k \in held : ScanOf(k) \in Shifts
=============================================================================
