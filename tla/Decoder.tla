------------------------------- MODULE Decoder --------------------------------
(***************************************************************************)
(* The scan code decoder of src/src/keyboard.c, as operators on the record *)
(* of its static variables. Bytes are numbers; a key code is a record of   *)
(* what the driver packs into 32 bits: pressed or released, the scan code, *)
(* and which column of which table its character is taken from.            *)
(***************************************************************************)
EXTENDS Naturals, Sequences

\* gKeyMap is indexed by the scan code; entries without a scan code of their
\* own belong to no key.
KeyMapSize == \h5F
Mapped     == (1 .. \h54) \union {\h57, \h58} \union (\h5B .. \h5E)

\* The keys whose ascii1 is between 'a' and 'z'.
Letters == (\h10 .. \h19) \union (\h1E .. \h26) \union (\h2C .. \h32)

Shifts   == {\h2A, \h36}
CapsLock == \h3A
NumLock  == \h45

\* cNumScanCode and cNumE0: the keypad, of which two keys have the prefix E0.
NumPad   == {\h37} \union (\h47 .. \h53)
NumPadE0 == {\h1C, \h35}

PauseCode == << \hE1, \h1D, \h45, \hE1, \h9D, \hC5 >>

KeyCode == [press : BOOLEAN, scan : Mapped, pad : BOOLEAN, column : {1, 2}]

\* inTable: no byte has made KeyHandler read beyond gKeyMap.
DecoderState == [pause : 0 .. Len(PauseCode) - 1, E0 : BOOLEAN,
                 shift : BOOLEAN, caps : BOOLEAN, num : BOOLEAN,
                 inTable : BOOLEAN]

DecoderStart == [pause |-> 0, E0 |-> FALSE, shift |-> FALSE, caps |-> FALSE,
                 num |-> FALSE, inTable |-> TRUE]

-----------------------------------------------------------------------------

IsNumPadKey(sc, E0) == IF E0 THEN sc \in NumPadE0 ELSE sc \in NumPad

MakeNormalCode(sc, shift, caps) ==
    IF shift # (caps /\ sc \in Letters) THEN 2 ELSE 1

MakeNumCode(shift, num) == IF num /\ ~shift THEN 1 ELSE 2

MakeCode(d, sc, press) ==
    LET pad == IsNumPadKey(sc, d.E0)
    IN  [press |-> press, scan |-> sc, pad |-> pad,
         column |-> IF pad THEN MakeNumCode(d.shift, d.num)
                           ELSE MakeNormalCode(sc, d.shift, d.caps)]

\* A decoder with the codes it stores.
Decoded(d, out) == [dec |-> d, out |-> out]

\* The prefix would not be forgotten after the key.
KeyHandler_PrefixBug(d, byte) ==
    LET sc    == byte % 128
        press == byte < 128
        now   == [d EXCEPT
                    !.shift = IF sc \in Shifts THEN press ELSE @,
                    !.caps  = IF sc = CapsLock /\ press THEN ~@ ELSE @,
                    !.num   = IF sc = NumLock /\ press THEN ~@ ELSE @]
    IN  IF byte = \hE0
        THEN Decoded([d EXCEPT !.E0 = TRUE], << >>)
        ELSE Decoded(now, << MakeCode(now, sc, press) >>)

\* The release of a shift key would be ignored, as that of a lock key is.
KeyHandler_ShiftBug(d, byte) ==
    LET sc    == byte % 128
        press == byte < 128
        now   == [d EXCEPT
                    !.shift = @ \/ sc \in Shifts,
                    !.caps  = IF sc = CapsLock /\ press THEN ~@ ELSE @,
                    !.num   = IF sc = NumLock /\ press THEN ~@ ELSE @]
    IN  IF byte = \hE0
        THEN Decoded([d EXCEPT !.E0 = TRUE], << >>)
        ELSE Decoded([now EXCEPT !.E0 = FALSE], << MakeCode(now, sc, press) >>)

\* What is read beyond gKeyMap is anything; the decoder then only records it.
KeyHandler(d, byte) ==
    LET sc    == byte % 128
        press == byte < 128
        now   == [d EXCEPT
                    !.shift = IF sc \in Shifts THEN press ELSE @,
                    !.caps  = IF sc = CapsLock /\ press THEN ~@ ELSE @,
                    !.num   = IF sc = NumLock /\ press THEN ~@ ELSE @]
    IN  CASE byte = \hE0 -> Decoded([d EXCEPT !.E0 = TRUE], << >>)
          [] byte # \hE0 /\ sc \in Mapped ->
               Decoded([now EXCEPT !.E0 = FALSE], << MakeCode(now, sc, press) >>)
          [] byte # \hE0 /\ sc \notin Mapped ->
               Decoded([d EXCEPT !.inTable = @ /\ sc < KeyMapSize], << >>)

\* PauseHandler accepts the byte: it continues the six bytes of Pause.
InPause(d, byte) ==
    (byte = \hE1 \/ d.pause # 0) /\ byte = PauseCode[d.pause + 1]

\* The last byte of Pause is replaced by a press and a release of key 5E; a
\* byte that PauseHandler does not accept ends the sequence it may have begun.
PutScanCode(d, byte) ==
    IF ~InPause(d, byte)
    THEN KeyHandler([d EXCEPT !.pause = 0], byte)
    ELSE IF d.pause + 1 < Len(PauseCode)
         THEN Decoded([d EXCEPT !.pause = @ + 1], << >>)
         ELSE LET down == KeyHandler([d EXCEPT !.pause = 0], \h5E)
                  up   == KeyHandler(down.dec, \hDE)
              IN  Decoded(up.dec, down.out \o up.out)
=============================================================================
