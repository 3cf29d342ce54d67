SPECIFICATION TypingSpec
\* A, left Shift, right Shift, Caps Lock, Num Lock, keypad 7, Home, keypad /,
\* Pause
CONSTANTS
    Key = {30, 42, 54, 58, 69, 71, 57415, 57397, 225}
INVARIANTS
    DecoderAtRest
    NoStuckKey
