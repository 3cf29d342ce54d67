-------------------------------- MODULE Screen --------------------------------
(***************************************************************************)
(* The cursor of the text screen: src/src/screen.c. The applications are   *)
(* linked together with one copy of it, so the shell and all demonstration *)
(* tasks share one position, gPosW and gPosH, which no lock guards. The    *)
(* kernel has a copy of its own, which is not modelled; nor is what the    *)
(* cells contain.                                                          *)
(***************************************************************************)
EXTENDS Integers

SCREEN_WIDTH  == 80
SCREEN_HEIGHT == 25

\* Where the position is when two tasks have moved it at the same time: their
\* reads and writes of the two bytes may have mixed in any way.
Anywhere == << SCREEN_WIDTH, SCREEN_HEIGHT >>

Position == (0 .. SCREEN_WIDTH - 1) \X (0 .. SCREEN_HEIGHT - 1)

\* A position outside the screen is ignored.
SetPrintPos(p, w, h) ==
    IF w < SCREEN_WIDTH /\ h < SCREEN_HEIGHT THEN << w, h >> ELSE p

\* n characters without line feed, one PrintChar after the other: the line is
\* wrapped, and the position stays in the last cell of the screen.
PrintString(p, n) ==
    LET cell == p[2] * SCREEN_WIDTH + p[1] + n
        last == SCREEN_HEIGHT * SCREEN_WIDTH - 1
        to   == IF cell > last THEN last ELSE cell
    IN IF p = Anywhere THEN p
       ELSE << to % SCREEN_WIDTH, to \div SCREEN_WIDTH >>

PrintChar(p) == PrintString(p, 1)
=============================================================================
