--------------------------------- MODULE Files --------------------------------
(***************************************************************************)
(* What the file system promises: files are sequences of bytes, an open    *)
(* file has a position. Nothing is said of sectors, entries and buffers.   *)
(* What needs room on the disk may fail or be cut short.                   *)
(***************************************************************************)
EXTENDS Naturals, Sequences

CONSTANTS
    Name,      \* names of files
    Byte,      \* values of a byte
    Missing,   \* no file has the name
    Closed     \* the file is not open

VARIABLE file   \* by name: the bytes of the file and the position in it

IsClosed(f) == f # Missing /\ f.pos = Closed
IsOpen(f)   == f # Missing /\ f.pos # Closed

-----------------------------------------------------------------------------
(* What may become of a file f: a relation with its next state g. *)

Create(f, g) == f = Missing /\ g = [bytes |-> << >>, pos |-> Closed]

Delete(f, g) == IsClosed(f) /\ g = Missing

OpenFile(f, g) == IsClosed(f) /\ g = [f EXCEPT !.pos = 0]

CloseFile(f, g) == IsOpen(f) /\ g = [f EXCEPT !.pos = Closed]

\* One value is written to all of the bytes from the position to the new one;
\* they replace others or extend the file.
WriteFile(f, g) ==
    /\ IsOpen(f) /\ IsOpen(g) /\ g.pos > f.pos
    /\ Len(g.bytes) = IF g.pos > Len(f.bytes) THEN g.pos ELSE Len(f.bytes)
    /\ \E b \in Byte : \A i \in 1 .. Len(g.bytes) :
          g.bytes[i] = IF f.pos < i /\ i <= g.pos THEN b ELSE f.bytes[i]

\* Reading, and going to a position, which may fail.
Locate(f, g) == /\ IsOpen(f) /\ IsOpen(g)
                /\ g.bytes = f.bytes /\ g.pos <= Len(f.bytes)

\* The end of the file is cut off; a position in it becomes the new end.
Erase(f, g) ==
    /\ IsOpen(f) /\ IsOpen(g)
    /\ Len(g.bytes) <= Len(f.bytes)
    /\ g.bytes = SubSeq(f.bytes, 1, Len(g.bytes))
    /\ g.pos = IF f.pos > Len(g.bytes) THEN Len(g.bytes) ELSE f.pos

Change(f, g) ==
    \/ Create(f, g) \/ Delete(f, g) \/ OpenFile(f, g) \/ CloseFile(f, g)
    \/ WriteFile(f, g) \/ Locate(f, g) \/ Erase(f, g)

-----------------------------------------------------------------------------

FilesInit == file = [n \in Name |-> Missing]

\* An operation changes one file only, and a file that is not open may change
\* its name.
FilesNext ==
    \/ \E n \in Name : /\ Change(file[n], file'[n])
                       /\ \A m \in Name \ {n} : file'[m] = file[m]
    \/ \E old, new \in Name :
          /\ IsClosed(file[old]) /\ file[new] = Missing
          /\ file' = [file EXCEPT ![new] = file[old], ![old] = Missing]

FilesSpec == FilesInit /\ [][FilesNext]_file
=============================================================================
