----------------------------- MODULE FileContents -----------------------------
(***************************************************************************)
(* The file system implements files as module Files describes them: a file *)
(* is what its chain of sectors holds up to its length, with the changed   *)
(* bytes of the buffer. The variable file is this function of the others;  *)
(* it is a variable only to be computed once per state.                    *)
(***************************************************************************)
EXTENDS FileSystem

VARIABLE file

\* The values that stand for no position and for no file are neither.
ASSUME FileAssumption ==
    /\ Closed \notin Nat
    /\ Missing \notin [bytes : Seq(Byte), pos : Nat \union {Closed}]

FileOf(d, fd, n) ==
    LET fe == IF fd # Closed THEN fd.fe ELSE FindInRoot(d, n)
    IN  IF fe = Missing THEN Missing
        ELSE [bytes |-> Content(d, fe, fd),
              pos   |-> IF fd # Closed THEN GetFilePos(fd) ELSE Closed]

FilesOf(d, fds) == [n \in Name |-> FileOf(d, fds[n], n)]

ContentsInit == FSInit /\ file = FilesOf(disk, opened)
ContentsNext == FSNext /\ file' = FilesOf(disk', opened')

ContentsSpec == ContentsInit /\ [][ContentsNext]_<< fsVars, file >>

Abstract == INSTANCE Files

\* Callers see files: bytes are found where they were written, whatever chains,
\* buffers and the directory go through, an operation changes one file only, and
\* what is cut short for lack of room leaves a file of the bytes written so far
\* (fs.c, all of its operations).
FilesImplemented == Abstract!FilesSpec
=============================================================================
