----------------------------- MODULE FileSystem -------------------------------
(***************************************************************************)
(* The operations of the file system that callers see, src/src/fs.c 633-   *)
(* 692 and 849-1550: files are created, opened, written, read, positioned, *)
(* shortened, renamed and deleted, and the power may fail between any two  *)
(* writes of a sector, after which the system starts again. An open file   *)
(* has a copy of its entry and a buffer with one of its sectors. Memory    *)
(* and the disk drive do not fail.                                         *)
(***************************************************************************)
EXTENDS Directory

CONSTANTS
    Operations,   \* what callers do
    Lengths,      \* numbers of bytes written, read, or erased at once
    Positions,    \* positions asked for by FSeek
    MaxOpen,      \* files that callers have open at a time
    Disciplined,  \* callers avoid what the file system does not bear
    PowerFails,   \* whether the power may fail
    Closed        \* no descriptor

FileDesc == [fe : FileEntry, objIdx : Sector \union {End}, offset : 0 .. SECT_SIZE,
             changed : BOOLEAN, cache : [Offset -> Byte]]

ASSUME OperationAssumption ==
    /\ Operations \subseteq {"rename", "delete", "write", "read", "seek", "erase"}
    /\ Lengths \subseteq Nat \ {0} /\ Positions \subseteq Nat /\ MaxOpen \in Nat
    /\ {Disciplined, PowerFails} \subseteq BOOLEAN
    /\ Closed \notin FileDesc

VARIABLES
    disk,    \* the disk
    opened,  \* gFDList: the descriptor of a file, by its name
    failed   \* the operation that a power failure has just ended

fsVars == << disk, opened, failed >>

Running == [op |-> "none", names |-> {}]

FSInit ==
    /\ disk = FSFormat(Blank)
    /\ opened = [n \in Name |-> Closed]
    /\ failed = Running

Open == {n \in Name : opened[n] # Closed}

\* The operation writes all of the history w and leaves the descriptors in fds,
\* or the power fails before the end.
Does(op, names, w, fds) ==
    \/ disk' = Now(w) /\ opened' = fds /\ UNCHANGED failed
    \/ /\ PowerFails
       /\ \E i \in 1 .. Len(w) - 1 : disk' = w[i]
       /\ opened' = [n \in Name |-> Closed]
       /\ failed' = [op |-> op, names |-> names]

-----------------------------------------------------------------------------
(* Names *)

\* Disciplined callers need a place in the directory or a free sector.
FCreate(name) ==
    /\ FindInRoot(disk, name) = Missing
    /\ Disciplined => disk.root.lastBytes # SECT_SIZE \/ disk.freeBegin # End
    /\ Does("create", {name}, CreateInRoot(<< disk >>, name), opened)

\* Disciplined callers delete when no file is open.
FDelete(name) ==
    /\ "delete" \in Operations
    /\ name \notin Open /\ FindInRoot(disk, name) # Missing
    /\ Disciplined => Open = {}
    /\ Does("delete", {name}, DeleteInRoot(<< disk >>, name), opened)

FRename(old, new) ==
    /\ "rename" \in Operations
    /\ old \notin Open /\ FindInRoot(disk, old) # Missing
    /\ FindInRoot(disk, new) = Missing
    /\ Does("rename", {old, new},
            FlushFileEntry(<< disk >>, [FindInRoot(disk, old) EXCEPT !.name = new]),
            opened)

\* For a name without a file the code returns memory that it never frees, whose
\* address all other functions refuse.
FOpen(name) ==
    /\ name \notin Open /\ FindInRoot(disk, name) # Missing
    /\ Cardinality(Open) < MaxOpen
    /\ opened' = [opened EXCEPT ![name] =
                    [fe |-> FindInRoot(disk, name), objIdx |-> End,
                     offset |-> SECT_SIZE, changed |-> FALSE, cache |-> Blank.byte]]
    /\ UNCHANGED << disk, failed >>

-----------------------------------------------------------------------------
(* An open file: functions on a history, a descriptor and whether all of the *)
(* requested bytes could be moved so far                                     *)

GetFileLen(fd) ==
    IF fd.fe.sctBegin = End THEN 0
    ELSE (fd.fe.sctNum - 1) * SECT_SIZE + fd.fe.lastBytes

GetFilePos(fd) ==
    IF fd.objIdx = End THEN 0 ELSE fd.objIdx * SECT_SIZE + fd.offset

\* Only the entry would be written.
ToFlush_Bug(s) ==
    [s EXCEPT !.w = FlushFileEntry(s.w, s.fd.fe), !.fd.changed = FALSE]

\* When the sector of the buffer is no longer part of the file, FlushCache fails
\* and the entry is not written either.
ToFlush(s) ==
    LET si == FindIndex(Now(s.w), s.fd.fe.sctBegin, s.fd.objIdx)
    IN  IF ~s.fd.changed
        THEN [s EXCEPT !.w = FlushFileEntry(s.w, s.fd.fe)]
        ELSE IF si = End THEN s
        ELSE LET w == Write(s.w, [Now(s.w) EXCEPT !.sct[si] = [byte |-> s.fd.cache]])
             IN  [s EXCEPT !.w = FlushFileEntry(w, s.fd.fe), !.fd.changed = FALSE]

ReadToCache(s, idx) ==
    LET si == FindIndex(Now(s.w), s.fd.fe.sctBegin, idx)
        f  == ToFlush(s)
    IN  IF idx >= s.fd.fe.sctNum THEN [s EXCEPT !.ok = FALSE]
        ELSE IF si = End THEN [f EXCEPT !.ok = FALSE]
        ELSE [f EXCEPT !.fd.objIdx = idx, !.fd.offset = 0, !.fd.changed = FALSE,
                       !.fd.cache = BytesIn(Now(f.w).sct[si])]

PrepareCache(s, idx) ==
    LET c == CheckStorage(s.w, s.fd.fe)
    IN  ReadToCache([s EXCEPT !.w = c[1], !.fd.fe = c[2]], idx)

\* The next sector is fetched when the position is behind the one in the buffer.
Prepared(s) ==
    IF s.fd.offset = SECT_SIZE THEN PrepareCache(s, s.fd.objIdx + 1) ELSE s

\* The length of the last sector would be the offset after every write to it.
CopyToCache_Bug(fd, b) ==
    [fd EXCEPT !.cache[fd.offset] = b, !.offset = @ + 1, !.changed = TRUE,
               !.fe.lastBytes = IF fd.objIdx = fd.fe.sctNum - 1 THEN fd.offset + 1
                                                                ELSE @]

CopyToCache(fd, b) ==
    [fd EXCEPT !.cache[fd.offset] = b, !.offset = @ + 1, !.changed = TRUE,
               !.fe.lastBytes = IF fd.objIdx = fd.fe.sctNum - 1 /\ @ < fd.offset + 1
                                THEN fd.offset + 1 ELSE @]

\* The loops of ToWrite and ToRead, a byte at a time.
WriteByte(s, b) ==
    IF ~s.ok THEN s
    ELSE LET p == Prepared(s)
         IN  IF p.ok THEN [p EXCEPT !.fd = CopyToCache(@, b)] ELSE p

ReadByte(s) ==
    IF ~s.ok THEN s
    ELSE LET p == Prepared(s)
         IN  IF p.ok THEN [p EXCEPT !.fd.offset = @ + 1] ELSE p

ToWrite(s, data) ==
    LET r[i \in 0 .. Len(data)] == IF i = 0 THEN s ELSE WriteByte(r[i - 1], data[i])
    IN  r[Len(data)]

\* A position behind the end makes the number of bytes left wrap around.
ToRead(s, len) ==
    LET left == GetFileLen(s.fd) - GetFilePos(s.fd)
        n    == IF left < 0 \/ len < left THEN len ELSE left
        r[i \in 0 .. n] == IF i = 0 THEN s ELSE ReadByte(r[i - 1])
    IN  r[n]

\* There is no sector for the end of a file that fills its last sector, or has
\* none: the position then stays.
ToLocate(s, pos) ==
    LET len == GetFileLen(s.fd)
        to  == IF pos < len THEN pos ELSE len
        idx == to \div SECT_SIZE
        si  == FindIndex(Now(s.w), s.fd.fe.sctBegin, idx)
        f   == ToFlush(s)
    IN  IF si = End THEN f
        ELSE [f EXCEPT !.fd.objIdx = idx, !.fd.offset = to % SECT_SIZE,
                       !.fd.cache = BytesIn(Now(f.w).sct[si])]

Erased(s, bytes) ==
    LET e     == EraseLast(s.w, s.fd.fe, bytes)
        short == [s EXCEPT !.w = e.w, !.fd.fe = e.fe]
    IN  IF e.left < bytes /\ GetFilePos(s.fd) > GetFileLen(s.fd) - (bytes - e.left)
        THEN ToLocate(short, GetFileLen(s.fd) - (bytes - e.left))
        ELSE short

-----------------------------------------------------------------------------
(* Operations on descriptors *)

Session(name) == [w |-> << disk >>, fd |-> opened[name], ok |-> TRUE]

Ends(op, name, s) == Does(op, {name}, s.w, [opened EXCEPT ![name] = s.fd])

FWrite(name, data) ==
    /\ "write" \in Operations
    /\ Ends("write", name, ToWrite(Session(name), data))

FRead(name, len) ==
    /\ "read" \in Operations
    /\ Ends("read", name, ToRead(Session(name), len))

FSeek(name, pos) ==
    /\ "seek" \in Operations
    /\ Ends("seek", name, ToLocate(Session(name), pos))

\* Disciplined callers leave a file that ends within a sector, unless they have
\* not used it since it was opened or erase behind their position only.
FErase(name, bytes) ==
    LET len == GetFileLen(opened[name]) - bytes
    IN  /\ "erase" \in Operations
        /\ Disciplined => \/ opened[name].objIdx = End
                          \/ len > 0 /\ len % SECT_SIZE # 0
                          \/ len > GetFilePos(opened[name])
        /\ Ends("erase", name, Erased(Session(name), bytes))

FFlush(name) == Ends("flush", name, ToFlush(Session(name)))

FClose(name) ==
    Does("close", {name}, ToFlush(Session(name)).w, [opened EXCEPT ![name] = Closed])

FSOperation ==
    \/ \E n \in Name : FCreate(n) \/ FDelete(n) \/ FOpen(n)
    \/ \E n, m \in Name : FRename(n, m)
    \/ \E n \in Open :
          \/ FFlush(n) \/ FClose(n)
          \/ \E l \in Lengths : FErase(n, l) \/ FRead(n, l)
          \/ \E p \in Positions : FSeek(n, p)
          \/ \E l \in Lengths, b \in Byte : FWrite(n, [i \in 1 .. l |-> b])

\* FSModInit after a power failure: the disk is as the failure left it, nothing is
\* repaired, and no file is open.
Restart ==
    /\ failed # Running
    /\ failed' = Running
    /\ UNCHANGED << disk, opened >>

FSNext == (failed = Running /\ FSOperation) \/ Restart

FSSpec == FSInit /\ [][FSNext]_fsVars

-----------------------------------------------------------------------------
(* Properties *)

Operation == {"none", "create", "delete", "rename", "write", "read", "seek", "erase",
              "flush", "close"}

\* The variables hold values of their types.
FSTypeOK ==
    /\ disk \in DiskState(EntrySector \union DataSector)
    /\ opened \in [Name -> FileDesc \union {Closed}]
    /\ failed \in [op : Operation, names : SUBSET Name]

Files == {n \in Name : FindInRoot(disk, n) # Missing}

\* The entry that counts: that of the descriptor while the file is open.
EntryOf(n) == IF n \in Open THEN opened[n].fe ELSE FindInRoot(disk, n)

Owned(n) == Chain(disk, EntryOf(n).sctBegin)

\* Every sector is free, in the directory, or in one file, and in one of them only,
\* and the numbers of sectors in the header, the directory's record and the entries
\* are right (fs.c:159-234, 429-457, 740-764).
SectorsPartition ==
    LET free == Chain(disk, disk.freeBegin)
        root == Chain(disk, disk.root.sctBegin)
    IN  /\ Cardinality(free) = disk.freeNum
        /\ Cardinality(root) = disk.root.sctNum
        /\ free \intersect root = {}
        /\ \A n \in Files :
              /\ Cardinality(Owned(n)) = EntryOf(n).sctNum
              /\ Owned(n) \intersect (free \union root) = {}
              /\ \A m \in Files \ {n} : Owned(n) \intersect Owned(m) = {}
        /\ free \union root \union UNION {Owned(n) : n \in Files} = Sector

\* The directory has no holes, no name twice, and every entry, on the disk or in
\* a descriptor, knows its place, which is where it will be written and deleted
\* (fs.c:483-484, 721-730, 820-836, 944-957).
EntriesInPlace ==
    /\ \A k \in 0 .. RootLen(disk) - 1 : disk.root.sctNum > 0 =>
          /\ RootEntry(disk, k) # Missing
          /\ RootEntry(disk, k).inSctIdx
                = FindIndex(disk, disk.root.sctBegin, k \div FE_ITEM_CNT)
          /\ RootEntry(disk, k).inSctOff = k % FE_ITEM_CNT
    /\ \A n \in Files : Cardinality(Found(disk, n)) = 1
    /\ \A n \in Open \intersect Files : opened[n].fe.inSctIdx = FindInRoot(disk, n).inSctIdx
                        /\ opened[n].fe.inSctOff = FindInRoot(disk, n).inSctOff

\* A buffer holds a sector of the file, as it is on the disk if nothing was
\* written to it since (fs.c:1002-1021, 1411-1435).
CacheFresh ==
    \A n \in Open : opened[n].objIdx # End =>
        LET si == FindIndex(disk, opened[n].fe.sctBegin, opened[n].objIdx)
        IN  /\ opened[n].objIdx < opened[n].fe.sctNum
            /\ ~opened[n].changed => opened[n].cache = BytesIn(disk.sct[si])

\* What the disk says of who uses which sectors; an open file may be ahead of it.
Used(owner) ==
    CASE owner = "free" -> Chain(disk, disk.freeBegin)
      [] owner = "root" -> Chain(disk, disk.root.sctBegin)
      [] owner \notin {"free", "root"} -> Chain(disk, FindInRoot(disk, owner).sctBegin)

\* No sector is in two files, or in a file and in the list AllocSector takes
\* sectors from, also when the power has failed (comment fs.c:153: a sector that
\* is free is allocated).
NoSharedSector ==
    \A a, b \in {"free", "root"} \union (Files \ Open) :
        a # b => Used(a) \intersect Used(b) = {}

\* The contents of a file as its entry and its buffer give them.
Content(d, fe, fd) ==
    [i \in 1 .. GetFileLen([fe |-> fe]) |->
        LET idx == (i - 1) \div SECT_SIZE
        IN  IF fd # Closed /\ fd.changed /\ fd.objIdx = idx
            THEN fd.cache[(i - 1) % SECT_SIZE]
            ELSE BytesIn(d.sct[FindIndex(d, fe.sctBegin, idx)])[(i - 1) % SECT_SIZE]]

OnDisk(d, n) == IF FindInRoot(d, n) = Missing THEN Missing
                ELSE Content(d, FindInRoot(d, n), Closed)

\* A power failure in an operation on a file does not touch what the disk says
\* of another one: its entry is found and its contents are the same. (Deleting
\* moves another entry and shortens the directory first: it has no such
\* guarantee, fs.c:829-836.)
FailureIsLocal ==
    [][failed' # failed => \A n \in Name \ failed'.names :
          OnDisk(disk', n) = OnDisk(disk, n)]_fsVars

\* The position is in the file, also after its end was erased (comment
\* fs.c:1458).
PositionInFile == \A n \in Open : GetFilePos(opened[n]) <= GetFileLen(opened[n])
=============================================================================
