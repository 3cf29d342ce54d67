------------------------------ MODULE Directory -------------------------------
(***************************************************************************)
(* The root directory, src/src/fs.c 459-847 and 936-957: entries of files  *)
(* in a chain of sectors that is kept without holes. A sector holds either *)
(* entries or bytes of a file.                                             *)
(***************************************************************************)
EXTENDS Disk

CONSTANTS
    Name,     \* names of files
    Byte,     \* values of a byte, among them 0
    Missing   \* no such entry

FE_ITEM_CNT == SECT_SIZE \div FE_BYTES
Slot        == 0 .. FE_ITEM_CNT - 1
Offset      == 0 .. SECT_SIZE - 1

FileEntry == [name : Name, sctBegin : Sector \union {End}, sctNum : 0 .. dataSize,
              lastBytes : 0 .. SECT_SIZE, inSctIdx : Sector, inSctOff : Slot]

ASSUME NameAssumption == Missing \notin Name \union FileEntry /\ 0 \in Byte

EntrySector == [entry : [Slot -> FileEntry \union {Missing}]]
DataSector  == [byte : [Offset -> Byte]]

Blank == [byte |-> [i \in Offset |-> 0]]

\* A sector read for entries: what was written as bytes is none.
EntriesIn(content) ==
    IF "entry" \in DOMAIN content THEN content.entry ELSE [i \in Slot |-> Missing]

\* A sector read for bytes: those of entries are of no interest.
BytesIn(content) ==
    IF "byte" \in DOMAIN content THEN content.byte ELSE Blank.byte

\* Nothing is found where the chain ends too early. The offset may be one behind
\* the last; the code then uses memory behind its buffer.
EntryAt(d, si, off) ==
    IF si = End \/ off \notin Slot THEN Missing ELSE EntriesIn(d.sct[si])[off]

WithEntry(d, si, off, fe) ==
    [d EXCEPT !.sct[si] =
        [entry |-> [i \in Slot |-> IF i = off THEN fe ELSE EntriesIn(d.sct[si])[i]]]]

-----------------------------------------------------------------------------

\* The positions FindFileEntry looks at, in its order.
RootLen(d) == (d.root.sctNum - 1) * FE_ITEM_CNT + d.root.lastBytes \div FE_BYTES

RootEntry(d, k) ==
    EntryAt(d, FindIndex(d, d.root.sctBegin, k \div FE_ITEM_CNT), k % FE_ITEM_CNT)

Found(d, name) ==
    IF d.root.sctNum = 0 THEN {}
    ELSE {k \in 0 .. RootLen(d) - 1 :
            RootEntry(d, k) # Missing /\ RootEntry(d, k).name = name}

FindInRoot(d, name) ==
    IF Found(d, name) = {} THEN Missing
    ELSE RootEntry(d, CHOOSE k \in Found(d, name) : \A j \in Found(d, name) : k <= j)

NewEntry(name, si, off) ==
    [name |-> name, sctBegin |-> End, sctNum |-> 0, lastBytes |-> SECT_SIZE,
     inSctIdx |-> si, inSctOff |-> off]

\* CheckStorage may fail; only an empty directory then has no last sector.
CreateInRoot(w, name) ==
    LET c    == CheckStorage(w, Now(w).root)
        last == FindLast(Now(c[1]), c[2].sctBegin)
        off  == c[2].lastBytes \div FE_BYTES
        made == WithEntry(Now(c[1]), last, off, NewEntry(name, last, off))
    IN  IF last = End THEN c[1]
        ELSE c[1] \o << made, [made EXCEPT !.root =
                                  [c[2] EXCEPT !.lastBytes = @ + FE_BYTES]] >>

\* The entry would take the place along with the file.
MoveFileEntry_Bug(dst, src) == src

MoveFileEntry(dst, src) ==
    [src EXCEPT !.inSctIdx = dst.inSctIdx, !.inSctOff = dst.inSctOff]

\* The last entry of the directory takes the place of the deleted one.
DeleteInRoot(w, name) ==
    LET d      == Now(w)
        fe     == FindInRoot(d, name)
        target == EntryAt(d, fe.inSctIdx, fe.inSctOff)
        last   == EntryAt(d, FindLast(d, d.root.sctBegin),
                          d.root.lastBytes \div FE_BYTES - 1)
        e      == EraseLast(FreeFile(w, target.sctBegin), d.root, FE_BYTES)
        shrunk == [Now(e.w) EXCEPT !.root = e.fe]
    IN  e.w \o << shrunk, WithEntry(shrunk, fe.inSctIdx, fe.inSctOff,
                                    MoveFileEntry(target, last)) >>

\* The sector would be written without the entries of other files.
FlushFileEntry_Bug(w, fe) ==
    Write(w, [Now(w) EXCEPT !.sct[fe.inSctIdx] =
        [entry |-> [i \in Slot |-> IF i = fe.inSctOff THEN fe ELSE Missing]]])

FlushFileEntry(w, fe) == Write(w, WithEntry(Now(w), fe.inSctIdx, fe.inSctOff, fe))
=============================================================================
