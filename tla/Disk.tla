--------------------------------- MODULE Disk ---------------------------------
(***************************************************************************)
(* The sectors of the file system, src/src/fs.c 117-457 and 732-801: the   *)
(* header with the list of free sectors, the sector map with the chains of *)
(* files, and the operations that extend and shorten a chain. A function   *)
(* of the code takes the history of the disk, one state per sector that    *)
(* was written, and extends it, so that a power failure is a cut. Sectors  *)
(* are numbered from the first one behind the map; End is -1, as there.    *)
(***************************************************************************)
EXTENDS Integers, Sequences, FiniteSets

CONSTANTS
    HDRawSectors,    \* sectors of the disk
    MAP_ITEM_CNT,    \* entries of the map in a sector
    SECT_SIZE,       \* bytes of a sector
    FE_BYTES         \* bytes of a directory entry

FIXED_SCT_SIZE == 2

ASSUME DiskAssumption ==
    /\ MAP_ITEM_CNT \in Nat \ {0}
    /\ HDRawSectors \in Nat /\ HDRawSectors > FIXED_SCT_SIZE + 1
    /\ FE_BYTES \in Nat \ {0} /\ SECT_SIZE \in Nat \ {0}
    /\ SECT_SIZE % FE_BYTES = 0

\* The map takes one sector in MAP_ITEM_CNT + 1, rounded up.
mapSize == LET n == HDRawSectors - FIXED_SCT_SIZE
           IN  n \div (MAP_ITEM_CNT + 1) + (IF n % (MAP_ITEM_CNT + 1) # 0 THEN 1 ELSE 0)
dataSize == HDRawSectors - mapSize - FIXED_SCT_SIZE

Sector == 0 .. dataSize - 1
End    == -1

\* FSRoot, and the part of a FileEntry that has the same layout.
Chained == [sctBegin : Sector \union {End}, sctNum : 0 .. dataSize,
            lastBytes : 0 .. SECT_SIZE]

NewChain == [sctBegin |-> End, sctNum |-> 0, lastBytes |-> SECT_SIZE]

\* What the disk contains. Contents are those of the modules above this one.
DiskState(Content) ==
    [freeBegin : Sector \union {End}, freeNum : 0 .. dataSize, root : Chained,
     map : [Sector -> Sector \union {End}], sct : [Sector -> Content]]

FSFormat(content) ==
    [freeBegin |-> 0, freeNum |-> dataSize, root |-> NewChain,
     map |-> [s \in Sector |-> IF s = dataSize - 1 THEN End ELSE s + 1],
     sct |-> [s \in Sector |-> content]]

Now(w)      == w[Len(w)]
Write(w, d) == Append(w, d)

-----------------------------------------------------------------------------
(* Chains *)

NextSector(d, s) == IF s = End THEN End ELSE d.map[s]

FindIndex(d, begin, idx) ==
    LET at[i \in 0 .. idx] == IF i = 0 THEN begin ELSE NextSector(d, at[i - 1])
    IN  at[idx]

Chain(d, begin) == {FindIndex(d, begin, i) : i \in 0 .. dataSize} \ {End}

FindLast(d, begin) ==
    IF begin = End THEN End
    ELSE CHOOSE s \in Chain(d, begin) : NextSector(d, s) = End

FindPrev(d, begin, si) ==
    IF si = begin \/ si \notin Chain(d, begin) THEN End
    ELSE CHOOSE s \in Chain(d, begin) : NextSector(d, s) = si

-----------------------------------------------------------------------------
(* Allocation *)

\* The sector is Now(w).freeBegin, which is not End. At the end of the list the
\* code leaves an address in freeBegin that is not End, and whose map entry would
\* be in sector 2^25 + 1. Disks are assumed to be smaller than that, so that
\* reading the entry fails, which gives the same results as End.
AllocSector(w) ==
    LET d      == Now(w)
        header == [d EXCEPT !.freeBegin = d.map[d.freeBegin], !.freeNum = @ - 1]
    IN  w \o << header, [header EXCEPT !.map[d.freeBegin] = End] >>

\* The map would be written without linking the sector to the free ones.
FreeSector_Bug(w, si) ==
    LET d == Now(w)
    IN  Write(w, [d EXCEPT !.freeBegin = si, !.freeNum = @ + 1])

FreeSector(w, si) ==
    LET d      == Now(w)
        header == [d EXCEPT !.freeBegin = si, !.freeNum = @ + 1]
    IN  w \o << header, [header EXCEPT !.map[si] = d.freeBegin] >>

MarkSector(w, si) ==
    IF si = End THEN w ELSE Write(w, [Now(w) EXCEPT !.map[si] = End])

\* Both entries are written at once when they are in the same sector of the map.
AddToLast(w, begin, si) ==
    LET last   == FindLast(Now(w), begin)
        linked == [Now(w) EXCEPT !.map[last] = si]
        ended  == [linked EXCEPT !.map[si] = End]
    IN  IF last \div MAP_ITEM_CNT = si \div MAP_ITEM_CNT
        THEN Write(w, ended)
        ELSE w \o << linked, ended >>

-----------------------------------------------------------------------------
(* Growing and shrinking a chain: a history and the chain's record *)

\* The new sector would count as full.
CheckStorage_Bug(w, fe) ==
    LET si == Now(w).freeBegin
        a  == AllocSector(w)
    IN  IF fe.lastBytes # SECT_SIZE \/ si = End
        THEN << w, fe >>
        ELSE << IF fe.sctBegin = End THEN a ELSE AddToLast(a, fe.sctBegin, si),
                [fe EXCEPT !.sctBegin = IF @ = End THEN si ELSE @,
                           !.sctNum = @ + 1] >>

\* The sector would be linked to the chain before it is taken from the free ones.
CheckStorage_OrderBug(w, fe) ==
    LET d      == Now(w)
        si     == d.freeBegin
        linked == AddToLast(w, fe.sctBegin, si)
        taken  == [Now(linked) EXCEPT !.freeBegin = d.map[si], !.freeNum = @ - 1]
    IN  IF fe.lastBytes # SECT_SIZE \/ si = End
        THEN << w, fe >>
        ELSE << IF fe.sctBegin = End THEN AllocSector(w) ELSE Write(linked, taken),
                [fe EXCEPT !.sctBegin = IF @ = End THEN si ELSE @,
                           !.sctNum = @ + 1, !.lastBytes = 0] >>

CheckStorage(w, fe) ==
    LET si == Now(w).freeBegin
        a  == AllocSector(w)
    IN  IF fe.lastBytes # SECT_SIZE \/ si = End
        THEN << w, fe >>
        ELSE << IF fe.sctBegin = End THEN a ELSE AddToLast(a, fe.sctBegin, si),
                [fe EXCEPT !.sctBegin = IF @ = End THEN si ELSE @,
                           !.sctNum = @ + 1, !.lastBytes = 0] >>

AdjustStorage(w, fe) ==
    LET last == FindLast(Now(w), fe.sctBegin)
        prev == FindPrev(Now(w), fe.sctBegin, last)
    IN  << MarkSector(FreeSector(w, last), prev),
           [fe EXCEPT !.sctNum = @ - 1, !.lastBytes = SECT_SIZE,
                      !.sctBegin = IF fe.sctNum = 1 THEN End ELSE @] >>

\* One round of the loop of EraseLast; left are the bytes still to be erased.
EraseRound(e) ==
    IF e.fe.sctNum = 0 \/ e.left = 0 THEN e
    ELSE IF e.left < e.fe.lastBytes
         THEN [e EXCEPT !.fe.lastBytes = @ - e.left, !.left = 0]
         ELSE LET a == AdjustStorage(e.w, [e.fe EXCEPT !.lastBytes = 0])
              IN  [w |-> a[1], fe |-> a[2], left |-> e.left - e.fe.lastBytes]

EraseLast(w, fe, bytes) ==
    LET e[i \in 0 .. fe.sctNum + 1] ==
          IF i = 0 THEN [w |-> w, fe |-> fe, left |-> bytes] ELSE EraseRound(e[i - 1])
    IN  e[fe.sctNum + 1]

FreeFile(w, begin) ==
    LET n == Cardinality(Chain(Now(w), begin))
        f[i \in 0 .. n] ==
          IF i = 0 THEN w ELSE FreeSector(f[i - 1], FindIndex(Now(w), begin, i - 1))
    IN  f[n]
=============================================================================
