-------------------------------- MODULE Memory --------------------------------
(***************************************************************************)
(* The kernel heap, src/src/memory.c: small requests are served with units *)
(* of a fixed size from one half of the memory, all others, and small ones *)
(* when the units are used up, with blocks of their own size from a list   *)
(* in the other half. Addresses and sizes are numbers; the headers of the  *)
(* blocks are in the memory they describe.                                 *)
(***************************************************************************)
EXTENDS Naturals, Sequences, FiniteSets

CONSTANTS
    MemBase,         \* mem, the address of the heap
    MemSize,         \* its size in bytes
    FM_NODE_SIZE,    \* size of the node that manages a unit
    FM_ALLOC_SIZE,   \* size of a unit
    VM_HEAD_SIZE,    \* size of the header of a block
    UINT,            \* number of values of a uint
    Size             \* sizes of requests

NULL == 0

fsize == MemSize \div 2
max   == fsize \div (FM_NODE_SIZE + FM_ALLOC_SIZE)
ubase == MemBase + max * FM_NODE_SIZE
vmem  == MemBase + fsize
vsize == MemSize - fsize

ASSUME MemoryAssumption ==
    /\ MemBase \in Nat \ {0} /\ MemSize \in Nat
    /\ FM_NODE_SIZE \in Nat \ {0} /\ FM_ALLOC_SIZE \in Nat \ {0}
    /\ VM_HEAD_SIZE \in Nat \ {0}
    /\ max >= 1 /\ vsize >= VM_HEAD_SIZE
    /\ UINT \in Nat /\ MemBase + MemSize <= UINT
    /\ Size \subseteq Nat \ {0}

\* Nobody asks for a size that wraps around when the header is added.
ASSUME SizeAssumption == \A size \in Size : size + VM_HEAD_SIZE < UINT

Unit    == 0 .. max - 1
Address == MemBase .. MemBase + MemSize - 1

VARIABLES
    node,   \* the FMemNode of each unit: the union of next and ptr
    first,  \* gFMemList.node: the first free unit, or none
    vlist,  \* gVMemList
    live    \* the memory that callers hold, as [ptr, size]

memVars == << node, first, vlist, live >>

\* While a unit is free its node holds the next free unit; while it is in use
\* the address of the unit. Node and unit addresses are different.
None      == [next |-> max]
Next(i)   == [next |-> i]
UnitPtr(i) == ubase + i * FM_ALLOC_SIZE

NodeValue == [next : Unit \union {max}] \union [ptr : Address]

\* A block is its header, used bytes and the free bytes behind them.
Block == [at : Address, used : Nat, free : Nat]

PtrOf(b) == b.at + VM_HEAD_SIZE
EndOf(b) == PtrOf(b) + b.used + b.free

MemModInit ==
    /\ node = [i \in Unit |-> Next(i + 1)]
    /\ first = 0
    /\ vlist = << [at |-> vmem, used |-> 0, free |-> vsize - VM_HEAD_SIZE] >>
    /\ live = {}

-----------------------------------------------------------------------------
(* Malloc *)

Hold(ptr, size) == live' = live \union {[ptr |-> ptr, size |-> size]}

\* The node would not be marked as used.
FMemAlloc_Bug(size) ==
    /\ first # max
    /\ first' = node[first].next
    /\ Hold(UnitPtr(first), size)
    /\ UNCHANGED << node, vlist >>

FMemAlloc(size) ==
    /\ first # max
    /\ first' = node[first].next
    /\ node' = [node EXCEPT ![first] = [ptr |-> UnitPtr(first)]]
    /\ Hold(UnitPtr(first), size)
    /\ UNCHANGED vlist

\* uint alloc.
Alloc(size) == (size + VM_HEAD_SIZE) % UINT

Fits(i, size) == vlist[i].free >= Alloc(size)

\* The new block would be put at the end of the list.
VMemAlloc_Bug(i, size) ==
    LET b   == vlist[i]
        new == [at |-> EndOf(b) - Alloc(size), used |-> size, free |-> 0]
    IN  /\ vlist' = Append([vlist EXCEPT ![i].free = @ - Alloc(size)], new)
        /\ Hold(PtrOf(new), size)

\* A block is cut off the end of the first one with enough room.
VMemAlloc(i, size) ==
    LET b   == vlist[i]
        new == [at |-> EndOf(b) - Alloc(size), used |-> size, free |-> 0]
    IN  /\ vlist' = SubSeq(vlist, 1, i - 1)
                      \o << [b EXCEPT !.free = @ - Alloc(size)], new >>
                      \o SubSeq(vlist, i + 1, Len(vlist))
        /\ Hold(PtrOf(new), size)

Malloc(size) ==
    IF size <= FM_ALLOC_SIZE /\ first # max
    THEN FMemAlloc(size)
    ELSE /\ \/ \E i \in 1 .. Len(vlist) :
                  /\ Fits(i, size)
                  /\ \A j \in 1 .. i - 1 : ~Fits(j, size)
                  /\ VMemAlloc(i, size)
            \/ /\ \A i \in 1 .. Len(vlist) : ~Fits(i, size)
               /\ UNCHANGED << vlist, live >>
         /\ UNCHANGED << node, first >>

-----------------------------------------------------------------------------
(* Free *)

\* An address of a unit would not be compared with the one that was given out.
IsUnitPtr_Bug(ptr) == ptr >= ubase /\ (ptr - ubase) \div FM_ALLOC_SIZE < max

\* The address is that of a unit in use. The index is computed without sign, so
\* that it is out of range for addresses below the units.
IsUnitPtr(ptr) ==
    /\ ptr >= ubase
    /\ LET index == (ptr - ubase) \div FM_ALLOC_SIZE
       IN  index < max /\ node[index] = [ptr |-> ptr]

FMemFree(ptr) ==
    LET index == (ptr - ubase) \div FM_ALLOC_SIZE
    IN  /\ node' = [node EXCEPT ![index] = Next(first)]
        /\ first' = index
        /\ UNCHANGED vlist

IsBlockPtr(ptr) == \E i \in 1 .. Len(vlist) : PtrOf(vlist[i]) = ptr

\* The header of the block would not be given back.
VMemFree_Bug(ptr) ==
    LET i    == CHOOSE i \in 1 .. Len(vlist) : PtrOf(vlist[i]) = ptr
        room == vlist[i].used + vlist[i].free
    IN  /\ vlist' = IF i = 1 THEN Tail(vlist)
                    ELSE SubSeq(vlist, 1, i - 2)
                           \o << [vlist[i - 1] EXCEPT !.free = @ + room] >>
                           \o SubSeq(vlist, i + 1, Len(vlist))
        /\ UNCHANGED << node, first >>

\* The block before the freed one takes all of its room. In front of the first
\* block is the list itself: the room is lost in what lies behind gVMemList.
VMemFree(ptr) ==
    LET i    == CHOOSE i \in 1 .. Len(vlist) : PtrOf(vlist[i]) = ptr
        room == vlist[i].used + vlist[i].free + VM_HEAD_SIZE
    IN  /\ vlist' = IF i = 1 THEN Tail(vlist)
                    ELSE SubSeq(vlist, 1, i - 2)
                           \o << [vlist[i - 1] EXCEPT !.free = @ + room] >>
                           \o SubSeq(vlist, i + 1, Len(vlist))
        /\ UNCHANGED << node, first >>

\* An address that is neither is ignored.
Free(ptr) ==
    /\ IF IsUnitPtr(ptr) THEN FMemFree(ptr)
       ELSE IF IsBlockPtr(ptr) THEN VMemFree(ptr)
       ELSE UNCHANGED << node, first, vlist >>
    /\ live' = {a \in live : a.ptr # ptr}

\* The address of the first block's bytes, which Malloc never returns. Given to
\* Free it takes the first block off the list, and with it a half of the heap.
\* Callers are taken not to invent this one address; all others may be freed, at
\* any time and any number of times.
FirstBytes == vmem + VM_HEAD_SIZE

Freed == Address \ {FirstBytes}

MemNext == \/ \E size \in Size : Malloc(size)
           \/ \E ptr \in Freed : Free(ptr)

MemSpec == MemModInit /\ [][MemNext]_memVars

-----------------------------------------------------------------------------
(* Properties *)

\* Callers get memory of their own: pieces lie in the heap, do not overlap, and
\* do not touch the nodes and headers that manage the heap; and nobody is given
\* the address that Free takes for the first block (memory.c:71-83, 127-148).
Overlap(a, m, b, n) == a < b + n /\ b < a + m

LiveDisjoint ==
    /\ \A a \in live :
          /\ a.ptr >= ubase /\ a.ptr + a.size <= MemBase + MemSize
          /\ a.ptr # FirstBytes
          /\ \A i \in 1 .. Len(vlist) :
                ~Overlap(a.ptr, a.size, vlist[i].at, VM_HEAD_SIZE)
    /\ \A a, b \in live : a # b => ~Overlap(a.ptr, a.size, b.ptr, b.size)

\* The list describes its half of the memory from end to end: a block ends
\* where the next one begins, so that nothing is ever lost by splitting and
\* merging, whatever the order in which blocks are freed.
ListTiles ==
    /\ vlist[1].at = vmem /\ vlist[1].used = 0
    /\ EndOf(vlist[Len(vlist)]) = vmem + vsize
    /\ \A i \in 1 .. Len(vlist) - 1 : EndOf(vlist[i]) = vlist[i + 1].at

\* What nobody holds can be allocated again: each block but the first is held
\* by a caller, and the free units are linked in one chain.
FreeUnits == {i \in Unit : \A a \in live : a.ptr # UnitPtr(i)}

NothingLeaks ==
    /\ \A i \in 2 .. Len(vlist) : \E a \in live : a.ptr = PtrOf(vlist[i])
    /\ \E chain \in [1 .. Cardinality(FreeUnits) -> FreeUnits] :
          /\ \A i \in FreeUnits : \E k \in DOMAIN chain : chain[k] = i
          /\ first = IF FreeUnits = {} THEN max ELSE chain[1]
          /\ \A k \in DOMAIN chain : node[chain[k]] =
                IF k = Cardinality(FreeUnits) THEN None ELSE Next(chain[k + 1])

\* Free ignores an address that nobody holds, also one that was freed before
\* (comments memory.c:16 and 94), unless it is that of the first block's bytes.
StaleFreeIgnored ==
    [][\A ptr \in Freed :
          Free(ptr) /\ (\A a \in live : a.ptr # ptr)
          => UNCHANGED << node, first, vlist >>]_memVars
=============================================================================
