----------------------------- MODULE MemoryProofs -----------------------------
(***************************************************************************)
(* Proofs about Memory, for a heap of any size and address, with nodes,    *)
(* units and headers of any sizes, and requests of any set of sizes.       *)
(***************************************************************************)
EXTENDS Memory, FiniteSetTheorems, SequenceTheorems, TLAPS

-----------------------------------------------------------------------------
(* The layout of the heap *)

LEMMA Layout ==
    /\ fsize \in Nat /\ vsize \in Nat /\ max \in Nat \ {0}
    /\ ubase \in Nat /\ vmem \in Nat /\ MemBase <= ubase
    /\ ubase + max * FM_ALLOC_SIZE <= vmem
    /\ vmem + vsize = MemBase + MemSize
    /\ vsize >= VM_HEAD_SIZE
<1> DEFINE unit == FM_NODE_SIZE + FM_ALLOC_SIZE
<1>1. /\ MemBase \in Nat \ {0} /\ MemSize \in Nat /\ unit \in Nat \ {0}
      /\ FM_NODE_SIZE \in Nat \ {0} /\ FM_ALLOC_SIZE \in Nat \ {0}
      /\ max >= 1 /\ vsize >= VM_HEAD_SIZE
  BY MemoryAssumption
<1>2. fsize \in Nat /\ fsize <= MemSize
  BY <1>1 DEF fsize
<1>3. max \in Nat /\ max * unit <= fsize
  <2>1. \A n \in Nat, a \in Nat \ {0} : n \div a \in Nat /\ (n \div a) * a <= n
    OBVIOUS
  <2>2. max = fsize \div unit
    BY DEF max
  <2> HIDE DEF unit
  <2> QED
    BY <1>1, <1>2, <2>1, <2>2
<1>4. max * unit = max * FM_NODE_SIZE + max * FM_ALLOC_SIZE
  BY <1>1, <1>3
<1>5. max * FM_NODE_SIZE \in Nat /\ max * FM_ALLOC_SIZE \in Nat
  BY <1>1, <1>3
<1> QED
  BY <1>1, <1>2, <1>3, <1>4, <1>5 DEF ubase, vmem, vsize

LEMMA UnitAt ==
    ASSUME NEW i \in Unit
    PROVE  /\ i \in Nat /\ i < max
           /\ UnitPtr(i) \in Nat /\ UnitPtr(i) \in Address /\ UnitPtr(i) >= ubase
           /\ UnitPtr(i) + FM_ALLOC_SIZE <= vmem
           /\ (UnitPtr(i) - ubase) \div FM_ALLOC_SIZE = i
<1> DEFINE A == FM_ALLOC_SIZE
<1>1. A \in Nat \ {0} /\ max \in Nat /\ ubase \in Nat /\ vmem \in Nat
      /\ ubase + max * A <= vmem
  BY Layout, MemoryAssumption
<1>2. i \in Nat /\ i + 1 <= max
  BY <1>1 DEF Unit
<1> HIDE DEF A
<1>3. i * A \in Nat /\ i * A + A <= max * A /\ max * A \in Nat
  <2>1. \A m \in Nat, n \in Nat : m < n => m * A + A <= n * A
    BY <1>1
  <2> QED
    BY <1>1, <1>2, <2>1
<1>4. (i * A) \div A = i
  BY <1>1, <1>2
<1>5. UnitPtr(i) = ubase + i * A
  BY DEF UnitPtr, A
<1>6. UnitPtr(i) - ubase = i * A
  BY <1>1, <1>3, <1>5
<1>7. (UnitPtr(i) - ubase) \div A = i
  BY <1>4, <1>6
<1>8. UnitPtr(i) \in Nat /\ UnitPtr(i) >= ubase /\ UnitPtr(i) + A <= vmem
  BY <1>1, <1>3, <1>5
<1>9. UnitPtr(i) \in Address
  <2>1. /\ MemBase <= ubase /\ vmem + vsize = MemBase + MemSize /\ vsize \in Nat
        /\ MemBase \in Nat /\ MemSize \in Nat
    BY Layout, MemoryAssumption
  <2> QED
    BY <1>1, <1>8, <2>1 DEF Address
<1> QED
  BY <1>1, <1>2, <1>7, <1>8, <1>9 DEF A

LEMMA UnitsApart ==
    ASSUME NEW i \in Unit, NEW j \in Unit, i < j
    PROVE  UnitPtr(i) + FM_ALLOC_SIZE <= UnitPtr(j)
<1>1. FM_ALLOC_SIZE \in Nat \ {0} /\ ubase \in Nat /\ i \in Nat /\ j \in Nat
  BY Layout, MemoryAssumption, UnitAt
<1>2. /\ i * FM_ALLOC_SIZE \in Nat /\ j * FM_ALLOC_SIZE \in Nat
      /\ i * FM_ALLOC_SIZE + FM_ALLOC_SIZE <= j * FM_ALLOC_SIZE
  BY <1>1
<1> QED
  BY <1>1, <1>2 DEF UnitPtr

LEMMA UnitPtrsDiffer ==
    ASSUME NEW i \in Unit, NEW j \in Unit, UnitPtr(i) = UnitPtr(j)
    PROVE  i = j
BY UnitAt

\* A free unit's node and that of a used one are different records.
LEMMA NodesDiffer ==
    ASSUME NEW x, NEW y
    PROVE  Next(x) # [ptr |-> y]
BY DEF Next

-----------------------------------------------------------------------------
(* The list of blocks *)

VBlock == [at : Nat, used : Nat, free : Nat]

IsConcat(w, a, b, c, S) ==
    /\ w \in Seq(S) /\ Len(w) = Len(a) + Len(b) + Len(c)
    /\ \A j \in 1 .. Len(a) : w[j] = a[j]
    /\ \A j \in 1 .. Len(b) : w[Len(a) + j] = b[j]
    /\ \A j \in 1 .. Len(c) : w[Len(a) + Len(b) + j] = c[j]

LEMMA Concat ==
    ASSUME NEW S, NEW a \in Seq(S), NEW b \in Seq(S), NEW c \in Seq(S),
           NEW w, w = a \o b \o c
    PROVE  IsConcat(w, a, b, c, S)
<1> DEFINE ab == a \o b
<1>1. /\ ab \in Seq(S) /\ Len(ab) = Len(a) + Len(b)
      /\ \A j \in 1 .. Len(a) : ab[j] = a[j]
      /\ \A j \in 1 .. Len(b) : ab[Len(a) + j] = b[j]
  BY ConcatProperties
<1>2. w = ab \o c
  OBVIOUS
<1> HIDE DEF ab
<1>3. /\ ab \o c \in Seq(S) /\ Len(ab \o c) = Len(ab) + Len(c)
      /\ \A j \in 1 .. Len(ab) : (ab \o c)[j] = ab[j]
      /\ \A j \in 1 .. Len(c) : (ab \o c)[Len(ab) + j] = c[j]
  <2>1. ab \in Seq(S)
    BY <1>1
  <2> QED
    BY <2>1, ConcatProperties
<1>4. Len(a) \in Nat /\ Len(b) \in Nat
  OBVIOUS
<1>5. \A j \in 1 .. Len(a) : w[j] = a[j]
  BY <1>1, <1>2, <1>3, <1>4
<1>6. \A j \in 1 .. Len(b) : w[Len(a) + j] = b[j]
  BY <1>1, <1>2, <1>3, <1>4
<1> QED
  BY <1>1, <1>2, <1>3, <1>5, <1>6 DEF IsConcat

\* Two blocks in the place of block i, and one in that of blocks i - 1 and i.
Split(v, i, b, new) == SubSeq(v, 1, i - 1) \o << b, new >> \o SubSeq(v, i + 1, Len(v))
Merge(v, i, b)      == SubSeq(v, 1, i - 2) \o << b >> \o SubSeq(v, i + 1, Len(v))

IsSplit(w, v, i, b, new) ==
    /\ w \in Seq(VBlock) /\ Len(w) = Len(v) + 1
    /\ \A j \in 1 .. i - 1 : w[j] = v[j]
    /\ w[i] = b /\ w[i + 1] = new
    /\ \A j \in i + 2 .. Len(v) + 1 : w[j] = v[j - 1]

LEMMA SplitElements ==
    ASSUME NEW v \in Seq(VBlock), NEW i \in 1 .. Len(v),
           NEW b \in VBlock, NEW new \in VBlock, NEW w, w = Split(v, i, b, new)
    PROVE  IsSplit(w, v, i, b, new)
<1> DEFINE l == SubSeq(v, 1, i - 1)
           m == << b, new >>
           r == SubSeq(v, i + 1, Len(v))
<1>1. Len(v) \in Nat /\ i \in Nat
  OBVIOUS
<1>2. l \in Seq(VBlock) /\ Len(l) = i - 1 /\ \A j \in 1 .. i - 1 : l[j] = v[j]
  OBVIOUS
<1>3. m \in Seq(VBlock) /\ Len(m) = 2 /\ m[1] = b /\ m[2] = new
  OBVIOUS
<1>4. /\ r \in Seq(VBlock) /\ Len(r) = Len(v) - i
      /\ \A j \in 1 .. Len(v) - i : r[j] = v[i + j]
  OBVIOUS
<1> HIDE DEF l, m, r
<1>5. /\ w \in Seq(VBlock) /\ Len(w) = Len(l) + Len(m) + Len(r)
      /\ \A j \in 1 .. Len(l) : w[j] = l[j]
      /\ \A j \in 1 .. Len(m) : w[Len(l) + j] = m[j]
      /\ \A j \in 1 .. Len(r) : w[Len(l) + Len(m) + j] = r[j]
  <2>1. w = l \o m \o r
    BY DEF l, m, r, Split
  <2>2. l \in Seq(VBlock) /\ m \in Seq(VBlock) /\ r \in Seq(VBlock)
    BY <1>2, <1>3, <1>4
  <2>3. IsConcat(w, l, m, r, VBlock)
    BY <2>1, <2>2, Concat
  <2> QED
    BY <2>3 DEF IsConcat
<1>6. Len(w) = Len(v) + 1
  BY <1>1, <1>2, <1>3, <1>4, <1>5
<1>7. \A j \in 1 .. i - 1 : w[j] = v[j]
  BY <1>2, <1>5
<1>8. w[i] = b /\ w[i + 1] = new
  <2>1. w[Len(l) + 1] = b /\ w[Len(l) + 2] = new
    BY <1>3, <1>5
  <2> QED
    BY <1>1, <1>2, <2>1
<1>9. \A j \in i + 2 .. Len(v) + 1 : w[j] = v[j - 1]
  <2>1. ASSUME NEW j \in i + 2 .. Len(v) + 1
        PROVE  w[j] = v[j - 1]
    <3>1. /\ j - (i + 1) \in 1 .. Len(r)
          /\ Len(l) + Len(m) + (j - (i + 1)) = j /\ i + (j - (i + 1)) = j - 1
      BY <1>1, <1>2, <1>3, <1>4
    <3>2. w[j] = r[j - (i + 1)]
      BY <1>5, <3>1
    <3>3. r[j - (i + 1)] = v[j - 1]
      BY <1>4, <3>1
    <3> QED
      BY <3>2, <3>3
  <2> QED
    BY <2>1
<1> QED
  BY <1>5, <1>6, <1>7, <1>8, <1>9 DEF IsSplit

IsMerge(w, v, i, b) ==
    /\ w \in Seq(VBlock) /\ Len(w) = Len(v) - 1
    /\ \A j \in 1 .. i - 2 : w[j] = v[j]
    /\ w[i - 1] = b
    /\ \A j \in i .. Len(v) - 1 : w[j] = v[j + 1]

LEMMA MergeElements ==
    ASSUME NEW v \in Seq(VBlock), NEW i \in 2 .. Len(v), NEW b \in VBlock,
           NEW w, w = Merge(v, i, b)
    PROVE  IsMerge(w, v, i, b)
<1> DEFINE l == SubSeq(v, 1, i - 2)
           m == << b >>
           r == SubSeq(v, i + 1, Len(v))
<1>1. Len(v) \in Nat /\ i \in Nat /\ i - 2 \in Nat
  OBVIOUS
<1>2. l \in Seq(VBlock) /\ Len(l) = i - 2 /\ \A j \in 1 .. i - 2 : l[j] = v[j]
  OBVIOUS
<1>3. m \in Seq(VBlock) /\ Len(m) = 1 /\ m[1] = b
  OBVIOUS
<1>4. /\ r \in Seq(VBlock) /\ Len(r) = Len(v) - i
      /\ \A j \in 1 .. Len(v) - i : r[j] = v[i + j]
  OBVIOUS
<1> HIDE DEF l, m, r
<1>5. /\ w \in Seq(VBlock) /\ Len(w) = Len(l) + Len(m) + Len(r)
      /\ \A j \in 1 .. Len(l) : w[j] = l[j]
      /\ \A j \in 1 .. Len(m) : w[Len(l) + j] = m[j]
      /\ \A j \in 1 .. Len(r) : w[Len(l) + Len(m) + j] = r[j]
  <2>1. w = l \o m \o r
    BY DEF l, m, r, Merge
  <2>2. l \in Seq(VBlock) /\ m \in Seq(VBlock) /\ r \in Seq(VBlock)
    BY <1>2, <1>3, <1>4
  <2>3. IsConcat(w, l, m, r, VBlock)
    BY <2>1, <2>2, Concat
  <2> QED
    BY <2>3 DEF IsConcat
<1>6. Len(w) = Len(v) - 1
  BY <1>1, <1>2, <1>3, <1>4, <1>5
<1>7. \A j \in 1 .. i - 2 : w[j] = v[j]
  BY <1>2, <1>5
<1>8. w[i - 1] = b
  <2>1. w[Len(l) + 1] = b
    BY <1>3, <1>5
  <2> QED
    BY <1>1, <1>2, <2>1
<1>9. \A j \in i .. Len(v) - 1 : w[j] = v[j + 1]
  <2>1. ASSUME NEW j \in i .. Len(v) - 1
        PROVE  w[j] = v[j + 1]
    <3>1. /\ j - (i - 1) \in 1 .. Len(r)
          /\ Len(l) + Len(m) + (j - (i - 1)) = j /\ i + (j - (i - 1)) = j + 1
      BY <1>1, <1>2, <1>3, <1>4
    <3>2. w[j] = r[j - (i - 1)]
      BY <1>5, <3>1
    <3>3. r[j - (i - 1)] = v[j + 1]
      BY <1>4, <3>1
    <3> QED
      BY <3>2, <3>3
  <2> QED
    BY <2>1
<1> QED
  BY <1>5, <1>6, <1>7, <1>8, <1>9 DEF IsMerge

\* The blocks of v lie one behind the other and fill their half of the heap.
Tiled(v) ==
    /\ v \in Seq(VBlock) /\ Len(v) >= 1
    /\ v[1].at = vmem /\ v[1].used = 0
    /\ EndOf(v[Len(v)]) = vmem + vsize
    /\ \A i \in 1 .. Len(v) - 1 : EndOf(v[i]) = v[i + 1].at
    /\ \A i, j \in 1 .. Len(v) : i < j => EndOf(v[i]) <= v[j].at

LEMMA BlockNumbers ==
    ASSUME NEW b \in VBlock
    PROVE  /\ b.at \in Nat /\ b.used \in Nat /\ b.free \in Nat
           /\ PtrOf(b) \in Nat /\ PtrOf(b) = b.at + VM_HEAD_SIZE /\ b.at < PtrOf(b)
           /\ EndOf(b) \in Nat /\ EndOf(b) = PtrOf(b) + b.used + b.free
           /\ PtrOf(b) <= EndOf(b) /\ b.at < EndOf(b)
           /\ EndOf(b) = b.at + VM_HEAD_SIZE + b.used + b.free
BY MemoryAssumption DEF VBlock, PtrOf, EndOf

LEMMA TiledBounds ==
    ASSUME NEW v, Tiled(v), NEW i \in 1 .. Len(v)
    PROVE  /\ v[i] \in VBlock /\ v[i].at >= vmem
           /\ EndOf(v[i]) <= vmem + vsize
<1>1. v \in Seq(VBlock) /\ Len(v) \in Nat /\ 1 \in 1 .. Len(v) /\ Len(v) \in 1 .. Len(v)
  BY DEF Tiled
<1>2. v[1] \in VBlock /\ v[i] \in VBlock /\ v[Len(v)] \in VBlock
  BY <1>1
<1>3. vmem \in Nat /\ vsize \in Nat
  BY Layout
<1>4. v[i].at >= vmem
  <2>1. CASE i = 1
    BY <1>2, <1>3, <2>1 DEF Tiled
  <2>2. CASE i > 1
    <3>1. EndOf(v[1]) <= v[i].at /\ v[1].at = vmem
      BY <1>1, <2>2 DEF Tiled
    <3>2. v[1].at < EndOf(v[1]) /\ EndOf(v[1]) \in Nat
      BY <1>2, BlockNumbers
    <3>3. v[i].at \in Nat
      BY <1>2, BlockNumbers
    <3> QED
      BY <1>3, <3>1, <3>2, <3>3
  <2> QED
    BY <2>1, <2>2
<1>5. EndOf(v[i]) <= vmem + vsize
  <2>1. CASE i = Len(v)
    BY <1>2, <1>3, <2>1, BlockNumbers DEF Tiled
  <2>2. CASE i < Len(v)
    <3>1. EndOf(v[i]) <= v[Len(v)].at /\ EndOf(v[Len(v)]) = vmem + vsize
      BY <1>1, <2>2 DEF Tiled
    <3>2. EndOf(v[i]) \in Nat
      BY <1>2, BlockNumbers
    <3>3. v[Len(v)].at \in Nat /\ v[Len(v)].at < EndOf(v[Len(v)]) /\ EndOf(v[Len(v)]) \in Nat
      BY <1>2, BlockNumbers
    <3> QED
      BY <3>1, <3>2, <3>3
  <2> QED
    BY <1>1, <2>1, <2>2
<1> QED
  BY <1>2, <1>4, <1>5

LEMMA TiledNumbers ==
    ASSUME NEW v, Tiled(v), NEW k \in 1 .. Len(v)
    PROVE  /\ v[k].at \in Nat /\ PtrOf(v[k]) \in Nat /\ EndOf(v[k]) \in Nat
           /\ v[k].at < PtrOf(v[k]) /\ PtrOf(v[k]) <= EndOf(v[k])
<1>1. v[k] \in VBlock
  BY TiledBounds
<1> QED
  BY <1>1, BlockNumbers

LEMMA BlockPtrsDiffer ==
    ASSUME NEW v, Tiled(v), NEW i \in 1 .. Len(v), NEW j \in 1 .. Len(v),
           PtrOf(v[i]) = PtrOf(v[j])
    PROVE  i = j
<1>1. ASSUME NEW m \in 1 .. Len(v), NEW n \in 1 .. Len(v), m < n
      PROVE  PtrOf(v[m]) < PtrOf(v[n])
  <2>1. EndOf(v[m]) <= v[n].at
    BY <1>1 DEF Tiled
  <2>2. v[m] \in VBlock /\ v[n] \in VBlock
    BY TiledBounds
  <2>3. PtrOf(v[m]) \in Nat /\ EndOf(v[m]) \in Nat /\ PtrOf(v[m]) <= EndOf(v[m])
    BY <2>2, BlockNumbers
  <2>4. v[n].at \in Nat /\ PtrOf(v[n]) \in Nat /\ v[n].at < PtrOf(v[n])
    BY <2>2, BlockNumbers
  <2> QED
    BY <2>1, <2>3, <2>4
<1>2. PtrOf(v[i]) \in Nat /\ PtrOf(v[j]) \in Nat
  BY TiledBounds, BlockNumbers
<1> QED
  BY <1>1, <1>2

LEMMA FirstBlock ==
    ASSUME NEW v, Tiled(v)
    PROVE  PtrOf(v[1]) = FirstBytes
BY DEF Tiled, PtrOf, FirstBytes

\* The blocks that callers hold.
Piece(b) == [ptr |-> PtrOf(b), size |-> b.used]
Pieces(v) == {Piece(v[j]) : j \in 2 .. Len(v)}

\* Sizes do not wrap around.
LEMMA AllocIsSum ==
    ASSUME NEW size \in Size
    PROVE  size \in Nat /\ Alloc(size) = size + VM_HEAD_SIZE
<1>1. size \in Nat /\ VM_HEAD_SIZE \in Nat /\ UINT \in Nat
  BY MemoryAssumption
<1>2. size + VM_HEAD_SIZE < UINT
  BY SizeAssumption
<1>3. \A m, n \in Nat : m < n => m % n = m
  OBVIOUS
<1> QED
  BY <1>1, <1>2, <1>3 DEF Alloc

LEMMA SplitBlock ==
    ASSUME NEW x \in VBlock, NEW size \in Size, x.free >= Alloc(size)
    PROVE  LET b   == [x EXCEPT !.free = @ - Alloc(size)]
               new == [at |-> EndOf(x) - Alloc(size), used |-> size, free |-> 0]
           IN  /\ b \in VBlock /\ b.at = x.at /\ b.used = x.used
               /\ new \in VBlock /\ new.used = size
               /\ EndOf(b) = new.at /\ EndOf(new) = EndOf(x)
<1> DEFINE free == x.free - Alloc(size)
           at == EndOf(x) - Alloc(size)
           b == [x EXCEPT !.free = free]
           new == [at |-> at, used |-> size, free |-> 0]
<1>1. /\ x.at \in Nat /\ x.used \in Nat /\ x.free \in Nat /\ VM_HEAD_SIZE \in Nat
      /\ EndOf(x) = x.at + VM_HEAD_SIZE + x.used + x.free
      /\ size \in Nat /\ Alloc(size) = size + VM_HEAD_SIZE
  BY BlockNumbers, MemoryAssumption, AllocIsSum
<1>2. /\ free \in Nat /\ at \in Nat
      /\ at = x.at + VM_HEAD_SIZE + x.used + free
      /\ at + VM_HEAD_SIZE + size = EndOf(x)
  BY <1>1
<1> HIDE DEF free, at
<1>3. b \in VBlock /\ b.at = x.at /\ b.used = x.used /\ b.free = free
  BY <1>2 DEF VBlock
<1>4. new \in VBlock /\ new.at = at /\ new.used = size /\ new.free = 0
  BY <1>1, <1>2 DEF VBlock
<1> HIDE DEF b, new
<1>5. EndOf(b) = b.at + VM_HEAD_SIZE + b.used + b.free
  BY <1>3, BlockNumbers
<1>6. EndOf(new) = new.at + VM_HEAD_SIZE + new.used + new.free
  BY <1>4, BlockNumbers
<1>7. EndOf(b) = new.at
  BY <1>2, <1>3, <1>4, <1>5
<1>8. EndOf(new) = EndOf(x)
  BY <1>1, <1>2, <1>4, <1>6
<1> QED
  BY <1>3, <1>4, <1>7, <1>8 DEF b, new, free, at

LEMMA SplitTiles ==
    ASSUME NEW v, Tiled(v), NEW i \in 1 .. Len(v),
           NEW b \in VBlock, b.at = v[i].at, b.used = v[i].used,
           NEW new \in VBlock, EndOf(b) = new.at, EndOf(new) = EndOf(v[i]),
           NEW w, w = Split(v, i, b, new)
    PROVE  /\ Tiled(w)
           /\ Pieces(w) = Pieces(v) \union {Piece(new)}
           /\ \A j \in 1 .. Len(v) : PtrOf(v[j]) # PtrOf(new)
           /\ PtrOf(new) > vmem
<1>1. /\ v \in Seq(VBlock) /\ Len(v) \in Nat /\ i \in Nat /\ Len(v) >= 1
  BY DEF Tiled
<1>2. /\ w \in Seq(VBlock) /\ Len(w) = Len(v) + 1
      /\ \A j \in 1 .. i - 1 : w[j] = v[j]
      /\ w[i] = b /\ w[i + 1] = new
      /\ \A j \in i + 2 .. Len(v) + 1 : w[j] = v[j - 1]
  <2>1. v \in Seq(VBlock)
    BY <1>1
  <2>2. IsSplit(w, v, i, b, new)
    BY <2>1, SplitElements
  <2> QED
    BY <2>2 DEF IsSplit
<1>3. /\ b.at < new.at /\ PtrOf(b) = PtrOf(v[i])
      /\ new.at \in Nat /\ PtrOf(new) \in Nat /\ new.at < PtrOf(new)
      /\ v[i].at \in Nat /\ v[i].at >= vmem /\ vmem \in Nat
  <2>1. b.at < EndOf(b)
    BY BlockNumbers
  <2>2. PtrOf(b) = PtrOf(v[i])
    BY DEF PtrOf
  <2>3. new.at \in Nat /\ PtrOf(new) \in Nat /\ new.at < PtrOf(new)
    BY BlockNumbers
  <2>4. v[i] \in VBlock /\ v[i].at >= vmem
    BY TiledBounds
  <2>5. v[i].at \in Nat
    BY <2>4, BlockNumbers
  <2> QED
    BY <2>1, <2>2, <2>3, <2>4, <2>5, Layout
<1>4. \A k \in 1 .. Len(v) : /\ v[k].at \in Nat /\ PtrOf(v[k]) \in Nat /\ EndOf(v[k]) \in Nat
                             /\ v[k].at < PtrOf(v[k]) /\ PtrOf(v[k]) <= EndOf(v[k])
  BY TiledNumbers
<1>5. /\ EndOf(b) = new.at /\ EndOf(new) = EndOf(v[i]) /\ PtrOf(new) <= EndOf(new)
      /\ PtrOf(b) <= EndOf(b) /\ EndOf(new) \in Nat
      /\ b.at = v[i].at
  BY BlockNumbers
<1>6. ASSUME NEW m \in 1 .. Len(v), NEW n \in 1 .. Len(v), m < n
      PROVE  EndOf(v[m]) <= v[n].at
  BY <1>6 DEF Tiled
<1>7. \A j \in 1 .. Len(v) : PtrOf(v[j]) # PtrOf(new)
  <2>1. ASSUME NEW j \in 1 .. Len(v), j < i PROVE PtrOf(v[j]) # PtrOf(new)
    <3>1. EndOf(v[j]) <= v[i].at
      BY <1>6, <2>1
    <3> QED
      BY <1>3, <1>4, <1>5, <3>1
  <2>2. PtrOf(v[i]) # PtrOf(new)
    BY <1>3, <1>4, <1>5
  <2>3. ASSUME NEW j \in 1 .. Len(v), i < j PROVE PtrOf(v[j]) # PtrOf(new)
    <3>1. EndOf(v[i]) <= v[j].at
      BY <1>6, <2>3
    <3> QED
      BY <1>3, <1>4, <1>5, <3>1
  <2> QED
    BY <1>1, <2>1, <2>2, <2>3
<1>8. Pieces(w) = Pieces(v) \union {Piece(new)}
  <2>1. Piece(b) = Piece(v[i])
    BY <1>3 DEF Piece
  <2>2. ASSUME NEW k \in 2 .. Len(w) PROVE Piece(w[k]) \in Pieces(v) \union {Piece(new)}
    <3>1. CASE k < i
      BY <1>1, <1>2, <3>1 DEF Pieces
    <3>2. CASE k = i
      BY <1>1, <1>2, <2>1, <3>2 DEF Pieces
    <3>3. CASE k = i + 1
      BY <1>2, <3>3
    <3>4. CASE k > i + 1
      <4>1. k - 1 \in 2 .. Len(v) /\ k \in i + 2 .. Len(v) + 1
        BY <1>1, <1>2, <3>4
      <4>2. w[k] = v[k - 1]
        BY <1>2, <4>1
      <4> QED
        BY <4>1, <4>2 DEF Pieces
    <3> QED
      BY <1>1, <1>2, <3>1, <3>2, <3>3, <3>4
  <2>3. ASSUME NEW k \in 2 .. Len(v) PROVE \E m \in 2 .. Len(w) : Piece(v[k]) = Piece(w[m])
    <3>1. CASE k < i
      BY <1>1, <1>2, <3>1
    <3>2. CASE k = i
      BY <1>1, <1>2, <2>1, <3>2
    <3>3. CASE k > i
      <4>1. k + 1 \in 2 .. Len(w) /\ k + 1 \in i + 2 .. Len(v) + 1 /\ (k + 1) - 1 = k
        BY <1>1, <1>2, <3>3
      <4>2. w[k + 1] = v[k]
        BY <1>2, <4>1
      <4> QED
        BY <4>1, <4>2
    <3> QED
      BY <1>1, <3>1, <3>2, <3>3
  <2>4. i + 1 \in 2 .. Len(w) /\ w[i + 1] = new
    BY <1>1, <1>2
  <2> QED
    BY <2>2, <2>3, <2>4 DEF Pieces
<1>9. w[1].at = vmem /\ w[1].used = 0
  <2>1. CASE i = 1
    BY <1>2, <2>1 DEF Tiled
  <2>2. CASE i > 1
    BY <1>1, <1>2, <2>2 DEF Tiled
  <2> QED
    BY <1>1, <2>1, <2>2
<1>10. EndOf(w[Len(w)]) = vmem + vsize
  <2>1. CASE i = Len(v)
    BY <1>2, <1>5, <2>1 DEF Tiled
  <2>2. CASE i < Len(v)
    <3>1. Len(v) + 1 \in i + 2 .. Len(v) + 1 /\ (Len(v) + 1) - 1 = Len(v)
      BY <1>1, <2>2
    <3>2. w[Len(v) + 1] = v[Len(v)]
      BY <1>2, <3>1
    <3> QED
      BY <1>2, <3>2 DEF Tiled
  <2> QED
    BY <1>1, <2>1, <2>2
<1>11. ASSUME NEW k \in 1 .. Len(w) - 1
       PROVE  EndOf(w[k]) = w[k + 1].at
  <2>1. \A m \in 1 .. Len(v) - 1 : EndOf(v[m]) = v[m + 1].at
    BY DEF Tiled
  <2>2. CASE k < i - 1
    <3>1. k \in 1 .. i - 1 /\ k + 1 \in 1 .. i - 1 /\ k \in 1 .. Len(v) - 1
      BY <1>1, <2>2
    <3> QED
      BY <1>2, <2>1, <3>1
  <2>3. CASE k = i - 1
    <3>1. k \in 1 .. i - 1 /\ k + 1 = i /\ k \in 1 .. Len(v) - 1
      BY <1>1, <2>3
    <3> QED
      BY <1>2, <1>5, <2>1, <3>1
  <2>4. CASE k = i
    BY <1>2, <1>5, <2>4
  <2>5. CASE k = i + 1
    <3>1. i \in 1 .. Len(v) - 1 /\ k + 1 \in i + 2 .. Len(v) + 1 /\ (k + 1) - 1 = i + 1
      BY <1>1, <1>2, <2>5
    <3>2. w[k + 1] = v[i + 1]
      BY <1>2, <3>1
    <3> QED
      BY <1>2, <1>5, <2>1, <2>5, <3>1, <3>2
  <2>6. CASE k > i + 1
    <3>1. /\ k \in i + 2 .. Len(v) + 1 /\ k + 1 \in i + 2 .. Len(v) + 1
          /\ k - 1 \in 1 .. Len(v) - 1 /\ (k + 1) - 1 = (k - 1) + 1
      BY <1>1, <1>2, <2>6
    <3>2. w[k] = v[k - 1] /\ w[k + 1] = v[(k - 1) + 1]
      BY <1>2, <3>1
    <3> QED
      BY <2>1, <3>1, <3>2
  <2> QED
    BY <1>1, <1>2, <2>2, <2>3, <2>4, <2>5, <2>6
<1>12. ASSUME NEW k \in 1 .. Len(w), NEW m \in 1 .. Len(w), k < m
       PROVE  EndOf(w[k]) <= w[m].at
  <2> DEFINE src(n) == IF n <= i THEN n ELSE n - 1
  <2>1. ASSUME NEW n \in 1 .. Len(w)
        PROVE  /\ src(n) \in 1 .. Len(v)
               /\ EndOf(w[n]) \in Nat /\ w[n].at \in Nat
               /\ EndOf(w[n]) <= EndOf(v[src(n)]) /\ v[src(n)].at <= w[n].at
    <3>1. src(n) \in 1 .. Len(v)
      BY <1>1, <1>2
    <3>2. CASE n < i
      BY <1>1, <1>2, <1>4, <3>1, <3>2
    <3>3. CASE n = i
      BY <1>2, <1>3, <1>4, <1>5, <3>1, <3>3
    <3>4. CASE n = i + 1
      <4>1. src(n) = i
        BY <1>1, <3>4
      <4> QED
        BY <1>2, <1>3, <1>4, <1>5, <3>4, <4>1
    <3>5. CASE n > i + 1
      <4>1. src(n) = n - 1 /\ n \in i + 2 .. Len(v) + 1
        BY <1>1, <1>2, <3>5
      <4>2. w[n] = v[src(n)]
        BY <1>2, <4>1
      <4> HIDE DEF src
      <4>3. EndOf(v[src(n)]) \in Nat /\ v[src(n)].at \in Nat
        BY <1>4, <3>1
      <4> QED
        BY <3>1, <4>2, <4>3
    <3> QED
      BY <1>1, <1>2, <3>2, <3>3, <3>4, <3>5
  <2>2. CASE k = i /\ m = i + 1
    BY <1>2, <1>3, <1>5, <2>2
  <2>3. CASE ~(k = i /\ m = i + 1)
    <3>1. src(k) < src(m)
      BY <1>1, <1>2, <1>12, <2>3
    <3>2. EndOf(v[src(k)]) <= v[src(m)].at
      BY <1>6, <2>1, <3>1
    <3>3. EndOf(v[src(k)]) \in Nat /\ v[src(m)].at \in Nat
      BY <1>4, <2>1
    <3> HIDE DEF src
    <3>4. EndOf(w[k]) \in Nat /\ EndOf(w[k]) <= EndOf(v[src(k)])
      BY <2>1
    <3>5. w[m].at \in Nat /\ v[src(m)].at <= w[m].at
      BY <2>1
    <3>6. \A p, q, r, s \in Nat : p <= q /\ q <= r /\ r <= s => p <= s
      OBVIOUS
    <3> QED
      BY <3>2, <3>3, <3>4, <3>5, <3>6
  <2> QED
    BY <2>2, <2>3
<1>13. PtrOf(new) > vmem
  BY <1>3, <1>5
<1>14. Tiled(w)
  BY <1>1, <1>2, <1>9, <1>10, <1>11, <1>12 DEF Tiled
<1> QED
  BY <1>7, <1>8, <1>13, <1>14

LEMMA MergeTiles ==
    ASSUME NEW v, Tiled(v), NEW i \in 2 .. Len(v),
           NEW b \in VBlock, b.at = v[i - 1].at, b.used = v[i - 1].used,
           EndOf(b) = EndOf(v[i]), NEW w, w = Merge(v, i, b)
    PROVE  /\ Tiled(w)
           /\ Pieces(w) = Pieces(v) \ {Piece(v[i])}
<1>1. /\ v \in Seq(VBlock) /\ Len(v) \in Nat /\ i \in Nat /\ Len(v) >= 1
      /\ i - 1 \in 1 .. Len(v)
  BY DEF Tiled
<1>2. /\ w \in Seq(VBlock) /\ Len(w) = Len(v) - 1
      /\ \A j \in 1 .. i - 2 : w[j] = v[j]
      /\ w[i - 1] = b
      /\ \A j \in i .. Len(v) - 1 : w[j] = v[j + 1]
  <2>1. v \in Seq(VBlock)
    BY <1>1
  <2>2. IsMerge(w, v, i, b)
    BY <2>1, MergeElements
  <2> QED
    BY <2>2 DEF IsMerge
<1>3. PtrOf(b) = PtrOf(v[i - 1]) /\ EndOf(b) \in Nat /\ b.at \in Nat
  BY BlockNumbers DEF PtrOf
<1>4. \A k \in 1 .. Len(v) : /\ v[k].at \in Nat /\ PtrOf(v[k]) \in Nat /\ EndOf(v[k]) \in Nat
                             /\ v[k].at < PtrOf(v[k]) /\ PtrOf(v[k]) <= EndOf(v[k])
  BY TiledNumbers
<1>5. ASSUME NEW m \in 1 .. Len(v), NEW n \in 1 .. Len(v), m < n
      PROVE  EndOf(v[m]) <= v[n].at
  BY <1>5 DEF Tiled
<1>6. Piece(b) = Piece(v[i - 1])
  BY <1>3 DEF Piece
<1>7. Pieces(w) = Pieces(v) \ {Piece(v[i])}
  <2>1. ASSUME NEW m \in 1 .. Len(v), m # i PROVE Piece(v[m]) # Piece(v[i])
    <3>1. PtrOf(v[m]) # PtrOf(v[i])
      BY <2>1, BlockPtrsDiffer
    <3> QED
      BY <3>1 DEF Piece
  <2>2. ASSUME NEW k \in 2 .. Len(w)
        PROVE  \E m \in 2 .. Len(v) : m # i /\ Piece(w[k]) = Piece(v[m])
    <3>1. CASE k < i - 1
      <4>1. k \in 1 .. i - 2 /\ k \in 2 .. Len(v) /\ k # i
        BY <1>1, <1>2, <3>1
      <4> QED
        BY <1>2, <4>1
    <3>2. CASE k = i - 1
      <4>1. k \in 2 .. Len(v) /\ k # i /\ w[k] = b
        BY <1>1, <1>2, <3>2
      <4> QED
        BY <1>6, <3>2, <4>1
    <3>3. CASE k > i - 1
      <4>1. k \in i .. Len(v) - 1 /\ k + 1 \in 2 .. Len(v) /\ k + 1 # i
        BY <1>1, <1>2, <3>3
      <4>2. w[k] = v[k + 1]
        BY <1>2, <4>1
      <4> QED
        BY <4>1, <4>2
    <3> QED
      BY <1>1, <3>1, <3>2, <3>3
  <2>3. ASSUME NEW k \in 2 .. Len(v), k # i
        PROVE  \E m \in 2 .. Len(w) : Piece(v[k]) = Piece(w[m])
    <3>1. CASE k < i - 1
      <4>1. k \in 1 .. i - 2 /\ k \in 2 .. Len(w)
        BY <1>1, <1>2, <3>1
      <4> QED
        BY <1>2, <4>1
    <3>2. CASE k = i - 1
      <4>1. k \in 2 .. Len(w) /\ w[k] = b
        BY <1>1, <1>2, <3>2
      <4> QED
        BY <1>6, <3>2, <4>1
    <3>3. CASE k > i
      <4>1. k - 1 \in i .. Len(v) - 1 /\ k - 1 \in 2 .. Len(w) /\ (k - 1) + 1 = k
        BY <1>1, <1>2, <3>3
      <4>2. w[k - 1] = v[k]
        BY <1>2, <4>1
      <4> QED
        BY <4>1, <4>2
    <3> QED
      BY <1>1, <2>3, <3>1, <3>2, <3>3
  <2>4. i \in 1 .. Len(v) /\ 2 .. Len(v) \subseteq 1 .. Len(v)
    BY <1>1
  <2>5. ASSUME NEW p \in Pieces(w) PROVE p \in Pieces(v) /\ p # Piece(v[i])
    <3>1. PICK k \in 2 .. Len(w) : p = Piece(w[k])
      BY DEF Pieces
    <3>2. PICK m \in 2 .. Len(v) : m # i /\ p = Piece(v[m])
      BY <2>2, <3>1
    <3> QED
      BY <2>1, <2>4, <3>2 DEF Pieces
  <2>6. ASSUME NEW p \in Pieces(v), p # Piece(v[i]) PROVE p \in Pieces(w)
    <3>1. PICK k \in 2 .. Len(v) : p = Piece(v[k])
      BY DEF Pieces
    <3>2. PICK m \in 2 .. Len(w) : p = Piece(w[m])
      BY <2>3, <2>6, <3>1
    <3> QED
      BY <3>2 DEF Pieces
  <2> QED
    BY <2>5, <2>6
<1>8. w[1].at = vmem /\ w[1].used = 0
  <2>1. CASE i = 2
    BY <1>1, <1>2, <2>1 DEF Tiled
  <2>2. CASE i > 2
    <3>1. 1 \in 1 .. i - 2
      BY <1>1, <2>2
    <3> QED
      BY <1>2, <3>1 DEF Tiled
  <2> QED
    BY <1>1, <2>1, <2>2
<1>9. EndOf(w[Len(w)]) = vmem + vsize
  <2>1. CASE i = Len(v)
    BY <1>1, <1>2, <2>1 DEF Tiled
  <2>2. CASE i < Len(v)
    <3>1. Len(v) - 1 \in i .. Len(v) - 1 /\ (Len(v) - 1) + 1 = Len(v)
      BY <1>1, <2>2
    <3>2. w[Len(v) - 1] = v[Len(v)]
      BY <1>2, <3>1
    <3> QED
      BY <1>2, <3>2 DEF Tiled
  <2> QED
    BY <1>1, <2>1, <2>2
<1>10. ASSUME NEW k \in 1 .. Len(w) - 1
       PROVE  EndOf(w[k]) = w[k + 1].at
  <2>1. \A m \in 1 .. Len(v) - 1 : EndOf(v[m]) = v[m + 1].at
    BY DEF Tiled
  <2>2. CASE k < i - 2
    <3>1. k \in 1 .. i - 2 /\ k + 1 \in 1 .. i - 2 /\ k \in 1 .. Len(v) - 1
      BY <1>1, <2>2
    <3> QED
      BY <1>2, <2>1, <3>1
  <2>3. CASE k = i - 2
    <3>1. k \in 1 .. i - 2 /\ k + 1 = i - 1 /\ k \in 1 .. Len(v) - 1
      BY <1>1, <2>3
    <3> QED
      BY <1>2, <2>1, <3>1
  <2>4. CASE k = i - 1
    <3>1. k + 1 = i /\ i \in i .. Len(v) - 1 /\ i \in 1 .. Len(v) - 1
      BY <1>1, <1>2, <2>4
    <3>2. w[k] = b /\ w[k + 1] = v[i + 1]
      BY <1>2, <2>4, <3>1
    <3> QED
      BY <2>1, <3>1, <3>2
  <2>5. CASE k > i - 1
    <3>1. /\ k \in i .. Len(v) - 1 /\ k + 1 \in i .. Len(v) - 1
          /\ k + 1 \in 1 .. Len(v) - 1
      BY <1>1, <1>2, <2>5
    <3>2. w[k] = v[k + 1] /\ w[k + 1] = v[(k + 1) + 1]
      BY <1>2, <3>1
    <3> QED
      BY <2>1, <3>1, <3>2
  <2> QED
    BY <1>1, <1>2, <2>2, <2>3, <2>4, <2>5
<1>11. ASSUME NEW k \in 1 .. Len(w), NEW m \in 1 .. Len(w), k < m
       PROVE  EndOf(w[k]) <= w[m].at
  <2> DEFINE from(n) == IF n <= i - 1 THEN n ELSE n + 1
             to(n)   == IF n < i - 1 THEN n ELSE n + 1
  <2>1. ASSUME NEW n \in 1 .. Len(w)
        PROVE  /\ from(n) \in 1 .. Len(v) /\ to(n) \in 1 .. Len(v)
               /\ EndOf(w[n]) = EndOf(v[to(n)]) /\ w[n].at = v[from(n)].at
    <3>1. from(n) \in 1 .. Len(v) /\ to(n) \in 1 .. Len(v)
      BY <1>1, <1>2
    <3>2. CASE n < i - 1
      <4>1. n \in 1 .. i - 2 /\ from(n) = n /\ to(n) = n
        BY <1>1, <3>2
      <4>2. w[n] = v[n]
        BY <1>2, <4>1
      <4> QED
        BY <3>1, <4>1, <4>2
    <3>3. CASE n = i - 1
      <4>1. from(n) = i - 1 /\ to(n) = i /\ w[n] = b
        BY <1>1, <1>2, <3>3
      <4> QED
        BY <3>1, <4>1
    <3>4. CASE n > i - 1
      <4>1. n \in i .. Len(v) - 1 /\ from(n) = n + 1 /\ to(n) = n + 1
        BY <1>1, <1>2, <3>4
      <4>2. w[n] = v[n + 1]
        BY <1>2, <4>1
      <4> QED
        BY <3>1, <4>1, <4>2
    <3> QED
      BY <1>1, <3>2, <3>3, <3>4
  <2>2. to(k) < from(m)
    BY <1>1, <1>2, <1>11
  <2>3. EndOf(v[to(k)]) <= v[from(m)].at
    BY <1>5, <2>1, <2>2
  <2> HIDE DEF from, to
  <2> QED
    BY <2>1, <2>3
<1>12. Tiled(w)
  BY <1>1, <1>2, <1>8, <1>9, <1>10, <1>11 DEF Tiled
<1> QED
  BY <1>7, <1>12

-----------------------------------------------------------------------------
(* The free units *)

Used(i) == node[i] = [ptr |-> UnitPtr(i)]

\* c lists the n free units in the order of their links.
Chain(c, n) ==
    /\ n \in Nat /\ c \in [1 .. n -> Unit]
    /\ \A k, l \in 1 .. n : c[k] = c[l] => k = l
    /\ \A i \in Unit : ~Used(i) => \E k \in 1 .. n : c[k] = i
    /\ \A k \in 1 .. n : node[c[k]] = Next(IF k = n THEN max ELSE c[k + 1])
    /\ first = IF n = 0 THEN max ELSE c[1]

UnitsLinked == node \in [Unit -> NodeValue] /\ \E n, c : Chain(c, n)

LEMMA ChainIsFree ==
    ASSUME NEW c, NEW n, Chain(c, n), NEW k \in 1 .. n
    PROVE  c[k] \in Unit /\ ~Used(c[k])
BY NodesDiffer DEF Chain, Used

LEMMA InitLinked ==
    ASSUME MemModInit
    PROVE  UnitsLinked /\ \A i \in Unit : ~Used(i)
<1> DEFINE c == [k \in 1 .. max |-> k - 1]
<1>1. max \in Nat \ {0} /\ Unit = 0 .. max - 1
  BY Layout DEF Unit
<1>2. \A i \in Unit : node[i] = Next(i + 1) /\ i + 1 \in Unit \union {max}
  BY <1>1 DEF MemModInit
<1>3. node \in [Unit -> NodeValue]
  BY <1>2 DEF MemModInit, NodeValue, Next
<1>4. \A i \in Unit : ~Used(i)
  BY <1>2, NodesDiffer DEF Used
<1>5. c \in [1 .. max -> Unit] /\ \A k \in 1 .. max : c[k] = k - 1
  BY <1>1
<1> HIDE DEF c
<1>6. \A k, l \in 1 .. max : c[k] = c[l] => k = l
  BY <1>1, <1>5
<1>7. \A i \in Unit : i + 1 \in 1 .. max /\ c[i + 1] = i
  BY <1>1, <1>5
<1>8. ASSUME NEW k \in 1 .. max
      PROVE  node[c[k]] = Next(IF k = max THEN max ELSE c[k + 1])
  <2>1. k - 1 \in Unit /\ (k - 1) + 1 = k
    BY <1>1
  <2>2. node[c[k]] = Next(k)
    BY <1>2, <1>5, <2>1
  <2>3. k # max => k + 1 \in 1 .. max /\ (k + 1) - 1 = k
    BY <1>1
  <2> QED
    BY <1>5, <2>2, <2>3
<1>9. first = c[1] /\ max # 0
  BY <1>1, <1>5 DEF MemModInit
<1>10. Chain(c, max)
  BY <1>1, <1>5, <1>6, <1>7, <1>8, <1>9 DEF Chain
<1> QED
  BY <1>3, <1>4, <1>10 DEF UnitsLinked

\* Taking the first free unit leaves the rest of the chain.
LEMMA TakeUnit ==
    ASSUME UnitsLinked, first # max,
           first' = node[first].next,
           node' = [node EXCEPT ![first] = [ptr |-> UnitPtr(first)]]
    PROVE  /\ UnitsLinked' /\ first \in Unit /\ ~Used(first)
           /\ \A i \in Unit : Used(i)' <=> Used(i) \/ i = first
<1>1. node \in [Unit -> NodeValue]
  BY DEF UnitsLinked
<1>2. PICK n, c : Chain(c, n)
  BY DEF UnitsLinked
<1>3. n \in Nat \ {0} /\ 1 \in 1 .. n /\ first = c[1] /\ c \in [1 .. n -> Unit]
  BY <1>2 DEF Chain
<1>4. first \in Unit /\ ~Used(first)
  BY <1>2, <1>3, ChainIsFree
<1>5. \A i \in Unit : node'[i] = IF i = first THEN [ptr |-> UnitPtr(first)] ELSE node[i]
  BY <1>1, <1>4
<1>6. node' \in [Unit -> NodeValue]
  BY <1>1, <1>4, UnitAt DEF NodeValue
<1>7. \A i \in Unit : Used(i)' <=> Used(i) \/ i = first
  BY <1>4, <1>5 DEF Used
<1> DEFINE d == [k \in 1 .. n - 1 |-> c[k + 1]]
<1>8. \A k \in 1 .. n - 1 : /\ k + 1 \in 1 .. n /\ d[k] = c[k + 1]
                            /\ d[k] \in Unit /\ d[k] # first
  <2>1. ASSUME NEW k \in 1 .. n - 1
        PROVE  /\ k + 1 \in 1 .. n /\ d[k] = c[k + 1]
               /\ d[k] \in Unit /\ d[k] # first
    <3>1. k + 1 \in 1 .. n /\ k + 1 # 1
      BY <1>3
    <3>2. c[k + 1] # c[1]
      BY <1>2, <1>3, <3>1 DEF Chain
    <3> QED
      BY <1>3, <3>1, <3>2
  <2> QED
    BY <2>1
<1>9. d \in [1 .. n - 1 -> Unit]
  BY <1>8
<1> HIDE DEF d
<1>10. ASSUME NEW k \in 1 .. n - 1, NEW l \in 1 .. n - 1, d[k] = d[l]
       PROVE  k = l
  <2>1. k + 1 = l + 1
    BY <1>2, <1>8, <1>10 DEF Chain
  <2> QED
    BY <2>1
<1>11. ASSUME NEW i \in Unit, ~Used(i)'
       PROVE  \E k \in 1 .. n - 1 : d[k] = i
  <2>1. ~Used(i) /\ i # first
    BY <1>7, <1>11
  <2>2. PICK k \in 1 .. n : c[k] = i
    BY <1>2, <2>1 DEF Chain
  <2>3. k - 1 \in 1 .. n - 1 /\ (k - 1) + 1 = k
    BY <1>3, <2>1, <2>2
  <2> QED
    BY <1>8, <2>2, <2>3
<1>12. ASSUME NEW k \in 1 .. n - 1
       PROVE  node'[d[k]] = Next(IF k = n - 1 THEN max ELSE d[k + 1])
  <2>1. node'[d[k]] = node[c[k + 1]]
    BY <1>5, <1>8
  <2>2. node[c[k + 1]] = Next(IF k + 1 = n THEN max ELSE c[(k + 1) + 1])
    BY <1>2, <1>8 DEF Chain
  <2>3. k # n - 1 => k + 1 \in 1 .. n - 1
    BY <1>3
  <2>4. k + 1 = n <=> k = n - 1
    BY <1>3
  <2> QED
    BY <1>8, <2>1, <2>2, <2>3, <2>4
<1>13. first' = IF n - 1 = 0 THEN max ELSE d[1]
  <2>1. node[first] = Next(IF 1 = n THEN max ELSE c[1 + 1])
    BY <1>2, <1>3 DEF Chain
  <2>2. first' = IF 1 = n THEN max ELSE c[1 + 1]
    BY <2>1 DEF Next
  <2>3. n # 1 => 1 \in 1 .. n - 1
    BY <1>3
  <2> QED
    BY <1>3, <1>8, <2>2, <2>3
<1>14. Chain(d, n - 1)'
  BY <1>3, <1>9, <1>10, <1>11, <1>12, <1>13 DEF Chain
<1> QED
  BY <1>4, <1>6, <1>7, <1>14 DEF UnitsLinked

\* A unit that is given back becomes the first of the chain.
LEMMA ReturnUnit ==
    ASSUME UnitsLinked, NEW u \in Unit, Used(u),
           first' = u, node' = [node EXCEPT ![u] = Next(first)]
    PROVE  /\ UnitsLinked'
           /\ \A i \in Unit : Used(i)' <=> Used(i) /\ i # u
<1>1. node \in [Unit -> NodeValue]
  BY DEF UnitsLinked
<1>2. PICK n, c : Chain(c, n)
  BY DEF UnitsLinked
<1>3. n \in Nat /\ c \in [1 .. n -> Unit] /\ first = IF n = 0 THEN max ELSE c[1]
  BY <1>2 DEF Chain
<1>4. first \in Unit \union {max}
  BY <1>3
<1>5. \A i \in Unit : node'[i] = IF i = u THEN Next(first) ELSE node[i]
  BY <1>1
<1>6. node' \in [Unit -> NodeValue]
  BY <1>1, <1>4 DEF NodeValue, Next
<1>7. \A i \in Unit : Used(i)' <=> Used(i) /\ i # u
  BY <1>5, NodesDiffer DEF Used
<1> DEFINE d == [k \in 1 .. n + 1 |-> IF k = 1 THEN u ELSE c[k - 1]]
<1>8. d[1] = u
  BY <1>3
<1>9. \A k \in 1 .. n + 1 : k # 1 => /\ k - 1 \in 1 .. n /\ d[k] = c[k - 1]
                                     /\ d[k] \in Unit /\ d[k] # u
  <2>1. ASSUME NEW k \in 1 .. n + 1, k # 1
        PROVE  /\ k - 1 \in 1 .. n /\ d[k] = c[k - 1]
               /\ d[k] \in Unit /\ d[k] # u
    <3>1. k - 1 \in 1 .. n /\ d[k] = c[k - 1]
      BY <1>3, <2>1
    <3>2. c[k - 1] \in Unit /\ ~Used(c[k - 1])
      BY <1>2, <3>1, ChainIsFree
    <3> HIDE DEF d
    <3> QED
      BY <3>1, <3>2
  <2> QED
    BY <2>1
<1>10. d \in [1 .. n + 1 -> Unit]
  BY <1>3
<1> HIDE DEF d
<1>11. ASSUME NEW k \in 1 .. n + 1, NEW l \in 1 .. n + 1, d[k] = d[l]
       PROVE  k = l
  <2>1. CASE k = 1 \/ l = 1
    BY <1>8, <1>9, <1>11, <2>1
  <2>2. CASE k # 1 /\ l # 1
    <3>1. k - 1 = l - 1
      BY <1>2, <1>9, <1>11, <2>2 DEF Chain
    <3> QED
      BY <1>3, <3>1
  <2> QED
    BY <2>1, <2>2
<1>12. ASSUME NEW i \in Unit, ~Used(i)'
       PROVE  \E k \in 1 .. n + 1 : d[k] = i
  <2>1. CASE i = u
    BY <1>3, <1>8, <2>1
  <2>2. CASE i # u
    <3>1. PICK k \in 1 .. n : c[k] = i
      BY <1>2, <1>7, <1>12, <2>2 DEF Chain
    <3>2. k + 1 \in 1 .. n + 1 /\ k + 1 # 1 /\ (k + 1) - 1 = k
      BY <1>3
    <3> QED
      BY <1>9, <3>1, <3>2
  <2> QED
    BY <2>1, <2>2
<1>13. ASSUME NEW k \in 1 .. n + 1
       PROVE  node'[d[k]] = Next(IF k = n + 1 THEN max ELSE d[k + 1])
  <2>1. CASE k = 1
    <3>1. node'[d[k]] = Next(first)
      BY <1>5, <1>8, <2>1
    <3>2. CASE n = 0
      BY <1>3, <2>1, <3>1, <3>2
    <3>3. CASE n # 0
      <4>1. 2 \in 1 .. n + 1 /\ 2 # 1 /\ 2 - 1 = 1 /\ k + 1 = 2 /\ k # n + 1
        BY <1>3, <2>1, <3>3
      <4>2. d[2] = c[1]
        BY <1>9, <4>1
      <4> QED
        BY <1>3, <3>1, <3>3, <4>1, <4>2
    <3> QED
      BY <3>2, <3>3
  <2>2. CASE k # 1
    <3>1. node'[d[k]] = node[c[k - 1]]
      BY <1>5, <1>9, <2>2
    <3>2. k - 1 \in 1 .. n /\ (k - 1 = n <=> k = n + 1) /\ (k - 1) + 1 = k
      BY <1>3, <2>2
    <3>3. node[c[k - 1]] = Next(IF k - 1 = n THEN max ELSE c[(k - 1) + 1])
      BY <1>2, <3>2 DEF Chain
    <3>4. k # n + 1 => k + 1 \in 1 .. n + 1 /\ k + 1 # 1 /\ (k + 1) - 1 = k
      BY <1>3
    <3>5. k # n + 1 => d[k + 1] = c[k]
      BY <1>9, <3>4
    <3> QED
      BY <3>1, <3>2, <3>3, <3>5
  <2> QED
    BY <2>1, <2>2
<1>14. n + 1 \in Nat /\ n + 1 # 0
  BY <1>3
<1>15. Chain(d, n + 1)'
  BY <1>8, <1>10, <1>11, <1>12, <1>13, <1>14 DEF Chain
<1> QED
  BY <1>6, <1>7, <1>15 DEF UnitsLinked

-----------------------------------------------------------------------------
(* The invariant *)

UnitPiece(a) == \E i \in Unit : /\ Used(i) /\ a.ptr = UnitPtr(i)
                                /\ a.size <= FM_ALLOC_SIZE

\* What callers hold are used units and blocks, each of them once.
Held ==
    /\ live \subseteq [ptr : Nat, size : Nat]
    /\ Pieces(vlist) \subseteq live
    /\ \A a \in live : a \in Pieces(vlist) \/ UnitPiece(a)
    /\ \A i \in Unit : Used(i) => \E a \in live : a.ptr = UnitPtr(i)
    /\ \A a, b \in live : a.ptr = b.ptr => a = b

MemInv == UnitsLinked /\ Tiled(vlist) /\ Held

LEMMA PieceAt ==
    ASSUME NEW v, Tiled(v), NEW a \in Pieces(v)
    PROVE  \E j \in 2 .. Len(v) : j \in 1 .. Len(v) /\ a = Piece(v[j])
                                  /\ a.ptr = PtrOf(v[j]) /\ a.size = v[j].used
<1>1. PICK j \in 2 .. Len(v) : a = Piece(v[j])
  BY DEF Pieces
<1>2. j \in 1 .. Len(v)
  BY DEF Tiled
<1> QED
  BY <1>1, <1>2 DEF Piece

\* The address of a block is behind all units.
LEMMA PieceBehindUnits ==
    ASSUME NEW v, Tiled(v), NEW a \in Pieces(v)
    PROVE  a.ptr \in Nat /\ a.ptr > vmem /\ \A i \in Unit : a.ptr # UnitPtr(i)
<1>1. PICK j \in 1 .. Len(v) : a.ptr = PtrOf(v[j])
  BY PieceAt
<1>2. v[j].at >= vmem /\ v[j].at < PtrOf(v[j]) /\ v[j].at \in Nat /\ PtrOf(v[j]) \in Nat
  BY TiledBounds, TiledNumbers
<1>3. vmem \in Nat
  BY Layout
<1>4. a.ptr \in Nat /\ a.ptr > vmem
  BY <1>1, <1>2, <1>3
<1>5. ASSUME NEW i \in Unit PROVE a.ptr # UnitPtr(i)
  <2>1. UnitPtr(i) \in Nat /\ UnitPtr(i) + FM_ALLOC_SIZE <= vmem
    BY UnitAt
  <2> QED
    BY <1>3, <1>4, <2>1, MemoryAssumption
<1> QED
  BY <1>4, <1>5

\* Nobody holds the address of a free unit.
LEMMA FreeUnitHeldByNone ==
    ASSUME MemInv, NEW i \in Unit, ~Used(i), NEW a \in live
    PROVE  a.ptr # UnitPtr(i)
<1>1. a \in Pieces(vlist) \/ UnitPiece(a)
  BY DEF MemInv, Held
<1>2. CASE a \in Pieces(vlist)
  BY <1>2, PieceBehindUnits DEF MemInv
<1>3. CASE UnitPiece(a)
  BY <1>3, UnitPtrsDiffer DEF UnitPiece
<1> QED
  BY <1>1, <1>2, <1>3

LEMMA MemInvInit ==
    ASSUME MemModInit
    PROVE  MemInv
<1> DEFINE b == [at |-> vmem, used |-> 0, free |-> vsize - VM_HEAD_SIZE]
<1>1. vmem \in Nat /\ vsize \in Nat /\ VM_HEAD_SIZE \in Nat /\ vsize - VM_HEAD_SIZE \in Nat
  BY Layout, MemoryAssumption
<1>2. b \in VBlock /\ b.at = vmem /\ b.used = 0 /\ b.free = vsize - VM_HEAD_SIZE
  BY <1>1 DEF VBlock
<1>3. EndOf(b) = vmem + vsize
  BY <1>1, <1>2, BlockNumbers
<1>4. vlist = << b >> /\ live = {}
  BY DEF MemModInit
<1> HIDE DEF b
<1>5. /\ vlist \in Seq(VBlock) /\ Len(vlist) = 1 /\ vlist[1] = b
  BY <1>2, <1>4
<1>6. Tiled(vlist)
  BY <1>2, <1>3, <1>5 DEF Tiled
<1>7. Pieces(vlist) = {}
  BY <1>5 DEF Pieces
<1>8. UnitsLinked /\ \A i \in Unit : ~Used(i)
  BY InitLinked
<1>9. Held
  BY <1>4, <1>7, <1>8 DEF Held
<1> QED
  BY <1>6, <1>8, <1>9 DEF MemInv

-----------------------------------------------------------------------------
(* Steps *)

LEMMA FMemAllocKeeps ==
    ASSUME MemInv, NEW size \in Nat, size <= FM_ALLOC_SIZE, FMemAlloc(size)
    PROVE  MemInv' /\ live' # live
<1> DEFINE new == [ptr |-> UnitPtr(first), size |-> size]
<1>1. /\ first # max /\ first' = node[first].next
      /\ node' = [node EXCEPT ![first] = [ptr |-> UnitPtr(first)]]
      /\ live' = live \union {new} /\ vlist' = vlist
  BY DEF FMemAlloc, Hold
<1>2. /\ UnitsLinked' /\ first \in Unit /\ ~Used(first)
      /\ \A i \in Unit : Used(i)' <=> Used(i) \/ i = first
  BY <1>1, TakeUnit DEF MemInv
<1>3. new \in [ptr : Nat, size : Nat] /\ new.ptr = UnitPtr(first) /\ new.size = size
  BY <1>2, UnitAt
<1> HIDE DEF new
<1>4. \A a \in live : a.ptr # UnitPtr(first)
  BY <1>2, FreeUnitHeldByNone
<1>5. Held'
  <2>1. live' \subseteq [ptr : Nat, size : Nat]
    BY <1>1, <1>3 DEF MemInv, Held
  <2>2. Pieces(vlist') \subseteq live'
    BY <1>1 DEF MemInv, Held
  <2>3. ASSUME NEW a \in live' PROVE a \in Pieces(vlist') \/ UnitPiece(a)'
    <3>1. CASE a \in live
      BY <1>1, <1>2, <3>1 DEF MemInv, Held, UnitPiece
    <3>2. CASE a = new
      BY <1>2, <1>3, <3>2 DEF UnitPiece
    <3> QED
      BY <1>1, <3>1, <3>2
  <2>4. ASSUME NEW i \in Unit, Used(i)' PROVE \E a \in live' : a.ptr = UnitPtr(i)
    BY <1>1, <1>2, <1>3, <2>4 DEF MemInv, Held
  <2>5. \A a, b \in live' : a.ptr = b.ptr => a = b
    BY <1>1, <1>3, <1>4 DEF MemInv, Held
  <2> QED
    BY <2>1, <2>2, <2>3, <2>4, <2>5 DEF Held
<1>6. Tiled(vlist)'
  BY <1>1 DEF MemInv, Tiled
<1>7. live' # live
  BY <1>1, <1>3, <1>4
<1> QED
  BY <1>2, <1>5, <1>6, <1>7 DEF MemInv

LEMMA UsedUnchanged ==
    ASSUME node' = node
    PROVE  /\ \A i : Used(i)' <=> Used(i)
           /\ \A a : UnitPiece(a)' <=> UnitPiece(a)
BY DEF Used, UnitPiece

LEMMA LinkedUnchanged ==
    ASSUME node' = node, first' = first, UnitsLinked
    PROVE  UnitsLinked'
<1>1. PICK n, c : Chain(c, n)
  BY DEF UnitsLinked
<1>2. Chain(c, n)'
  <2>1. \A i : Used(i)' <=> Used(i)
    BY UsedUnchanged
  <2>2. \A i \in Unit : ~Used(i)' => \E k \in 1 .. n : c[k] = i
    BY <1>1, <2>1 DEF Chain
  <2> QED
    BY <1>1, <2>2 DEF Chain
<1> QED
  BY <1>2 DEF UnitsLinked

LEMMA VMemAllocKeeps ==
    ASSUME MemInv, NEW size \in Size, NEW i \in 1 .. Len(vlist), Fits(i, size),
           VMemAlloc(i, size), UNCHANGED << node, first >>
    PROVE  MemInv' /\ live' # live
<1> DEFINE x   == vlist[i]
           b   == [x EXCEPT !.free = @ - Alloc(size)]
           new == [at |-> EndOf(x) - Alloc(size), used |-> size, free |-> 0]
<1>1. Tiled(vlist) /\ x \in VBlock
  BY TiledBounds DEF MemInv
<1>2. /\ b \in VBlock /\ b.at = x.at /\ b.used = x.used
      /\ new \in VBlock /\ new.used = size
      /\ EndOf(b) = new.at /\ EndOf(new) = EndOf(x)
  <2>1. x.free >= Alloc(size)
    BY DEF Fits
  <2> HIDE DEF x
  <2> QED
    BY <1>1, <2>1, SplitBlock
<1>3. vlist' = Split(vlist, i, b, new) /\ live' = live \union {[ptr |-> PtrOf(new), size |-> size]}
  BY DEF VMemAlloc, Hold, Split
<1> HIDE DEF b, new
<1>4. live' = live \union {Piece(new)}
  BY <1>2, <1>3 DEF Piece
<1>5. /\ Tiled(vlist')
      /\ Pieces(vlist') = Pieces(vlist) \union {Piece(new)}
      /\ \A j \in 1 .. Len(vlist) : PtrOf(vlist[j]) # PtrOf(new)
      /\ PtrOf(new) > vmem
  BY <1>1, <1>2, <1>3, SplitTiles
<1>6. PtrOf(new) \in Nat /\ Piece(new).ptr = PtrOf(new) /\ Piece(new).size = size
  BY <1>2, BlockNumbers DEF Piece
<1>7. ASSUME NEW a \in live PROVE a.ptr # PtrOf(new)
  <2>1. a \in Pieces(vlist) \/ UnitPiece(a)
    BY DEF MemInv, Held
  <2>2. CASE a \in Pieces(vlist)
    <3>1. PICK j \in 1 .. Len(vlist) : a.ptr = PtrOf(vlist[j])
      BY <1>1, <2>2, PieceAt
    <3> QED
      BY <1>5, <3>1
  <2>3. CASE UnitPiece(a)
    <3>1. PICK k \in Unit : a.ptr = UnitPtr(k)
      BY <2>3 DEF UnitPiece
    <3>2. Piece(new) \in Pieces(vlist')
      BY <1>5
    <3> QED
      BY <1>5, <1>6, <3>1, <3>2, PieceBehindUnits
  <2> QED
    BY <2>1, <2>2, <2>3
<1>8. Piece(new) \in [ptr : Nat, size : Nat]
  BY <1>2, <1>6, AllocIsSum DEF Piece
<1>9. Held'
  <2>1. live' \subseteq [ptr : Nat, size : Nat]
    BY <1>4, <1>8 DEF MemInv, Held
  <2>2. Pieces(vlist') \subseteq live'
    BY <1>4, <1>5 DEF MemInv, Held
  <2>3. \A a \in live' : a \in Pieces(vlist') \/ UnitPiece(a)'
    BY <1>4, <1>5, UsedUnchanged DEF MemInv, Held
  <2>4. \A k \in Unit : Used(k)' => \E a \in live' : a.ptr = UnitPtr(k)
    BY <1>4, UsedUnchanged DEF MemInv, Held
  <2>5. \A a, c \in live' : a.ptr = c.ptr => a = c
    BY <1>4, <1>6, <1>7 DEF MemInv, Held
  <2> QED
    BY <2>1, <2>2, <2>3, <2>4, <2>5 DEF Held
<1>10. UnitsLinked'
  BY LinkedUnchanged DEF MemInv
<1>11. live' # live
  BY <1>4, <1>6, <1>7
<1> QED
  BY <1>5, <1>9, <1>10, <1>11 DEF MemInv

LEMMA NothingChanges ==
    ASSUME MemInv, UNCHANGED memVars
    PROVE  MemInv'
<1>1. node' = node /\ first' = first /\ vlist' = vlist /\ live' = live
  BY DEF memVars
<1>2. UnitsLinked' /\ Tiled(vlist)'
  BY <1>1, LinkedUnchanged DEF MemInv
<1>3. Held'
  <2>1. /\ \A i : Used(i)' <=> Used(i)
        /\ \A a : UnitPiece(a)' <=> UnitPiece(a)
    BY <1>1, UsedUnchanged
  <2> QED
    BY <1>1, <2>1 DEF MemInv, Held
<1> QED
  BY <1>2, <1>3 DEF MemInv

\* FMemFree takes exactly the addresses of used units.
LEMMA UnitPtrsFound ==
    ASSUME MemInv, NEW ptr \in Address
    PROVE  /\ IsUnitPtr(ptr) =>
                 LET index == (ptr - ubase) \div FM_ALLOC_SIZE
                 IN  index \in Unit /\ Used(index) /\ ptr = UnitPtr(index)
           /\ \A i \in Unit : Used(i) /\ ptr = UnitPtr(i) => IsUnitPtr(ptr)
<1> DEFINE index == (ptr - ubase) \div FM_ALLOC_SIZE
<1>1. /\ FM_ALLOC_SIZE \in Nat \ {0} /\ ptr \in Nat /\ ubase \in Nat /\ max \in Nat
  BY Layout, MemoryAssumption DEF Address
<1>2. ASSUME IsUnitPtr(ptr)
      PROVE  index \in Unit /\ Used(index) /\ ptr = UnitPtr(index)
  <2>1. ptr >= ubase /\ index < max /\ node[index] = [ptr |-> ptr]
    BY <1>2 DEF IsUnitPtr
  <2>2. index \in Nat
    <3>1. ptr - ubase \in Nat
      BY <1>1, <2>1
    <3> DEFINE z == ptr - ubase
    <3> HIDE DEF z
    <3>2. z \in Nat => z \div FM_ALLOC_SIZE \in Nat
      BY <1>1
    <3> QED
      BY <3>1, <3>2 DEF z
  <2> HIDE DEF index
  <2>3. index \in Unit
    BY <1>1, <2>1, <2>2 DEF Unit
  <2>4. Used(index)
    <3>1. SUFFICES ASSUME ~Used(index) PROVE FALSE
      OBVIOUS
    <3>2. PICK n, c : Chain(c, n)
      BY DEF MemInv, UnitsLinked
    <3>3. PICK k \in 1 .. n : c[k] = index
      BY <2>3, <3>1, <3>2 DEF Chain
    <3>4. node[index] = Next(IF k = n THEN max ELSE c[k + 1])
      BY <3>2, <3>3 DEF Chain
    <3> QED
      BY <2>1, <3>4, NodesDiffer
  <2>5. [ptr |-> ptr] = [ptr |-> UnitPtr(index)]
    BY <2>1, <2>4 DEF Used
  <2>6. [ptr |-> ptr].ptr = ptr /\ [ptr |-> UnitPtr(index)].ptr = UnitPtr(index)
    OBVIOUS
  <2>7. ptr = UnitPtr(index)
    BY <2>5, <2>6
  <2> QED
    BY <2>3, <2>4, <2>7
<1>3. ASSUME NEW i \in Unit, Used(i), ptr = UnitPtr(i)
      PROVE  IsUnitPtr(ptr)
  <2>1. i < max /\ UnitPtr(i) >= ubase /\ index = i
    BY <1>3, UnitAt
  <2>2. node[i] = [ptr |-> ptr]
    BY <1>3 DEF Used
  <2> QED
    BY <1>3, <2>1, <2>2 DEF IsUnitPtr
<1> QED
  BY <1>2, <1>3

LEMMA FMemFreeKeeps ==
    ASSUME MemInv, NEW ptr \in Address, IsUnitPtr(ptr), FMemFree(ptr),
           live' = {a \in live : a.ptr # ptr}
    PROVE  MemInv' /\ live' # live
<1> DEFINE u == (ptr - ubase) \div FM_ALLOC_SIZE
<1>1. u \in Unit /\ Used(u) /\ ptr = UnitPtr(u)
  BY UnitPtrsFound
<1>2. node' = [node EXCEPT ![u] = Next(first)] /\ first' = u /\ vlist' = vlist
  BY DEF FMemFree
<1> HIDE DEF u
<1>3. /\ UnitsLinked'
      /\ \A i \in Unit : Used(i)' <=> Used(i) /\ i # u
  BY <1>1, <1>2, ReturnUnit DEF MemInv
<1>4. Held'
  <2>1. live' \subseteq [ptr : Nat, size : Nat]
    BY DEF MemInv, Held
  <2>2. Pieces(vlist') \subseteq live'
    <3>1. \A a \in Pieces(vlist) : a.ptr # ptr
      BY <1>1, PieceBehindUnits DEF MemInv
    <3> QED
      BY <1>2, <3>1 DEF MemInv, Held
  <2>3. ASSUME NEW a \in live' PROVE a \in Pieces(vlist') \/ UnitPiece(a)'
    <3>1. a \in live /\ a.ptr # ptr
      OBVIOUS
    <3>2. CASE UnitPiece(a)
      <4>1. PICK i \in Unit : Used(i) /\ a.ptr = UnitPtr(i) /\ a.size <= FM_ALLOC_SIZE
        BY <3>2 DEF UnitPiece
      <4>2. Used(i)'
        BY <1>1, <1>3, <3>1, <4>1
      <4> QED
        BY <4>1, <4>2 DEF UnitPiece
    <3> QED
      BY <1>2, <3>1, <3>2 DEF MemInv, Held
  <2>4. ASSUME NEW i \in Unit, Used(i)' PROVE \E a \in live' : a.ptr = UnitPtr(i)
    <3>1. Used(i) /\ i # u
      BY <1>3, <2>4
    <3>2. PICK a \in live : a.ptr = UnitPtr(i)
      BY <3>1 DEF MemInv, Held
    <3>3. UnitPtr(i) # ptr
      BY <1>1, <3>1, UnitPtrsDiffer
    <3> QED
      BY <3>2, <3>3
  <2>5. \A a, b \in live' : a.ptr = b.ptr => a = b
    BY DEF MemInv, Held
  <2> QED
    BY <2>1, <2>2, <2>3, <2>4, <2>5 DEF Held
<1>5. live' # live
  <2>1. PICK a \in live : a.ptr = ptr
    BY <1>1 DEF MemInv, Held
  <2> QED
    BY <2>1
<1>6. Tiled(vlist)'
  BY <1>2 DEF MemInv
<1> QED
  BY <1>3, <1>4, <1>5, <1>6 DEF MemInv

\* The block before a freed one takes its room, and its end.
LEMMA MergedBlock ==
    ASSUME NEW v, Tiled(v), NEW i \in 2 .. Len(v)
    PROVE  LET room == v[i].used + v[i].free + VM_HEAD_SIZE
               b    == [v[i - 1] EXCEPT !.free = @ + room]
           IN  /\ b \in VBlock /\ b.at = v[i - 1].at /\ b.used = v[i - 1].used
               /\ EndOf(b) = EndOf(v[i])
<1> DEFINE x == v[i - 1]
           y == v[i]
           room == y.used + y.free + VM_HEAD_SIZE
           free == x.free + room
           b == [x EXCEPT !.free = free]
<1>1. i - 1 \in 1 .. Len(v) /\ i \in 1 .. Len(v) /\ i - 1 \in 1 .. Len(v) - 1 /\ (i - 1) + 1 = i
  BY DEF Tiled
<1>2. EndOf(x) = y.at
  BY <1>1 DEF Tiled
<1>3. x \in VBlock /\ y \in VBlock
  BY <1>1, TiledBounds
<1> HIDE DEF x, y
<1>4. /\ x.at \in Nat /\ x.used \in Nat /\ x.free \in Nat
      /\ EndOf(x) = x.at + VM_HEAD_SIZE + x.used + x.free
  BY <1>3, BlockNumbers
<1>5. /\ y.at \in Nat /\ y.used \in Nat /\ y.free \in Nat
      /\ EndOf(y) = y.at + VM_HEAD_SIZE + y.used + y.free
  BY <1>3, BlockNumbers
<1>6. VM_HEAD_SIZE \in Nat
  BY MemoryAssumption
<1>7. /\ free \in Nat
      /\ x.at + VM_HEAD_SIZE + x.used + free = EndOf(y)
  <2>1. /\ room \in Nat /\ EndOf(y) = y.at + room
        /\ EndOf(y) = EndOf(x) + room
    BY <1>2, <1>5, <1>6
  <2>2. free = x.free + room
    OBVIOUS
  <2>3. \A a, h, u, f, r, e \in Nat : e = a + h + u + f => a + h + u + (f + r) = e + r
    OBVIOUS
  <2>4. x.at + VM_HEAD_SIZE + x.used + (x.free + room) = EndOf(x) + room
    <3> HIDE DEF room
    <3>1. EndOf(x) \in Nat
      BY <1>4, <1>6
    <3> QED
      BY <1>4, <1>6, <2>1, <2>3, <3>1
  <2> HIDE DEF room
  <2>5. x.free + room \in Nat
    BY <1>4, <2>1
  <2> QED
    BY <2>1, <2>2, <2>4, <2>5
<1> HIDE DEF free
<1>8. b \in VBlock /\ b.at = x.at /\ b.used = x.used /\ b.free = free
  BY <1>3, <1>7 DEF VBlock
<1> HIDE DEF b
<1>9. EndOf(b) = b.at + VM_HEAD_SIZE + b.used + b.free
  BY <1>8, BlockNumbers
<1>10. EndOf(b) = EndOf(y)
  BY <1>7, <1>8, <1>9
<1> QED
  BY <1>8, <1>10 DEF b, free, x, y

LEMMA VMemFreeKeeps ==
    ASSUME MemInv, NEW ptr \in Address, ptr # FirstBytes, IsBlockPtr(ptr),
           VMemFree(ptr), live' = {a \in live : a.ptr # ptr}
    PROVE  MemInv' /\ live' # live
<1> DEFINE i    == CHOOSE i \in 1 .. Len(vlist) : PtrOf(vlist[i]) = ptr
           room == vlist[i].used + vlist[i].free + VM_HEAD_SIZE
           b    == [vlist[i - 1] EXCEPT !.free = @ + room]
<1>1. Tiled(vlist)
  BY DEF MemInv
<1>2. /\ vlist' = IF i = 1 THEN Tail(vlist) ELSE Merge(vlist, i, b)
      /\ node' = node /\ first' = first
  BY DEF VMemFree, Merge
<1>3. i \in 1 .. Len(vlist) /\ PtrOf(vlist[i]) = ptr
  BY DEF IsBlockPtr
<1> HIDE DEF i
<1>4. i \in 2 .. Len(vlist)
  <2>1. i # 1
    BY <1>1, <1>3, FirstBlock
  <2> QED
    BY <1>1, <1>3, <2>1 DEF Tiled
<1>5. /\ b \in VBlock /\ b.at = vlist[i - 1].at /\ b.used = vlist[i - 1].used
      /\ EndOf(b) = EndOf(vlist[i])
  BY <1>1, <1>4, MergedBlock
<1> HIDE DEF b
<1>6. Tiled(vlist') /\ Pieces(vlist') = Pieces(vlist) \ {Piece(vlist[i])}
  BY <1>1, <1>2, <1>4, <1>5, MergeTiles
<1>7. Piece(vlist[i]).ptr = ptr /\ Piece(vlist[i]) \in Pieces(vlist)
  BY <1>3, <1>4 DEF Piece, Pieces
<1>8. Piece(vlist[i]) \in live
  BY <1>7 DEF MemInv, Held
<1>9. Held'
  <2>1. live' \subseteq [ptr : Nat, size : Nat]
    BY DEF MemInv, Held
  <2>2. Pieces(vlist') \subseteq live'
    BY <1>6, <1>7, <1>8 DEF MemInv, Held
  <2>3. \A a \in live' : a \in Pieces(vlist') \/ UnitPiece(a)'
    BY <1>2, <1>6, <1>7, UsedUnchanged DEF MemInv, Held
  <2>4. ASSUME NEW k \in Unit, Used(k)' PROVE \E a \in live' : a.ptr = UnitPtr(k)
    <3>1. PICK a \in live : a.ptr = UnitPtr(k)
      BY <1>2, <2>4, UsedUnchanged DEF MemInv, Held
    <3>2. ptr # UnitPtr(k)
      BY <1>1, <1>7, PieceBehindUnits
    <3> QED
      BY <3>1, <3>2
  <2>5. \A a, c \in live' : a.ptr = c.ptr => a = c
    BY DEF MemInv, Held
  <2> QED
    BY <2>1, <2>2, <2>3, <2>4, <2>5 DEF Held
<1>10. UnitsLinked'
  BY <1>2, LinkedUnchanged DEF MemInv
<1>11. live' # live
  BY <1>7, <1>8
<1> QED
  BY <1>6, <1>9, <1>10, <1>11 DEF MemInv

\* An address that Free ignores is that of no piece in use.
LEMMA IgnoredKeeps ==
    ASSUME MemInv, NEW ptr \in Address, ~IsUnitPtr(ptr), ~IsBlockPtr(ptr),
           UNCHANGED << node, first, vlist >>, live' = {a \in live : a.ptr # ptr}
    PROVE  MemInv'
<1>1. ASSUME NEW a \in live PROVE a.ptr # ptr
  <2>1. CASE a \in Pieces(vlist)
    BY <2>1, PieceAt DEF MemInv, IsBlockPtr
  <2>2. CASE UnitPiece(a)
    BY <2>2, UnitPtrsFound DEF UnitPiece
  <2> QED
    BY <2>1, <2>2 DEF MemInv, Held
<1>2. UNCHANGED memVars
  BY <1>1 DEF memVars
<1> QED
  BY <1>2, NothingChanges

\* Free keeps the invariant, and changes the heap only when it changes what
\* callers hold.
LEMMA FreeKeeps ==
    ASSUME MemInv, NEW ptr \in Freed, Free(ptr)
    PROVE  MemInv' /\ (live' = live => UNCHANGED << node, first, vlist >>)
<1>1. /\ ptr \in Address /\ ptr # FirstBytes
      /\ live' = {a \in live : a.ptr # ptr}
  BY DEF Free, Freed
<1>2. CASE IsUnitPtr(ptr)
  BY <1>1, <1>2, FMemFreeKeeps DEF Free
<1>3. CASE ~IsUnitPtr(ptr) /\ IsBlockPtr(ptr)
  BY <1>1, <1>3, VMemFreeKeeps DEF Free
<1>4. CASE ~IsUnitPtr(ptr) /\ ~IsBlockPtr(ptr)
  BY <1>1, <1>4, IgnoredKeeps DEF Free
<1> QED
  BY <1>2, <1>3, <1>4

LEMMA MemInvStep ==
    ASSUME MemInv, MemNext
    PROVE  MemInv'
<1>1. ASSUME NEW size \in Size, Malloc(size)
      PROVE  MemInv'
  <2>1. size \in Nat
    BY MemoryAssumption
  <2>2. CASE size <= FM_ALLOC_SIZE /\ first # max
    BY <1>1, <2>1, <2>2, FMemAllocKeeps DEF Malloc
  <2>3. CASE ~(size <= FM_ALLOC_SIZE /\ first # max)
    <3>1. UNCHANGED << node, first >>
      BY <1>1, <2>3 DEF Malloc
    <3>2. ASSUME NEW i \in 1 .. Len(vlist), Fits(i, size), VMemAlloc(i, size)
          PROVE  MemInv'
      BY <3>1, <3>2, VMemAllocKeeps
    <3>3. CASE UNCHANGED << vlist, live >>
      BY <3>1, <3>3, NothingChanges DEF memVars
    <3> QED
      BY <1>1, <2>3, <3>1, <3>2, <3>3 DEF Malloc
  <2> QED
    BY <2>2, <2>3
<1>2. ASSUME NEW ptr \in Freed, Free(ptr)
      PROVE  MemInv'
  BY <1>2, FreeKeeps
<1> QED
  BY <1>1, <1>2 DEF MemNext

-----------------------------------------------------------------------------
(* Theorems *)

\* MemInv is an invariant of the heap.
THEOREM MemInvariance == MemSpec => []MemInv
<1>1. MemModInit => MemInv
  BY MemInvInit
<1>2. MemInv /\ [MemNext]_memVars => MemInv'
  BY MemInvStep, NothingChanges
<1> QED
  BY <1>1, <1>2, PTL DEF MemSpec

\* Splitting and merging lose no byte of the list's half of the heap
\* (memory.c:116-178).
THEOREM HeapTiled == MemSpec => []ListTiles
<1>1. MemInv => ListTiles
  BY DEF MemInv, Tiled, ListTiles
<1> QED
  BY <1>1, MemInvariance, PTL

\* Free has no effect on the heap for an address that nobody holds, one that was
\* freed before among them, whatever its value but that of the first block's
\* bytes (memory.c:91-114, 154-178).
THEOREM StaleFreeHarmless == MemSpec => StaleFreeIgnored
<1>1. ASSUME MemInv, NEW ptr \in Freed, Free(ptr), \A a \in live : a.ptr # ptr
      PROVE  UNCHANGED << node, first, vlist >>
  <2>1. live' = live
    BY <1>1 DEF Free
  <2> QED
    BY <1>1, <2>1, FreeKeeps
<1>2. MemInv
        => [\A ptr \in Freed : Free(ptr) /\ (\A a \in live : a.ptr # ptr)
                               => UNCHANGED << node, first, vlist >>]_memVars
  BY <1>1
<1> QED
  BY <1>2, MemInvariance, PTL DEF MemSpec, StaleFreeIgnored

-----------------------------------------------------------------------------
(* Pieces of memory *)

\* A piece is the beginning of a unit, or what follows the header of a block.
InUnit(a, i)  == a.ptr = UnitPtr(i) /\ a.size <= FM_ALLOC_SIZE
InBlock(a, j) == j # 1 /\ a = Piece(vlist[j])

LEMMA WherePiecesAre ==
    ASSUME MemInv, NEW a \in live
    PROVE  /\ a.ptr \in Nat /\ a.size \in Nat
           /\ \/ \E i \in Unit : InUnit(a, i)
              \/ \E j \in 1 .. Len(vlist) : InBlock(a, j)
<1>1. a.ptr \in Nat /\ a.size \in Nat
  BY DEF MemInv, Held
<1>2. a \in Pieces(vlist) \/ UnitPiece(a)
  BY DEF MemInv, Held
<1>3. CASE UnitPiece(a)
  BY <1>1, <1>3 DEF UnitPiece, InUnit
<1>4. CASE a \in Pieces(vlist)
  <2>1. PICK j \in 2 .. Len(vlist) : j \in 1 .. Len(vlist) /\ a = Piece(vlist[j])
    BY <1>4, PieceAt DEF MemInv
  <2>2. j # 1
    BY <2>1
  <2> QED
    BY <1>1, <2>1, <2>2 DEF InBlock
<1> QED
  BY <1>2, <1>3, <1>4

LEMMA UnitPieceBounds ==
    ASSUME NEW a, a.ptr \in Nat, a.size \in Nat, NEW i \in Unit, InUnit(a, i)
    PROVE  /\ a.ptr >= ubase /\ a.ptr + a.size <= vmem
           /\ a.ptr + a.size <= UnitPtr(i) + FM_ALLOC_SIZE
<1>1. /\ UnitPtr(i) \in Nat /\ UnitPtr(i) >= ubase
      /\ UnitPtr(i) + FM_ALLOC_SIZE <= vmem
  BY UnitAt
<1>2. ubase \in Nat /\ vmem \in Nat /\ FM_ALLOC_SIZE \in Nat
  BY Layout, MemoryAssumption
<1>3. a.ptr = UnitPtr(i) /\ a.size <= FM_ALLOC_SIZE
  BY DEF InUnit
<1> QED
  BY <1>1, <1>2, <1>3

LEMMA BlockPieceBounds ==
    ASSUME Tiled(vlist), NEW a, NEW j \in 1 .. Len(vlist), InBlock(a, j)
    PROVE  /\ a.ptr = PtrOf(vlist[j]) /\ a.ptr + a.size <= EndOf(vlist[j])
           /\ a.ptr = vlist[j].at + VM_HEAD_SIZE /\ a.ptr > vmem
           /\ a.ptr + a.size <= vmem + vsize
           /\ a.ptr \in Nat /\ a.size \in Nat
<1>1. /\ vlist[j] \in VBlock /\ vlist[j].at >= vmem
      /\ EndOf(vlist[j]) <= vmem + vsize
  BY TiledBounds
<1> DEFINE b == vlist[j]
<1>2. /\ b.at \in Nat /\ b.used \in Nat /\ b.free \in Nat
      /\ PtrOf(b) \in Nat /\ PtrOf(b) = b.at + VM_HEAD_SIZE /\ b.at < PtrOf(b)
      /\ EndOf(b) \in Nat /\ EndOf(b) = PtrOf(b) + b.used + b.free
  BY <1>1, BlockNumbers
<1>3. a.ptr = PtrOf(b) /\ a.size = b.used
  BY DEF InBlock, Piece
<1>4. vmem \in Nat /\ vsize \in Nat
  BY Layout
<1> HIDE DEF b
<1>5. a.ptr + a.size <= EndOf(b)
  BY <1>2, <1>3
<1>6. b.at >= vmem /\ EndOf(b) <= vmem + vsize
  BY <1>1 DEF b
<1>7. a.ptr > vmem
  BY <1>2, <1>3, <1>4, <1>6
<1>8. a.ptr + a.size <= vmem + vsize /\ a.ptr \in Nat /\ a.size \in Nat
  BY <1>2, <1>3, <1>4, <1>5, <1>6
<1> QED
  BY <1>2, <1>3, <1>5, <1>7, <1>8 DEF b

LEMMA InTheHeap ==
    ASSUME MemInv, NEW a \in live
    PROVE  a.ptr >= ubase /\ a.ptr + a.size <= MemBase + MemSize
<1>1. /\ ubase \in Nat /\ vmem \in Nat /\ vsize \in Nat /\ FM_ALLOC_SIZE \in Nat
      /\ vmem + vsize = MemBase + MemSize /\ ubase <= vmem
  <2>1. /\ max * FM_ALLOC_SIZE \in Nat /\ ubase + max * FM_ALLOC_SIZE <= vmem
        /\ ubase \in Nat /\ vmem \in Nat
    BY Layout, MemoryAssumption
  <2>2. ubase <= vmem
    BY <2>1
  <2> QED
    BY <2>2, Layout, MemoryAssumption
<1>2. a.ptr \in Nat /\ a.size \in Nat
  BY WherePiecesAre
<1>3. CASE \E i \in Unit : InUnit(a, i)
  <2>1. a.ptr >= ubase /\ a.ptr + a.size <= vmem
    BY <1>2, <1>3, UnitPieceBounds
  <2> QED
    BY <1>1, <1>2, <2>1
<1>4. CASE \E j \in 1 .. Len(vlist) : InBlock(a, j)
  <2>1. a.ptr > vmem /\ a.ptr + a.size <= vmem + vsize
    BY <1>4, BlockPieceBounds DEF MemInv
  <2> QED
    BY <1>1, <1>2, <2>1
<1> QED
  BY <1>3, <1>4, WherePiecesAre

\* The first block is given to nobody.
LEMMA NotTheFirst ==
    ASSUME MemInv, NEW a \in live
    PROVE  a.ptr # FirstBytes
<1>1. /\ Tiled(vlist) /\ 1 \in 1 .. Len(vlist) /\ PtrOf(vlist[1]) = FirstBytes
  BY FirstBlock DEF MemInv, Tiled
<1>2. CASE \E i \in Unit : InUnit(a, i)
  <2>1. PICK i \in Unit : a.ptr = UnitPtr(i)
    BY <1>2 DEF InUnit
  <2>2. UnitPtr(i) \in Nat /\ UnitPtr(i) < vmem /\ vmem \in Nat
    BY UnitAt, Layout, MemoryAssumption
  <2>3. FirstBytes > vmem
    BY <2>2, MemoryAssumption DEF FirstBytes
  <2> QED
    BY <2>1, <2>2, <2>3
<1>3. CASE \E j \in 1 .. Len(vlist) : InBlock(a, j)
  <2>1. PICK j \in 1 .. Len(vlist) : j # 1 /\ a.ptr = PtrOf(vlist[j])
    BY <1>3 DEF InBlock, Piece
  <2> QED
    BY <1>1, <2>1, BlockPtrsDiffer
<1> QED
  BY <1>2, <1>3, WherePiecesAre

LEMMA NoHeaderTouched ==
    ASSUME MemInv, NEW a \in live, NEW i \in 1 .. Len(vlist)
    PROVE  ~Overlap(a.ptr, a.size, vlist[i].at, VM_HEAD_SIZE)
<1>1. a.ptr \in Nat /\ a.size \in Nat /\ VM_HEAD_SIZE \in Nat /\ vmem \in Nat
  BY WherePiecesAre, Layout, MemoryAssumption
<1>2. /\ vlist[i].at \in Nat /\ vlist[i].at >= vmem /\ EndOf(vlist[i]) \in Nat
      /\ vlist[i].at + VM_HEAD_SIZE <= EndOf(vlist[i])
  <2>1. vlist[i] \in VBlock /\ vlist[i].at >= vmem
    BY TiledBounds DEF MemInv
  <2>2. PtrOf(vlist[i]) = vlist[i].at + VM_HEAD_SIZE /\ PtrOf(vlist[i]) <= EndOf(vlist[i])
    BY <2>1, BlockNumbers
  <2> QED
    BY <2>1, <2>2, BlockNumbers
<1>3. CASE \E u \in Unit : InUnit(a, u)
  <2>1. a.ptr + a.size <= vmem
    BY <1>1, <1>3, UnitPieceBounds
  <2> QED
    BY <1>1, <1>2, <2>1 DEF Overlap
<1>4. ASSUME NEW j \in 1 .. Len(vlist), InBlock(a, j)
      PROVE  ~Overlap(a.ptr, a.size, vlist[i].at, VM_HEAD_SIZE)
  <2>1. /\ a.ptr = vlist[j].at + VM_HEAD_SIZE /\ a.ptr + a.size <= EndOf(vlist[j])
    BY <1>4, BlockPieceBounds DEF MemInv
  <2>2. vlist[j].at \in Nat /\ EndOf(vlist[j]) \in Nat
    BY TiledNumbers DEF MemInv
  <2>3. CASE i = j
    <3>1. ~(a.ptr < vlist[i].at + VM_HEAD_SIZE)
      BY <1>1, <1>2, <2>1, <2>3
    <3> QED
      BY <3>1 DEF Overlap
  <2>4. CASE i < j
    <3>1. EndOf(vlist[i]) <= vlist[j].at
      BY <2>4 DEF MemInv, Tiled
    <3>2. vlist[j].at <= a.ptr
      BY <1>1, <2>1, <2>2
    <3>3. \A p, h, e, q, r \in Nat : p + h <= e /\ e <= q /\ q <= r => ~(r < p + h)
      OBVIOUS
    <3>4. ~(a.ptr < vlist[i].at + VM_HEAD_SIZE)
      BY <1>1, <1>2, <2>2, <3>1, <3>2, <3>3
    <3> QED
      BY <3>4 DEF Overlap
  <2>5. CASE j < i
    <3>1. EndOf(vlist[j]) <= vlist[i].at
      BY <2>5 DEF MemInv, Tiled
    <3>2. \A e, f, p \in Nat : p <= e /\ e <= f => ~(f < p)
      OBVIOUS
    <3>3. a.ptr + a.size \in Nat /\ a.ptr + a.size <= EndOf(vlist[j])
      BY <1>1, <2>1
    <3>4. ~(vlist[i].at < a.ptr + a.size)
      BY <1>2, <2>2, <3>1, <3>2, <3>3
    <3> QED
      BY <3>4 DEF Overlap
  <2> QED
    BY <2>3, <2>4, <2>5
<1> QED
  BY <1>3, <1>4, WherePiecesAre

LEMMA PiecesApart ==
    ASSUME MemInv, NEW a \in live, NEW b \in live, a # b
    PROVE  ~Overlap(a.ptr, a.size, b.ptr, b.size)
<1>1. a.ptr \in Nat /\ a.size \in Nat /\ b.ptr \in Nat /\ b.size \in Nat
  BY WherePiecesAre
<1>2. vmem \in Nat /\ FM_ALLOC_SIZE \in Nat
  BY Layout, MemoryAssumption
<1>3. a.ptr # b.ptr
  BY DEF MemInv, Held
<1>4. ASSUME NEW x \in live, NEW y \in live, x.ptr \in Nat, x.size \in Nat,
             y.ptr \in Nat, y.size \in Nat, x.ptr # y.ptr,
             NEW i \in Unit, InUnit(x, i)
      PROVE  x.ptr + x.size <= y.ptr \/ y.ptr + y.size <= x.ptr
  <2>1. x.ptr + x.size <= vmem /\ x.ptr + x.size <= UnitPtr(i) + FM_ALLOC_SIZE
    BY <1>4, UnitPieceBounds
  <2>2. ASSUME NEW j \in 1 .. Len(vlist), InBlock(y, j)
        PROVE  x.ptr + x.size <= y.ptr
    <3>1. y.ptr > vmem
      BY <2>2, BlockPieceBounds DEF MemInv
    <3> QED
      BY <1>2, <1>4, <2>1, <3>1
  <2>3. ASSUME NEW j \in Unit, InUnit(y, j)
        PROVE  x.ptr + x.size <= y.ptr \/ y.ptr + y.size <= x.ptr
    <3>1. x.ptr = UnitPtr(i) /\ y.ptr = UnitPtr(j) /\ i # j
      BY <1>4, <2>3 DEF InUnit
    <3>2. y.ptr + y.size <= UnitPtr(j) + FM_ALLOC_SIZE
      BY <1>4, <2>3, UnitPieceBounds
    <3>3. i \in Nat /\ j \in Nat
      BY UnitAt
    <3>4. CASE i < j
      <4>1. UnitPtr(i) + FM_ALLOC_SIZE <= UnitPtr(j)
        BY <3>4, UnitsApart
      <4>2. UnitPtr(i) + FM_ALLOC_SIZE \in Nat
        BY <1>2, <1>4, <3>1
      <4>3. x.ptr + x.size <= y.ptr
        BY <1>4, <2>1, <3>1, <4>1, <4>2
      <4> QED
        BY <4>3
    <3>5. CASE j < i
      <4>1. UnitPtr(j) + FM_ALLOC_SIZE <= UnitPtr(i)
        BY <3>5, UnitsApart
      <4>2. UnitPtr(j) + FM_ALLOC_SIZE \in Nat
        BY <1>2, <1>4, <3>1
      <4>3. y.ptr + y.size <= x.ptr
        BY <1>4, <3>1, <3>2, <4>1, <4>2
      <4> QED
        BY <4>3
    <3> QED
      BY <3>1, <3>3, <3>4, <3>5
  <2> QED
    BY <2>2, <2>3, WherePiecesAre
<1>5. ASSUME NEW i \in 1 .. Len(vlist), InBlock(a, i),
             NEW j \in 1 .. Len(vlist), InBlock(b, j)
      PROVE  a.ptr + a.size <= b.ptr \/ b.ptr + b.size <= a.ptr
  <2>1. a.ptr = PtrOf(vlist[i]) /\ a.ptr + a.size <= EndOf(vlist[i])
    BY <1>5, BlockPieceBounds DEF MemInv
  <2>2. b.ptr = PtrOf(vlist[j]) /\ b.ptr + b.size <= EndOf(vlist[j])
    BY <1>5, BlockPieceBounds DEF MemInv
  <2>3. /\ vlist[i].at \in Nat /\ EndOf(vlist[i]) \in Nat /\ vlist[i].at < PtrOf(vlist[i])
        /\ vlist[j].at \in Nat /\ EndOf(vlist[j]) \in Nat /\ vlist[j].at < PtrOf(vlist[j])
    BY TiledNumbers DEF MemInv
  <2>4. i # j
    BY <1>3, <2>1, <2>2
  <2>5. CASE i < j
    <3>1. EndOf(vlist[i]) <= vlist[j].at
      BY <2>5 DEF MemInv, Tiled
    <3>2. a.ptr + a.size <= b.ptr
      BY <1>1, <2>1, <2>2, <2>3, <3>1
    <3> QED
      BY <3>2
  <2>6. CASE j < i
    <3>1. EndOf(vlist[j]) <= vlist[i].at
      BY <2>6 DEF MemInv, Tiled
    <3>2. b.ptr + b.size <= a.ptr
      BY <1>1, <2>1, <2>2, <2>3, <3>1
    <3> QED
      BY <3>2
  <2> QED
    BY <2>4, <2>5, <2>6
<1>6. a.ptr + a.size <= b.ptr \/ b.ptr + b.size <= a.ptr
  <2>1. CASE \E i \in Unit : InUnit(a, i)
    BY <1>1, <1>3, <1>4, <2>1
  <2>2. CASE \E i \in Unit : InUnit(b, i)
    BY <1>1, <1>3, <1>4, <2>2
  <2> QED
    BY <1>5, <2>1, <2>2, WherePiecesAre
<1>7. /\ a.ptr + a.size <= b.ptr => ~(b.ptr < a.ptr + a.size)
      /\ b.ptr + b.size <= a.ptr => ~(a.ptr < b.ptr + b.size)
  BY <1>1
<1> QED
  BY <1>6, <1>7 DEF Overlap

\* Callers get pieces of the heap that overlap neither each other nor what
\* manages the heap, in whatever order they are given back (memory.c:60-178).
THEOREM PiecesOfTheirOwn == MemSpec => []LiveDisjoint
<1>1. MemInv => LiveDisjoint
  BY InTheHeap, NotTheFirst, NoHeaderTouched, PiecesApart DEF LiveDisjoint
<1> QED
  BY <1>1, MemInvariance, PTL

\* The first free unit and the links are those of a list of all units that
\* nobody holds.
LEMMA FreeUnitsAreUnused ==
    ASSUME MemInv
    PROVE  FreeUnits = {i \in Unit : ~Used(i)}
<1>1. ASSUME NEW i \in Unit, ~Used(i), NEW a \in live
      PROVE  a.ptr # UnitPtr(i)
  BY <1>1, FreeUnitHeldByNone
<1>2. ASSUME NEW i \in Unit, Used(i)
      PROVE  \E a \in live : a.ptr = UnitPtr(i)
  BY <1>2 DEF MemInv, Held
<1> QED
  BY <1>1, <1>2 DEF FreeUnits

LEMMA ChainOfFreeUnits ==
    ASSUME MemInv
    PROVE  \E chain \in [1 .. Cardinality(FreeUnits) -> FreeUnits] :
              /\ \A i \in FreeUnits : \E k \in DOMAIN chain : chain[k] = i
              /\ first = IF FreeUnits = {} THEN max ELSE chain[1]
              /\ \A k \in DOMAIN chain : node[chain[k]] =
                    IF k = Cardinality(FreeUnits) THEN None ELSE Next(chain[k + 1])
<1>1. PICK n, c : Chain(c, n)
  BY DEF MemInv, UnitsLinked
<1>2. /\ n \in Nat /\ c \in [1 .. n -> Unit]
      /\ \A k, l \in 1 .. n : c[k] = c[l] => k = l
      /\ \A i \in Unit : ~Used(i) => \E k \in 1 .. n : c[k] = i
      /\ \A k \in 1 .. n : node[c[k]] = Next(IF k = n THEN max ELSE c[k + 1])
      /\ first = IF n = 0 THEN max ELSE c[1]
  BY <1>1 DEF Chain
<1>3. FreeUnits = {i \in Unit : ~Used(i)}
  BY FreeUnitsAreUnused
<1>4. c \in [1 .. n -> FreeUnits]
  <2>1. \A k \in 1 .. n : c[k] \in FreeUnits
    BY <1>1, <1>3, ChainIsFree
  <2> QED
    BY <1>2, <2>1
<1>5. \A i \in FreeUnits : \E k \in 1 .. n : c[k] = i
  BY <1>2, <1>3
<1>6. Cardinality(FreeUnits) = n
  <2>1. ExistsBijection(1 .. n, FreeUnits)
    <3> DEFINE D == 1 .. n
    <3>1. /\ c \in [D -> FreeUnits]
          /\ \A k, l \in D : c[k] = c[l] => k = l
          /\ \A i \in FreeUnits : \E k \in D : c[k] = i
      BY <1>2, <1>4, <1>5
    <3> HIDE DEF D
    <3>2. c \in Bijection(D, FreeUnits)
      BY <3>1 DEF Bijection, Injection, Surjection, IsInjective
    <3> QED
      BY <3>2 DEF ExistsBijection, D
  <2> QED
    BY <1>2, <2>1, FS_CountingElements
<1>7. FreeUnits = {} <=> n = 0
  BY <1>2, <1>4, <1>5
<1>8. \A k \in 1 .. n : node[c[k]] = IF k = n THEN None ELSE Next(c[k + 1])
  BY <1>2 DEF None, Next
<1>9. DOMAIN c = 1 .. n
  BY <1>4
<1>10. first = IF FreeUnits = {} THEN max ELSE c[1]
  BY <1>2, <1>7
<1>11. c \in [1 .. Cardinality(FreeUnits) -> FreeUnits]
  BY <1>4, <1>6
<1> QED
  BY <1>5, <1>6, <1>8, <1>9, <1>10, <1>11

\* What nobody holds can be allocated again: each block but the first is in the
\* hands of a caller, and the other units are in one list (memory.c:36-58,
\* 60-89, 154-178).
THEOREM HeapIsNotLost == MemSpec => []NothingLeaks
<1>1. ASSUME MemInv, NEW j \in 2 .. Len(vlist)
      PROVE  \E a \in live : a.ptr = PtrOf(vlist[j])
  <2>1. Piece(vlist[j]) \in live
    BY <1>1 DEF MemInv, Held, Pieces
  <2> QED
    BY <2>1 DEF Piece
<1>2. MemInv => NothingLeaks
  BY <1>1, ChainOfFreeUnits DEF NothingLeaks
<1> QED
  BY <1>2, MemInvariance, PTL

=============================================================================
