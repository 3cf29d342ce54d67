------------------------------ MODULE FileProofs ------------------------------
(***************************************************************************)
(* The file system on disks, directories and files of any size. While      *)
(* callers are disciplined and the power does not fail, three things hold  *)
(* together after every operation: each sector is free or in one chain     *)
(* only, the directory has no holes and each name once, and the buffer of  *)
(* an open file holds what its sector will hold. None of them holds        *)
(* without the others: a chain is found through an entry, an entry through *)
(* the chain of the directory, and a buffer goes to the sector that the    *)
(* chain gives for its index. The second part is about power failures      *)
(* between any two writes: what is left then is weaker, and it is kept by  *)
(* every single write and not only by the operations. Module               *)
(* ContentProofs is about what callers see.                                *)
(***************************************************************************)
EXTENDS FileSystem, FiniteSetTheorems, WellFoundedInduction, TLAPS

-----------------------------------------------------------------------------
(* Walks along the map. The provers have no induction; a least             *)
(* counterexample does the same for what is a set of numbers.              *)

LEMMA Least ==
    ASSUME NEW S, S \subseteq Nat, S # {}
    PROVE  \E x \in S : \A y \in S : x <= y
<1> DEFINE R == OpToRel(<, Nat)
<1>1. IsWellFoundedOn(R, Nat)
  BY NatLessThanWellFounded, Zenon
<1>2. \A x, y \in Nat : y < x => << y, x >> \in R
  BY Zenon DEF OpToRel
<1> HIDE DEF R
<1>3. PICK x \in S : \A y \in S : ~ (<< y, x >> \in R)
  BY <1>1, WFMin, Zenon
<1>4. \A y \in S : ~ (y < x)
  BY <1>2, <1>3
<1> QED
  BY <1>3, <1>4

Walk(d, begin, n, f) ==
    f = [i \in 0 .. n |-> IF i = 0 THEN begin ELSE NextSector(d, f[i - 1])]

LEMMA WalkExists ==
    ASSUME NEW d, NEW begin, NEW n \in Nat
    PROVE  \E f : Walk(d, begin, n, f)
<1> DEFINE S == {k \in Nat : ~ \E f : Walk(d, begin, k, f)}
<1> SUFFICES ASSUME S # {} PROVE FALSE
  OBVIOUS
<1>1. PICK k \in S : \A j \in S : k <= j
  BY Least
<1>2. k # 0
  <2>1. Walk(d, begin, 0, [i \in 0 .. 0 |-> begin])
    BY DEF Walk
  <2> QED
    BY <2>1
<1>3. k - 1 \in Nat /\ k - 1 \notin S
  BY <1>1, <1>2
<1>4. PICK f : Walk(d, begin, k - 1, f)
  BY <1>3
<1> DEFINE g == [i \in 0 .. k |-> IF i < k THEN f[i] ELSE NextSector(d, f[k - 1])]
<1>5. Walk(d, begin, k, g)
  BY <1>2, <1>3, <1>4 DEF Walk
<1> QED
  BY <1>1, <1>5

\* FindIndex is the end of a walk.
LEMMA IndexWalks ==
    ASSUME NEW d, NEW begin, NEW n \in Nat
    PROVE  \E f : Walk(d, begin, n, f) /\ FindIndex(d, begin, n) = f[n]
<1> DEFINE at == CHOOSE f : Walk(d, begin, n, f)
<1>1. Walk(d, begin, n, at)
  BY WalkExists
<1>2. FindIndex(d, begin, n) = at[n]
  BY DEF FindIndex, Walk
<1> QED
  BY <1>1, <1>2

\* A walk is determined by where it begins and by the steps.
Goes(d, begin, m, q) ==
    q[0] = begin /\ \A k \in 0 .. m - 1 : q[k + 1] = NextSector(d, q[k])

LEMMA WalkIs ==
    ASSUME NEW d, NEW begin, NEW n \in Nat, NEW f, Walk(d, begin, n, f), NEW m \in Nat, NEW q,
           Goes(d, begin, m, q),
           NEW i \in Nat, i <= n, i <= m
    PROVE  f[i] = q[i]
<1> DEFINE S == {k \in Nat : k <= n /\ k <= m /\ f[k] # q[k]}
<1> SUFFICES ASSUME S # {} PROVE FALSE
  OBVIOUS
<1>1. S \subseteq Nat
  OBVIOUS
<1>2. PICK k \in S : \A j \in S : k <= j
  BY <1>1, Least
<1>3. k # 0
  BY <1>2 DEF Walk, Goes
<1>4. k - 1 \in Nat /\ k - 1 \notin S
  BY <1>2, <1>3
<1>5. f[k - 1] = q[k - 1]
  BY <1>2, <1>3, <1>4
<1>6. f[k] = NextSector(d, f[k - 1])
  BY <1>2, <1>3 DEF Walk
<1>7. q[(k - 1) + 1] = NextSector(d, q[k - 1])
  BY <1>2, <1>4 DEF Goes
<1> QED
  BY <1>2, <1>5, <1>6, <1>7

LEMMA IndexIs ==
    ASSUME NEW d, NEW begin, NEW m \in Nat, NEW q,
           Goes(d, begin, m, q),
           NEW i \in 0 .. m
    PROVE  FindIndex(d, begin, i) = q[i]
<1>1. PICK f : Walk(d, begin, i, f) /\ FindIndex(d, begin, i) = f[i]
  BY IndexWalks
<1>2. i \in Nat /\ i <= i /\ i <= m
  OBVIOUS
<1>3. f[i] = q[i]
  BY <1>1, <1>2, WalkIs
<1> QED
  BY <1>1, <1>3

LEMMA IndexZero ==
    ASSUME NEW d, NEW begin
    PROVE  FindIndex(d, begin, 0) = begin
<1>1. PICK f : Walk(d, begin, 0, f) /\ FindIndex(d, begin, 0) = f[0]
  BY IndexWalks
<1> QED
  BY <1>1 DEF Walk

LEMMA IndexNext ==
    ASSUME NEW d, NEW begin, NEW k \in Nat
    PROVE  FindIndex(d, begin, k + 1) = NextSector(d, FindIndex(d, begin, k))
<1>1. PICK f : Walk(d, begin, k + 1, f) /\ FindIndex(d, begin, k + 1) = f[k + 1]
  BY IndexWalks
<1>2. f[k + 1] = NextSector(d, f[k])
  BY <1>1 DEF Walk
<1>3. Goes(d, begin, k, f)
  BY <1>1 DEF Walk, Goes
<1>4. k \in 0 .. k
  OBVIOUS
<1>5. FindIndex(d, begin, k) = f[k]
  BY <1>3, <1>4, IndexIs, Zenon
<1> QED
  BY <1>1, <1>2, <1>5

-----------------------------------------------------------------------------
(* Chains *)

LEMMA Numbers ==
    /\ dataSize \in Nat \ {0}
    /\ End \notin Sector /\ Sector \subseteq Nat
    /\ IsFiniteSet(Sector) /\ Cardinality(Sector) = dataSize
<1> DEFINE n == HDRawSectors - FIXED_SCT_SIZE
           k == MAP_ITEM_CNT + 1
           q == n \div k
           r == n % k
<1>1. n \in Nat /\ n >= 2 /\ k \in Nat /\ k >= 2
  BY DiskAssumption DEF FIXED_SCT_SIZE
<1>2. n = k * q + r /\ r \in 0 .. k - 1 /\ q \in Nat
  BY <1>1
<1>3. mapSize = q + (IF r # 0 THEN 1 ELSE 0) /\ dataSize = n - mapSize
  <2>1. mapSize = q + (IF r # 0 THEN 1 ELSE 0)
    BY DEF mapSize
  <2>2. mapSize \in Nat
    BY <1>2, <2>1
  <2> QED
    BY <1>1, <2>1, <2>2, DiskAssumption DEF dataSize, FIXED_SCT_SIZE
<1> HIDE DEF n, k, q, r
<1>4. k * q >= 2 * q
  BY <1>1, <1>2
<1>5. dataSize \in Nat \ {0}
  BY <1>1, <1>2, <1>3, <1>4
<1>6. IsFiniteSet(0 .. dataSize - 1) /\ Cardinality(0 .. dataSize - 1) = dataSize
  BY <1>5, FS_Interval
<1> QED
  BY <1>5, <1>6 DEF Sector, End

\* The chain of n sectors that begins with b.
Linked(d, b, n) ==
    /\ n \in Nat
    /\ \A i \in 0 .. n - 1 : FindIndex(d, b, i) \in Sector
    /\ \A i, j \in 0 .. n - 1 : FindIndex(d, b, i) = FindIndex(d, b, j) => i = j
    /\ FindIndex(d, b, n) = End

\* How a chain is shown to be one: q lists it.
Lists(d, n, q) ==
    /\ n \in Nat
    /\ \A i \in 0 .. n - 1 : q[i] \in Sector /\ d.map[q[i]] = q[i + 1]
    /\ \A i, j \in 0 .. n - 1 : q[i] = q[j] => i = j
    /\ q[n] = End

LEMMA LinkedBy ==
    ASSUME NEW d, NEW n, NEW q, Lists(d, n, q)
    PROVE  Linked(d, q[0], n) /\ \A i \in 0 .. n : FindIndex(d, q[0], i) = q[i]
<1>1. n \in Nat /\ Goes(d, q[0], n, q)
  BY Numbers DEF Lists, Goes, NextSector
<1>2. \A i \in 0 .. n : FindIndex(d, q[0], i) = q[i]
  BY <1>1, IndexIs
<1> QED
  BY <1>1, <1>2 DEF Linked, Lists

LEMMA ChainStep ==
    ASSUME NEW d, NEW b, NEW n, Linked(d, b, n), NEW i \in 0 .. n - 1
    PROVE  d.map[FindIndex(d, b, i)] = FindIndex(d, b, i + 1)
  BY IndexNext, Numbers DEF Linked, NextSector

LEMMA BehindEnd ==
    ASSUME NEW d, NEW b, NEW n, Linked(d, b, n), NEW m \in Nat, m >= n
    PROVE  FindIndex(d, b, m) = End
<1> DEFINE q == [i \in 0 .. m |-> IF i < n THEN FindIndex(d, b, i) ELSE End]
<1>1. n \in Nat /\ FindIndex(d, b, n) = End
  BY DEF Linked
<1>2. q[0] = b
  BY <1>1, IndexZero
<1>3. ASSUME NEW i \in 0 .. m - 1
      PROVE  q[i + 1] = NextSector(d, q[i])
  <2>1. CASE i + 1 < n
    BY <1>1, <2>1, IndexNext
  <2>2. CASE i + 1 = n
    BY <1>1, <2>2, IndexNext
  <2>3. CASE i >= n
    BY <1>1, <2>3 DEF NextSector
  <2> QED
    BY <1>1, <2>1, <2>2, <2>3
<1>4. Goes(d, b, m, q)
  BY <1>2, <1>3 DEF Goes
<1>5. m \in 0 .. m
  OBVIOUS
<1>6. q[m] = End
  BY <1>1
<1> HIDE DEF q
<1>7. FindIndex(d, b, m) = q[m]
  BY <1>4, <1>5, IndexIs
<1> QED
  BY <1>6, <1>7

LEMMA ChainLength ==
    ASSUME NEW d, NEW b, NEW n, Linked(d, b, n)
    PROVE  /\ n \in 0 .. dataSize
           /\ Chain(d, b) = {FindIndex(d, b, i) : i \in 0 .. n - 1}
           /\ Chain(d, b) \subseteq Sector
           /\ Cardinality(Chain(d, b)) = n
           /\ b = End <=> n = 0
           /\ n > 0 => b \in Chain(d, b)
<1> DEFINE f == [i \in 0 .. n - 1 |-> FindIndex(d, b, i)]
           C == {FindIndex(d, b, i) : i \in 0 .. n - 1}
<1>1. n \in Nat /\ FindIndex(d, b, n) = End
  BY DEF Linked
<1>2. f \in Injection(0 .. n - 1, Sector) /\ f \in Bijection(0 .. n - 1, C)
  <2>1. f \in [0 .. n - 1 -> Sector] /\ f \in [0 .. n - 1 -> C]
    BY DEF Linked
  <2>2. \A i, j \in 0 .. n - 1 : f[i] = f[j] => i = j
    BY DEF Linked
  <2>3. \A c \in C : \E i \in 0 .. n - 1 : f[i] = c
    OBVIOUS
  <2> HIDE DEF f, C
  <2> QED
    BY <2>1, <2>2, <2>3 DEF Injection, IsInjective, Bijection, Surjection
<1>3. IsFiniteSet(0 .. n - 1) /\ Cardinality(0 .. n - 1) = n
  BY <1>1, FS_Interval
<1>4. n <= dataSize
  BY <1>2, <1>3, FS_Injection, Numbers
<1>5. Chain(d, b) = C
  <2>1. ASSUME NEW i \in 0 .. dataSize, FindIndex(d, b, i) # End
        PROVE  i \in 0 .. n - 1
    BY <1>1, <2>1, BehindEnd, Numbers
  <2>2. C \subseteq Chain(d, b)
    BY <1>1, <1>4, Numbers DEF Linked, Chain
  <2> QED
    BY <2>1, <2>2 DEF Chain
<1>6. Cardinality(C) = n
  <2>1. ExistsBijection(0 .. n - 1, C)
    BY <1>2 DEF ExistsBijection
  <2> QED
    BY <1>3, <2>1, FS_Bijection
<1>7. b = End <=> n = 0
  BY <1>1, IndexZero, Numbers DEF Linked
<1>8. n > 0 => b \in C
  <2> SUFFICES ASSUME n > 0 PROVE b \in C
    OBVIOUS
  <2>1. 0 \in 0 .. n - 1
    BY <1>1
  <2> QED
    BY <2>1, IndexZero
<1>9. C \subseteq Sector
  BY DEF Linked
<1>10. n \in 0 .. dataSize
  BY <1>1, <1>4, Numbers
<1> QED
  BY <1>5, <1>6, <1>7, <1>8, <1>9, <1>10, Zenon

LEMMA LastOf ==
    ASSUME NEW d, NEW b, NEW n, Linked(d, b, n), n > 0
    PROVE  /\ FindLast(d, b) = FindIndex(d, b, n - 1)
           /\ FindPrev(d, b, FindIndex(d, b, n - 1))
                = IF n = 1 THEN End ELSE FindIndex(d, b, n - 2)
<1> DEFINE last == FindIndex(d, b, n - 1)
<1>1. /\ n \in Nat /\ b # End /\ FindIndex(d, b, n) = End
      /\ \A i \in 0 .. n - 1 : FindIndex(d, b, i) \in Sector
      /\ Chain(d, b) = {FindIndex(d, b, i) : i \in 0 .. n - 1}
      /\ \A i, j \in 0 .. n - 1 : FindIndex(d, b, i) = FindIndex(d, b, j) => i = j
  BY ChainLength DEF Linked
<1>2. \A i \in 0 .. n - 1 : NextSector(d, FindIndex(d, b, i)) = FindIndex(d, b, i + 1)
  BY <1>1, IndexNext
<1>3. FindLast(d, b) = last
  <2>1. last \in Chain(d, b) /\ NextSector(d, last) = End
    BY <1>1, <1>2
  <2>2. ASSUME NEW s \in Chain(d, b), NextSector(d, s) = End
        PROVE  s = last
    <3>1. PICK i \in 0 .. n - 1 : s = FindIndex(d, b, i)
      BY <1>1
    <3>2. FindIndex(d, b, i + 1) = End
      BY <1>2, <2>2, <3>1
    <3>3. i = n - 1
      BY <1>1, <3>2, Numbers
    <3> QED
      BY <3>1, <3>3
  <2> HIDE DEF last
  <2> QED
    BY <1>1, <2>1, <2>2 DEF FindLast
<1>4. FindPrev(d, b, last) = IF n = 1 THEN End ELSE FindIndex(d, b, n - 2)
  <2>1. FindIndex(d, b, 0) = b
    BY IndexZero
  <2>2. CASE n = 1
    BY <2>1, <2>2 DEF FindPrev
  <2>3. CASE n > 1
    <3> DEFINE prev == FindIndex(d, b, n - 2)
    <3>1. last # b /\ last \in Chain(d, b)
      BY <1>1, <2>1, <2>3
    <3>2. prev \in Chain(d, b) /\ NextSector(d, prev) = last
      BY <1>1, <1>2, <2>3
    <3>3. ASSUME NEW s \in Chain(d, b), NextSector(d, s) = last
          PROVE  s = prev
      <4>1. PICK i \in 0 .. n - 1 : s = FindIndex(d, b, i)
        BY <1>1
      <4>2. FindIndex(d, b, i + 1) = last
        BY <1>2, <3>3, <4>1
      <4>3. i + 1 = n - 1
        BY <1>1, <4>2, Numbers
      <4>4. i = n - 2
        BY <1>1, <4>1, <4>3
      <4> QED
        BY <4>1, <4>4
    <3> HIDE DEF last, prev
    <3>4. FindPrev(d, b, last) = prev
      BY <3>1, <3>2, <3>3 DEF FindPrev
    <3> QED
      BY <2>3, <3>4 DEF prev
  <2> QED
    BY <1>1, <2>2, <2>3
<1> QED
  BY <1>3, <1>4

\* A chain stays as it is when the map changes elsewhere.
SameMap(d, e, b) == \A s \in Chain(d, b) : e.map[s] = d.map[s]

LEMMA ChainKept ==
    ASSUME NEW d, NEW e, NEW b, NEW n, Linked(d, b, n), SameMap(d, e, b)
    PROVE  /\ Linked(e, b, n)
           /\ Chain(e, b) = Chain(d, b)
           /\ \A i \in Nat : FindIndex(e, b, i) = FindIndex(d, b, i)
<1> DEFINE q == [i \in 0 .. n |-> FindIndex(d, b, i)]
<1>1. /\ n \in Nat /\ \A i \in 0 .. n - 1 : q[i] \in Sector /\ q[i] \in Chain(d, b)
      /\ \A i, j \in 0 .. n - 1 : q[i] = q[j] => i = j
      /\ q[n] = End
  BY ChainLength DEF Linked
<1>2. q[0] = b
  BY <1>1, IndexZero
<1>3. \A i \in 0 .. n - 1 : e.map[q[i]] = q[i + 1]
  BY <1>1, ChainStep DEF SameMap
<1> HIDE DEF q
<1>4. Linked(e, b, n) /\ \A i \in 0 .. n : FindIndex(e, b, i) = q[i]
  <2>1. Lists(e, n, q)
    BY <1>1, <1>3 DEF Lists
  <2> QED
    BY <1>2, <2>1, LinkedBy
<1>5. \A i \in 0 .. n : FindIndex(e, b, i) = FindIndex(d, b, i)
  BY <1>4 DEF q
<1>6. ASSUME NEW i \in Nat
      PROVE  FindIndex(e, b, i) = FindIndex(d, b, i)
  BY <1>1, <1>4, <1>5, BehindEnd
<1>7. Chain(e, b) = Chain(d, b)
  BY <1>6, Numbers DEF Chain
<1> QED
  BY <1>4, <1>6, <1>7

\* Without its first sector.
LEMMA ChainRest ==
    ASSUME NEW d, NEW b, NEW n, Linked(d, b, n), n > 0
    PROVE  /\ Linked(d, d.map[b], n - 1)
           /\ Chain(d, d.map[b]) = Chain(d, b) \ {b}
           /\ \A i \in 0 .. n - 1 : FindIndex(d, d.map[b], i) = FindIndex(d, b, i + 1)
<1> DEFINE q == [i \in 0 .. n - 1 |-> FindIndex(d, b, i + 1)]
<1>1. /\ n \in Nat /\ \A i \in 0 .. n - 1 : FindIndex(d, b, i) \in Sector
      /\ \A i, j \in 0 .. n - 1 : FindIndex(d, b, i) = FindIndex(d, b, j) => i = j
      /\ FindIndex(d, b, n) = End
  BY DEF Linked
<1>2. /\ n - 1 \in Nat /\ \A i \in 0 .. (n - 1) - 1 : q[i] \in Sector
      /\ \A i, j \in 0 .. (n - 1) - 1 : q[i] = q[j] => i = j
      /\ q[n - 1] = End
  BY <1>1
<1>3. q[0] = d.map[b]
  <2>1. d.map[FindIndex(d, b, 0)] = FindIndex(d, b, 0 + 1)
    BY <1>1, ChainStep
  <2> QED
    BY <1>1, <2>1, IndexZero
<1>4. ASSUME NEW i \in 0 .. (n - 1) - 1
      PROVE  d.map[q[i]] = q[i + 1]
  <2>1. i + 1 \in 0 .. n - 1
    BY <1>1
  <2> QED
    BY <1>1, <2>1, ChainStep
<1> HIDE DEF q
<1> DEFINE m == n - 1
<1>8. /\ m \in Nat /\ \A i \in 0 .. m - 1 : q[i] \in Sector /\ d.map[q[i]] = q[i + 1]
      /\ \A i, j \in 0 .. m - 1 : q[i] = q[j] => i = j
      /\ q[m] = End
  BY <1>2, <1>4
<1> HIDE DEF m
<1>9. Linked(d, q[0], m) /\ \A i \in 0 .. m : FindIndex(d, q[0], i) = q[i]
  <2>1. Lists(d, m, q)
    BY <1>8 DEF Lists
  <2> QED
    BY <2>1, LinkedBy
<1>5. Linked(d, d.map[b], n - 1) /\ \A i \in 0 .. n - 1 : FindIndex(d, d.map[b], i) = q[i]
  BY <1>3, <1>9 DEF m
<1>6. \A i \in 0 .. n - 1 : FindIndex(d, d.map[b], i) = FindIndex(d, b, i + 1)
  BY <1>5 DEF q
<1>7. Chain(d, d.map[b]) = Chain(d, b) \ {b}
  <2>1. Chain(d, d.map[b]) = {FindIndex(d, d.map[b], i) : i \in 0 .. (n - 1) - 1}
    BY <1>5, ChainLength
  <2>2. Chain(d, d.map[b]) = {FindIndex(d, b, i + 1) : i \in 0 .. (n - 1) - 1}
    BY <1>1, <1>6, <2>1
  <2>3. Chain(d, b) = {FindIndex(d, b, i) : i \in 0 .. n - 1}
    BY ChainLength
  <2>4. b = FindIndex(d, b, 0)
    BY IndexZero
  <2>5. \A i \in 0 .. n - 1 : i # 0 => FindIndex(d, b, i) # b /\ i = (i - 1) + 1
    BY <1>1, <2>4
  <2>6. \A i \in 0 .. (n - 1) - 1 : FindIndex(d, b, i + 1) # b
    BY <1>1, <2>5
  <2> QED
    BY <1>1, <2>2, <2>3, <2>4, <2>5, <2>6
<1> QED
  BY <1>5, <1>6, <1>7

\* With a sector before its first one.
Pushes(d, e, b, s) ==
    /\ s \in Sector /\ s \notin Chain(d, b) /\ e.map[s] = b
    /\ \A t \in Chain(d, b) : e.map[t] = d.map[t]

LEMMA ChainPushed ==
    ASSUME NEW d, NEW e, NEW b, NEW n, Linked(d, b, n), NEW s, Pushes(d, e, b, s)
    PROVE  /\ Linked(e, s, n + 1)
           /\ Chain(e, s) = Chain(d, b) \union {s}
<1>0. /\ s \in Sector /\ s \notin Chain(d, b) /\ e.map[s] = b
      /\ \A t \in Chain(d, b) : e.map[t] = d.map[t]
  BY DEF Pushes
<1> DEFINE m == n + 1
           q == [i \in 0 .. m |-> IF i = 0 THEN s ELSE FindIndex(d, b, i - 1)]
<1>1. /\ n \in Nat /\ \A i \in 0 .. n - 1 : FindIndex(d, b, i) \in Sector
      /\ \A i, j \in 0 .. n - 1 : FindIndex(d, b, i) = FindIndex(d, b, j) => i = j
      /\ FindIndex(d, b, n) = End
      /\ Chain(d, b) = {FindIndex(d, b, i) : i \in 0 .. n - 1}
  BY ChainLength DEF Linked
<1>2. \A i \in 0 .. m - 1 : i # 0 => i - 1 \in 0 .. n - 1
  BY <1>1
<1>3. \A i, j \in 0 .. m - 1 : q[i] = q[j] => i = j
  <2> SUFFICES ASSUME NEW i \in 0 .. m - 1, NEW j \in 0 .. m - 1, q[i] = q[j]
               PROVE  i = j
    OBVIOUS
  <2>1. CASE i = 0 \/ j = 0
    BY <1>0, <1>1, <1>2, <2>1
  <2>2. CASE i # 0 /\ j # 0
    <3>1. i - 1 = j - 1
      BY <1>1, <1>2, <2>2
    <3> QED
      BY <1>1, <3>1
  <2> QED
    BY <2>1, <2>2
<1>4. \A i \in 0 .. m - 1 : q[i] \in Sector /\ e.map[q[i]] = q[i + 1]
  <2> SUFFICES ASSUME NEW i \in 0 .. m - 1
               PROVE  q[i] \in Sector /\ e.map[q[i]] = q[i + 1]
    OBVIOUS
  <2>1. CASE i = 0
    BY <1>0, <1>1, <2>1, IndexZero
  <2>2. CASE i # 0
    <3>1. FindIndex(d, b, i - 1) \in Chain(d, b)
      BY <1>1, <1>2, <2>2
    <3>2. d.map[FindIndex(d, b, i - 1)] = FindIndex(d, b, (i - 1) + 1)
      BY <1>2, <2>2, ChainStep
    <3> QED
      BY <1>0, <1>1, <1>2, <2>2, <3>1, <3>2
  <2> QED
    BY <2>1, <2>2
<1>5. m \in Nat /\ q[m] = End /\ q[0] = s
  BY <1>1
<1>6. {q[i] : i \in 0 .. m - 1} = Chain(d, b) \union {s}
  <2>1. \A i \in 0 .. n - 1 : FindIndex(d, b, i) = q[i + 1] /\ i + 1 \in 0 .. m - 1
    BY <1>1
  <2>2. \A i \in 0 .. m - 1 : q[i] \in Chain(d, b) \union {s}
    BY <1>1, <1>2
  <2>3. 0 \in 0 .. m - 1
    BY <1>1
  <2> HIDE DEF q, m
  <2> QED
    BY <1>1, <1>5, <2>1, <2>2, <2>3
<1> HIDE DEF q, m
<1>7. Linked(e, q[0], m) /\ \A i \in 0 .. m : FindIndex(e, q[0], i) = q[i]
  <2>1. Lists(e, m, q)
    BY <1>3, <1>4, <1>5 DEF Lists
  <2> QED
    BY <2>1, LinkedBy
<1>8. Chain(e, s) = {FindIndex(e, s, i) : i \in 0 .. m - 1}
  BY <1>5, <1>7, ChainLength
<1>9. Chain(e, s) = {q[i] : i \in 0 .. m - 1}
  BY <1>5, <1>7, <1>8
<1> QED
  BY <1>5, <1>6, <1>7, <1>9 DEF m

\* With a sector behind its last one, if it has any.
Extends(d, e, b, n, s) ==
    /\ s \in Sector /\ s \notin Chain(d, b) /\ e.map[s] = End
    /\ n > 0 => e.map[FindIndex(d, b, n - 1)] = s
    /\ \A t \in Chain(d, b) : t # FindIndex(d, b, n - 1) => e.map[t] = d.map[t]

Longer(d, e, b, c, n, s) ==
    /\ Linked(e, c, n + 1)
    /\ Chain(e, c) = Chain(d, b) \union {s}
    /\ \A i \in 0 .. n - 1 : FindIndex(e, c, i) = FindIndex(d, b, i)
    /\ FindIndex(e, c, n) = s

LEMMA ChainExtended ==
    ASSUME NEW d, NEW e, NEW b, NEW n, Linked(d, b, n), NEW s, Extends(d, e, b, n, s),
           NEW c, c = IF n = 0 THEN s ELSE b
    PROVE  Longer(d, e, b, c, n, s)
<1> DEFINE m == n + 1
           q == [i \in 0 .. m |-> IF i < n THEN FindIndex(d, b, i)
                                  ELSE IF i = n THEN s ELSE End]
<1>0. /\ s \in Sector /\ s \notin Chain(d, b) /\ e.map[s] = End
      /\ n > 0 => e.map[FindIndex(d, b, n - 1)] = s
      /\ \A t \in Chain(d, b) : t # FindIndex(d, b, n - 1) => e.map[t] = d.map[t]
  BY DEF Extends
<1>1. /\ n \in Nat /\ \A i \in 0 .. n - 1 : FindIndex(d, b, i) \in Sector
      /\ \A i, j \in 0 .. n - 1 : FindIndex(d, b, i) = FindIndex(d, b, j) => i = j
      /\ FindIndex(d, b, n) = End
      /\ Chain(d, b) = {FindIndex(d, b, i) : i \in 0 .. n - 1}
  BY ChainLength DEF Linked
<1>2. \A i, j \in 0 .. m - 1 : q[i] = q[j] => i = j
  <2>1. \A i \in 0 .. m - 1 : i = n \/ i \in 0 .. n - 1
    BY <1>1
  <2>2. \A i \in 0 .. n - 1 : FindIndex(d, b, i) # s
    BY <1>0, <1>1
  <2> QED
    BY <1>0, <1>1, <2>1, <2>2
<1>3. \A i \in 0 .. m - 1 : q[i] \in Sector /\ e.map[q[i]] = q[i + 1]
  <2> SUFFICES ASSUME NEW i \in 0 .. m - 1
               PROVE  q[i] \in Sector /\ e.map[q[i]] = q[i + 1]
    OBVIOUS
  <2>1. CASE i = n
    BY <1>0, <1>1, <2>1
  <2>2. CASE i = n - 1
    BY <1>0, <1>1, <2>2
  <2>3. CASE i < n - 1
    <3>1. i \in 0 .. n - 1 /\ i + 1 \in 0 .. n - 1 /\ n - 1 \in 0 .. n - 1
      BY <1>1, <2>3
    <3>2. FindIndex(d, b, i) \in Chain(d, b) /\ FindIndex(d, b, i) # FindIndex(d, b, n - 1)
      BY <1>1, <2>3, <3>1
    <3>3. d.map[FindIndex(d, b, i)] = FindIndex(d, b, i + 1)
      BY <3>1, ChainStep
    <3> QED
      BY <1>0, <1>1, <2>3, <3>1, <3>2, <3>3
  <2> QED
    BY <1>1, <2>1, <2>2, <2>3
<1>4. m \in Nat /\ q[m] = End /\ q[n] = s /\ \A i \in 0 .. n - 1 : q[i] = FindIndex(d, b, i)
  BY <1>1
<1>5. q[0] = c
  BY <1>1, IndexZero
<1>6. {q[i] : i \in 0 .. m - 1} = Chain(d, b) \union {s}
  <2>1. \A i \in 0 .. m - 1 : i = n \/ i \in 0 .. n - 1
    BY <1>1
  <2>2. n \in 0 .. m - 1 /\ \A i \in 0 .. n - 1 : i \in 0 .. m - 1
    BY <1>1
  <2> HIDE DEF q, m
  <2> QED
    BY <1>1, <1>4, <2>1, <2>2
<1> HIDE DEF q, m
<1>7. Linked(e, q[0], m) /\ \A i \in 0 .. m : FindIndex(e, q[0], i) = q[i]
  <2>1. Lists(e, m, q)
    BY <1>2, <1>3, <1>4 DEF Lists
  <2> QED
    BY <2>1, LinkedBy
<1>8. Chain(e, c) = {FindIndex(e, c, i) : i \in 0 .. m - 1}
  BY <1>5, <1>7, ChainLength
<1>9. Chain(e, c) = {q[i] : i \in 0 .. m - 1}
  BY <1>4, <1>5, <1>7, <1>8
<1>10. n \in 0 .. m /\ \A i \in 0 .. n - 1 : i \in 0 .. m
  BY <1>1 DEF m
<1>11. Linked(e, c, n + 1) /\ Chain(e, c) = Chain(d, b) \union {s}
  BY <1>5, <1>6, <1>7, <1>9 DEF m
<1>12. /\ \A i \in 0 .. n - 1 : FindIndex(e, c, i) = FindIndex(d, b, i)
       /\ FindIndex(e, c, n) = s
  BY <1>4, <1>5, <1>7, <1>10
<1> QED
  BY <1>11, <1>12 DEF Longer

\* Without its last sector.
Cuts(d, e, b, n) ==
    /\ n > 1 => e.map[FindIndex(d, b, n - 2)] = End
    /\ \A i \in 0 .. n - 3 : e.map[FindIndex(d, b, i)] = d.map[FindIndex(d, b, i)]

Shorter(d, e, b, c, n) ==
    /\ Linked(e, c, n - 1)
    /\ Chain(e, c) = Chain(d, b) \ {FindIndex(d, b, n - 1)}
    /\ \A i \in 0 .. n - 2 : FindIndex(e, c, i) = FindIndex(d, b, i)

LEMMA ChainCut ==
    ASSUME NEW d, NEW e, NEW b, NEW n, Linked(d, b, n), n > 0, Cuts(d, e, b, n),
           NEW c, c = IF n = 1 THEN End ELSE b
    PROVE  Shorter(d, e, b, c, n)
<1> DEFINE m == n - 1
           q == [i \in 0 .. m |-> IF i < m THEN FindIndex(d, b, i) ELSE End]
<1>1. /\ n \in Nat /\ \A i \in 0 .. n - 1 : FindIndex(d, b, i) \in Sector
      /\ \A i, j \in 0 .. n - 1 : FindIndex(d, b, i) = FindIndex(d, b, j) => i = j
      /\ FindIndex(d, b, n) = End
      /\ Chain(d, b) = {FindIndex(d, b, i) : i \in 0 .. n - 1}
  BY ChainLength DEF Linked
<1>2. /\ m \in Nat /\ q[m] = End
      /\ \A i \in 0 .. m - 1 : q[i] = FindIndex(d, b, i) /\ i \in 0 .. n - 1
  BY <1>1
<1>3. q[0] = c
  BY <1>1, IndexZero
<1>4. \A i \in 0 .. m - 1 : q[i] \in Sector /\ e.map[q[i]] = q[i + 1]
  <2> SUFFICES ASSUME NEW i \in 0 .. m - 1
               PROVE  q[i] \in Sector /\ e.map[q[i]] = q[i + 1]
    OBVIOUS
  <2>1. CASE i = n - 2
    BY <1>1, <2>1 DEF Cuts
  <2>2. CASE i # n - 2
    <3>1. i \in 0 .. n - 3 /\ i \in 0 .. n - 1
      BY <1>1, <2>2
    <3>2. d.map[FindIndex(d, b, i)] = FindIndex(d, b, i + 1)
      BY <3>1, ChainStep
    <3> QED
      BY <1>1, <2>2, <3>1, <3>2 DEF Cuts
  <2> QED
    BY <2>1, <2>2
<1>5. \A i, j \in 0 .. m - 1 : q[i] = q[j] => i = j
  BY <1>1, <1>2
<1>6. {q[i] : i \in 0 .. m - 1} = Chain(d, b) \ {FindIndex(d, b, n - 1)}
  <2>1. \A i \in 0 .. n - 1 : i = n - 1 \/ i \in 0 .. m - 1
    BY <1>1
  <2>2. \A i \in 0 .. m - 1 : i # n - 1 /\ n - 1 \in 0 .. n - 1
    BY <1>1
  <2> HIDE DEF q, m
  <2>3. \A i \in 0 .. m - 1 : q[i] # FindIndex(d, b, n - 1)
    BY <1>1, <1>2, <2>2
  <2> QED
    BY <1>1, <1>2, <2>1, <2>3
<1> HIDE DEF q, m
<1>7. Linked(e, q[0], m) /\ \A i \in 0 .. m : FindIndex(e, q[0], i) = q[i]
  <2>1. Lists(e, m, q)
    BY <1>2, <1>4, <1>5 DEF Lists
  <2> QED
    BY <2>1, LinkedBy
<1>8. Chain(e, c) = {FindIndex(e, c, i) : i \in 0 .. m - 1}
  BY <1>3, <1>7, ChainLength
<1>9. \A i \in 0 .. m - 1 : i \in 0 .. m
  BY <1>2
<1>10. Chain(e, c) = {q[i] : i \in 0 .. m - 1}
  BY <1>3, <1>7, <1>8, <1>9
<1>11. \A i \in 0 .. m - 1 : FindIndex(e, c, i) = FindIndex(d, b, i)
  BY <1>2, <1>3, <1>7, <1>9
<1>12. m = n - 1 /\ 0 .. m - 1 = 0 .. n - 2
  BY <1>1 DEF m
<1> QED
  BY <1>3, <1>6, <1>7, <1>10, <1>11, <1>12 DEF Shorter

-----------------------------------------------------------------------------
(* Histories *)

History(w) == w # << >> /\ \E S : w \in Seq(S)

LEMMA Begun ==
    ASSUME NEW d
    PROVE  History(<< d >>) /\ Now(<< d >>) = d
<1>1. << d >> \in Seq({d})
  OBVIOUS
<1> QED
  BY <1>1 DEF History, Now

LEMMA Written ==
    ASSUME NEW w, History(w), NEW d
    PROVE  History(Write(w, d)) /\ Now(Write(w, d)) = d
<1>1. PICK S : w \in Seq(S)
  BY DEF History
<1>2. w \in Seq(S \union {d}) /\ d \in S \union {d}
  BY <1>1
<1>3. Append(w, d) \in Seq(S \union {d}) /\ Len(Append(w, d)) = Len(w) + 1
  BY <1>2
<1>4. Append(w, d)[Len(w) + 1] = d
  BY <1>2
<1> QED
  BY <1>3, <1>4 DEF History, Write, Now

LEMMA WrittenTwice ==
    ASSUME NEW w, History(w), NEW d, NEW e
    PROVE  History(w \o << d, e >>) /\ Now(w \o << d, e >>) = e
<1>1. PICK S : w \in Seq(S)
  BY DEF History
<1> DEFINE T == S \union {d, e}
<1>2. w \in Seq(T) /\ << d, e >> \in Seq(T)
  BY <1>1
<1>3. w \o << d, e >> \in Seq(T) /\ Len(w \o << d, e >>) = Len(w) + 2
  BY <1>2
<1>4. (w \o << d, e >>)[Len(w) + 2] = e
  BY <1>2
<1> QED
  BY <1>3, <1>4 DEF History, Now

-----------------------------------------------------------------------------
(* Who has which sectors *)

Disks == DiskState(EntrySector \union DataSector)

\* R gives for every owner the record of its chain. Each sector is free or in one chain.
Shares(d, R) ==
    /\ Linked(d, d.freeBegin, d.freeNum)
    /\ \A o \in DOMAIN R : Linked(d, R[o].sctBegin, R[o].sctNum)
    /\ \A o \in DOMAIN R : Chain(d, R[o].sctBegin) \intersect Chain(d, d.freeBegin) = {}
    /\ \A o, p \in DOMAIN R : o # p =>
          Chain(d, R[o].sctBegin) \intersect Chain(d, R[p].sctBegin) = {}
    /\ \A s \in Sector :
          s \in Chain(d, d.freeBegin) \/ \E o \in DOMAIN R : s \in Chain(d, R[o].sctBegin)

\* How one step from d to e moves sectors between the free ones and a chain, which
\* began with b and whose record is c then.
Swaps(d, e, b, c) ==
    /\ Linked(e, e.freeBegin, e.freeNum) /\ Linked(e, c.sctBegin, c.sctNum)
    /\ Chain(e, e.freeBegin) \intersect Chain(e, c.sctBegin) = {}
    /\ Chain(e, e.freeBegin) \union Chain(e, c.sctBegin)
         = Chain(d, d.freeBegin) \union Chain(d, b)
    /\ \A s \in Sector : s \notin Chain(d, d.freeBegin) \union Chain(d, b) =>
          e.map[s] = d.map[s]

\* All other chains are as they were.
Apart(d, e, R, o) ==
    \A p \in DOMAIN R \ {o} : \A i \in Nat :
        FindIndex(e, R[p].sctBegin, i) = FindIndex(d, R[p].sctBegin, i)

LEMMA SharesMoved ==
    ASSUME NEW d, NEW e, NEW R, Shares(d, R), NEW o \in DOMAIN R, NEW c,
           NEW b, b = R[o].sctBegin, Swaps(d, e, b, c)
    PROVE  Shares(e, [R EXCEPT ![o] = c]) /\ Apart(d, e, R, o)
<1> DEFINE Q == [R EXCEPT ![o] = c]
<1>1. DOMAIN Q = DOMAIN R /\ Q[o] = c /\ \A p \in DOMAIN R \ {o} : Q[p] = R[p]
  OBVIOUS
<1>2. ASSUME NEW p \in DOMAIN R \ {o}
      PROVE  /\ Linked(e, R[p].sctBegin, R[p].sctNum)
             /\ Chain(e, R[p].sctBegin) = Chain(d, R[p].sctBegin)
             /\ \A i \in Nat : FindIndex(e, R[p].sctBegin, i) = FindIndex(d, R[p].sctBegin, i)
  <2>1. Linked(d, R[p].sctBegin, R[p].sctNum)
    BY DEF Shares
  <2>2. \A s \in Chain(d, R[p].sctBegin) :
           s \in Sector /\ s \notin Chain(d, d.freeBegin) \union Chain(d, R[o].sctBegin)
    BY <2>1, ChainLength DEF Shares
  <2>3. SameMap(d, e, R[p].sctBegin)
    BY <2>2 DEF SameMap, Swaps
  <2> DEFINE begin == R[p].sctBegin
             num == R[p].sctNum
  <2>4. Linked(d, begin, num) /\ SameMap(d, e, begin)
    BY <2>1, <2>3
  <2> HIDE DEF begin, num
  <2>5. Linked(e, begin, num) /\ Chain(e, begin) = Chain(d, begin)
    BY <2>4, ChainKept
  <2>6. \A i \in Nat : FindIndex(e, begin, i) = FindIndex(d, begin, i)
    BY <2>4, ChainKept
  <2> QED
    BY <2>5, <2>6 DEF begin, num
<1> DEFINE free == Chain(d, d.freeBegin)
           C(p) == Chain(d, R[p].sctBegin)
           freeE == Chain(e, e.freeBegin)
           ofC == Chain(e, c.sctBegin)
<1>3. /\ \A p \in DOMAIN R : C(p) \intersect free = {}
      /\ \A p, r \in DOMAIN R : p # r => C(p) \intersect C(r) = {}
      /\ \A s \in Sector : s \in free \/ \E p \in DOMAIN R : s \in C(p)
      /\ freeE \intersect ofC = {} /\ freeE \union ofC = free \union C(o)
  BY DEF Shares, Swaps
<1>4. /\ \A p \in DOMAIN R \ {o} : Chain(e, Q[p].sctBegin) = C(p)
      /\ Chain(e, Q[o].sctBegin) = ofC
  BY <1>1, <1>2
<1> HIDE DEF free, C, freeE, ofC
<1>5. \A p \in DOMAIN R : Chain(e, Q[p].sctBegin) \intersect freeE = {}
  BY <1>3, <1>4
<1>6. \A p, r \in DOMAIN R : p # r =>
          Chain(e, Q[p].sctBegin) \intersect Chain(e, Q[r].sctBegin) = {}
  BY <1>3, <1>4
<1>7. \A s \in Sector : s \in freeE \/ \E p \in DOMAIN R : s \in Chain(e, Q[p].sctBegin)
  BY <1>3, <1>4
<1>8. \A p \in DOMAIN R : Linked(e, Q[p].sctBegin, Q[p].sctNum)
  BY <1>1, <1>2 DEF Swaps
<1> HIDE DEF Q
<1>9. Shares(e, Q)
  BY <1>1, <1>5, <1>6, <1>7, <1>8 DEF Shares, Swaps, freeE
<1> QED
  BY <1>2, <1>9 DEF Q, Apart

LEMMA DiskFields ==
    ASSUME NEW d \in Disks
    PROVE  /\ d.freeBegin \in Sector \union {End} /\ d.freeNum \in 0 .. dataSize
           /\ d.root \in Chained /\ d.map \in [Sector -> Sector \union {End}]
           /\ d.sct \in [Sector -> EntrySector \union DataSector]
  BY DEF Disks, DiskState

LEMMA FreePart ==
    ASSUME NEW d \in Disks, NEW b \in Sector \union {End}, NEW n \in 0 .. dataSize
    PROVE  LET e == [d EXCEPT !.freeBegin = b, !.freeNum = n]
           IN  /\ e \in Disks /\ e.freeBegin = b /\ e.freeNum = n
               /\ e.root = d.root /\ e.map = d.map /\ e.sct = d.sct
  BY DEF Disks, DiskState

LEMMA MapPart ==
    ASSUME NEW d \in Disks, NEW s \in Sector, NEW t \in Sector \union {End}
    PROVE  LET e == [d EXCEPT !.map[s] = t]
           IN  /\ e \in Disks /\ e.freeBegin = d.freeBegin /\ e.freeNum = d.freeNum
               /\ e.root = d.root /\ e.map = [d.map EXCEPT ![s] = t] /\ e.sct = d.sct
  BY DEF Disks, DiskState

Records == Chained \union FileEntry

\* The same record but for its chain.
SameRecord(fe, ge) ==
    /\ fe \in Chained => ge \in Chained
    /\ fe \in FileEntry => /\ ge \in FileEntry /\ ge.name = fe.name
                           /\ ge.inSctIdx = fe.inSctIdx /\ ge.inSctOff = fe.inSctOff

LEMMA ChainPart ==
    ASSUME NEW fe \in Records, NEW b \in Sector \union {End}, NEW n \in 0 .. dataSize,
           NEW l \in 0 .. SECT_SIZE
    PROVE  LET ge == [fe EXCEPT !.sctBegin = b, !.sctNum = n, !.lastBytes = l]
           IN  /\ ge.sctBegin = b /\ ge.sctNum = n /\ ge.lastBytes = l
               /\ ge \in Records /\ SameRecord(fe, ge)
  BY DEF Records, Chained, FileEntry, SameRecord

LEMMA RecordFields ==
    ASSUME NEW fe \in Records
    PROVE  /\ fe.sctBegin \in Sector \union {End} /\ fe.sctNum \in 0 .. dataSize
           /\ fe.lastBytes \in 0 .. SECT_SIZE
  BY DEF Records, Chained, FileEntry

\* What a change of o's chain from fe to ge leaves alone.
Moved(d, e, R, o, ge) ==
    /\ e \in Disks /\ e.sct = d.sct /\ e.root = d.root
    /\ ge \in Records /\ SameRecord(R[o], ge)
    /\ Shares(e, [R EXCEPT ![o] = ge])
    /\ Apart(d, e, R, o)

LEMMA NotMoved ==
    ASSUME NEW d \in Disks, NEW R, Shares(d, R), NEW o \in DOMAIN R, R = [p \in DOMAIN R |-> R[p]],
           R[o] \in Records
    PROVE  Moved(d, d, R, o, R[o])
<1>1. [R EXCEPT ![o] = R[o]] = R
  OBVIOUS
<1> QED
  BY <1>1 DEF Moved, SameRecord, Apart

\* AllocSector takes the first free sector.
LEMMA Allocated ==
    ASSUME NEW w, History(w), NEW d, d = Now(w), d \in Disks,
           Linked(d, d.freeBegin, d.freeNum), d.freeBegin # End
    PROVE  LET a == AllocSector(w)
               e == Now(a)
           IN  /\ History(a) /\ e \in Disks /\ e.sct = d.sct /\ e.root = d.root
               /\ e.freeBegin = d.map[d.freeBegin] /\ e.freeNum = d.freeNum - 1
               /\ e.map = [d.map EXCEPT ![d.freeBegin] = End]
               /\ d.freeBegin \in Sector
<1> DEFINE si == d.freeBegin
           header == [d EXCEPT !.freeBegin = d.map[si], !.freeNum = d.freeNum - 1]
           e == [header EXCEPT !.map[si] = End]
<1>1. si \in Sector /\ d.map[si] \in Sector \union {End}
  BY DiskFields
<1>2. d.freeNum - 1 \in 0 .. dataSize
  <2>1. d.freeNum \in 0 .. dataSize /\ d.freeNum # 0
    BY ChainLength
  <2> QED
    BY <2>1, Numbers
<1>3. AllocSector(w) = w \o << header, e >>
  BY DEF AllocSector
<1>4. /\ header \in Disks /\ header.freeBegin = d.map[si] /\ header.freeNum = d.freeNum - 1
      /\ header.root = d.root /\ header.map = d.map /\ header.sct = d.sct
  <2> DEFINE b == d.map[si]
             n == d.freeNum - 1
  <2>1. b \in Sector \union {End} /\ n \in 0 .. dataSize
    BY <1>1, <1>2
  <2> HIDE DEF b, n
  <2>2. LET f == [d EXCEPT !.freeBegin = b, !.freeNum = n]
        IN  /\ f \in Disks /\ f.freeBegin = b /\ f.freeNum = n
            /\ f.root = d.root /\ f.map = d.map /\ f.sct = d.sct
    BY <2>1 DEF Disks, DiskState
  <2> QED
    BY <2>2 DEF b, n
<1> HIDE DEF header
<1>5. /\ e \in Disks /\ e.freeBegin = header.freeBegin /\ e.freeNum = header.freeNum
      /\ e.root = header.root /\ e.map = [header.map EXCEPT ![si] = End] /\ e.sct = header.sct
  BY <1>1, <1>4, MapPart
<1> HIDE DEF e
<1>6. History(AllocSector(w)) /\ Now(AllocSector(w)) = e
  BY <1>3, WrittenTwice
<1> QED
  BY <1>1, <1>4, <1>5, <1>6

\* AddToLast, in one write or two, puts the sector behind the last one.
LEMMA AddedToLast ==
    ASSUME NEW w, History(w), NEW d, d = Now(w), d \in Disks, NEW b, NEW n,
           Linked(d, b, n), n > 0, NEW si \in Sector
    PROVE  LET a == AddToLast(w, b, si)
               e == Now(a)
           IN  /\ History(a) /\ e \in Disks /\ e.sct = d.sct /\ e.root = d.root
               /\ e.freeBegin = d.freeBegin /\ e.freeNum = d.freeNum
               /\ e.map = [d.map EXCEPT ![FindIndex(d, b, n - 1)] = si, ![si] = End]
<1> DEFINE last == FindIndex(d, b, n - 1)
           linked == [d EXCEPT !.map[last] = si]
           ended == [linked EXCEPT !.map[si] = End]
<1>1. FindLast(d, b) = last /\ last \in Sector
  <2>1. n - 1 \in 0 .. n - 1 /\ \A i \in 0 .. n - 1 : FindIndex(d, b, i) \in Sector
    BY DEF Linked
  <2>2. FindLast(d, b) = last
    BY LastOf
  <2> QED
    BY <2>1, <2>2
<1>2. /\ AddToLast(w, b, si) = Write(w, ended)
      \/ AddToLast(w, b, si) = w \o << linked, ended >>
  BY <1>1, Zenon DEF AddToLast
<1>3. /\ linked \in Disks /\ linked.freeBegin = d.freeBegin /\ linked.freeNum = d.freeNum
      /\ linked.root = d.root /\ linked.map = [d.map EXCEPT ![last] = si]
      /\ linked.sct = d.sct
  BY <1>1, MapPart
<1> HIDE DEF linked
<1>4. /\ ended \in Disks /\ ended.freeBegin = linked.freeBegin
      /\ ended.freeNum = linked.freeNum /\ ended.root = linked.root
      /\ ended.map = [linked.map EXCEPT ![si] = End] /\ ended.sct = linked.sct
  BY <1>3, MapPart
<1> HIDE DEF ended
<1>5. History(AddToLast(w, b, si)) /\ Now(AddToLast(w, b, si)) = ended
  <2>1. CASE AddToLast(w, b, si) = Write(w, ended)
    BY <2>1, Written
  <2>2. CASE AddToLast(w, b, si) = w \o << linked, ended >>
    BY <2>2, WrittenTwice
  <2> QED
    BY <1>2, <2>1, <2>2
<1>6. ended.map = [d.map EXCEPT ![last] = si, ![si] = End]
  BY <1>3, <1>4
<1> QED
  BY <1>3, <1>4, <1>5, <1>6

\* CheckStorage leaves everything as it is, or gives the owner the first free sector.
Grown(d, e, fe, ge) ==
    /\ fe.lastBytes = SECT_SIZE /\ d.freeBegin \in Sector
    /\ ge.sctNum = fe.sctNum + 1 /\ ge.lastBytes = 0 /\ ge.sctBegin \in Sector
    /\ FindIndex(e, ge.sctBegin, fe.sctNum) = d.freeBegin
    /\ Chain(e, ge.sctBegin) = Chain(d, fe.sctBegin) \union {d.freeBegin}

LEMMA StorageGrows ==
    ASSUME NEW w, History(w), NEW d, d = Now(w), d \in Disks, NEW R, Shares(d, R),
           NEW o \in DOMAIN R, NEW fe, fe = R[o], fe \in Records,
           fe.lastBytes = SECT_SIZE, d.freeBegin # End
    PROVE  LET c == CheckStorage(w, fe)
               e == Now(c[1])
           IN  /\ History(c[1]) /\ Moved(d, e, R, o, c[2])
               /\ Grown(d, e, fe, c[2])
               /\ \A i \in 0 .. fe.sctNum - 1 :
                     FindIndex(e, c[2].sctBegin, i) = FindIndex(d, fe.sctBegin, i)
<1> DEFINE si == d.freeBegin
           b == fe.sctBegin
           n == fe.sctNum
           a == AllocSector(w)
           x == Now(a)
           v == IF b = End THEN a ELSE AddToLast(a, b, si)
           e == Now(v)
           ge == [fe EXCEPT !.sctBegin = IF b = End THEN si ELSE b, !.sctNum = n + 1,
                            !.lastBytes = 0]
<1>1. /\ Linked(d, si, d.freeNum) /\ Linked(d, b, n)
      /\ Chain(d, b) \intersect Chain(d, si) = {}
  BY DEF Shares
<1>2. /\ d.freeNum \in Nat /\ d.freeNum > 0 /\ si \in Chain(d, si) /\ si \in Sector
      /\ n \in Nat /\ (b = End <=> n = 0) /\ si \notin Chain(d, b)
      /\ Chain(d, b) \subseteq Sector /\ Chain(d, si) \subseteq Sector
  <2>1. /\ d.freeNum \in 0 .. dataSize /\ d.freeNum # 0
        /\ (d.freeNum > 0 => si \in Chain(d, si))
        /\ n \in 0 .. dataSize /\ (b = End <=> n = 0)
        /\ Chain(d, b) \subseteq Sector /\ Chain(d, si) \subseteq Sector
    BY <1>1, ChainLength
  <2> QED
    BY <1>1, <2>1, Numbers
<1>3. CheckStorage(w, fe) = << v, ge >>
  BY DEF CheckStorage
<1>4. /\ History(a) /\ x \in Disks /\ x.sct = d.sct /\ x.root = d.root
      /\ x.freeBegin = d.map[si] /\ x.freeNum = d.freeNum - 1
      /\ x.map = [d.map EXCEPT ![si] = End]
  BY <1>1, Allocated
<1> HIDE DEF a
<1>5. SameMap(d, x, b)
  BY <1>2, <1>4, DiskFields DEF SameMap
<1>6. /\ Linked(x, b, n) /\ Chain(x, b) = Chain(d, b)
      /\ \A i \in Nat : FindIndex(x, b, i) = FindIndex(d, b, i)
  BY <1>1, <1>5, ChainKept
<1> DEFINE last == FindIndex(d, b, n - 1)
<1>7. /\ History(v) /\ e \in Disks /\ e.sct = d.sct /\ e.root = d.root
      /\ e.freeBegin = d.map[si] /\ e.freeNum = d.freeNum - 1
      /\ e.map[si] = End /\ (n > 0 => e.map[last] = si)
      /\ \A t \in Sector \ {si} : n = 0 \/ t # last => e.map[t] = d.map[t]
  <2>1. CASE b = End
    BY <1>2, <1>4, <2>1, DiskFields
  <2>2. CASE b # End
    <3>1. n > 0 /\ n - 1 \in Nat /\ last \in Chain(d, b)
      <4>1. Chain(d, b) = {FindIndex(d, b, i) : i \in 0 .. n - 1}
        BY <1>1, ChainLength
      <4>2. n > 0 /\ n - 1 \in 0 .. n - 1
        BY <1>2, <2>2
      <4> QED
        BY <4>1, <4>2
    <3>2. FindIndex(x, b, n - 1) = last /\ last \in Sector /\ last # si
      BY <1>2, <1>6, <3>1
    <3> HIDE DEF last, x
    <3>3. /\ History(v) /\ e \in Disks /\ e.sct = x.sct /\ e.root = x.root
          /\ e.freeBegin = x.freeBegin /\ e.freeNum = x.freeNum
          /\ e.map = [x.map EXCEPT ![FindIndex(x, b, n - 1)] = si, ![si] = End]
      BY <1>2, <1>4, <1>6, <2>2, <3>1, AddedToLast DEF x
    <3>4. /\ x.map = [d.map EXCEPT ![si] = End] /\ d.map \in [Sector -> Sector \union {End}]
          /\ si \in Sector
      BY <1>2, <1>4, DiskFields
    <3>5. e.map = [x.map EXCEPT ![last] = si, ![si] = End]
      BY <3>2, <3>3
    <3>6. /\ e.map[si] = End /\ e.map[last] = si
          /\ \A t \in Sector \ {si} : t # last => e.map[t] = d.map[t]
      BY <3>2, <3>4, <3>5
    <3> QED
      BY <1>2, <1>4, <3>1, <3>3, <3>6
  <2> QED
    BY <2>1, <2>2
<1> HIDE DEF v, e, x
\* the owner's chain
<1> DEFINE begin == IF n = 0 THEN si ELSE b
<1>8. /\ Linked(e, begin, n + 1) /\ Chain(e, begin) = Chain(d, b) \union {si}
      /\ \A i \in 0 .. n - 1 : FindIndex(e, begin, i) = FindIndex(d, b, i)
      /\ FindIndex(e, begin, n) = si
  <2>1. Extends(d, e, b, n, si)
    BY <1>2, <1>7 DEF Extends
  <2>2. begin = IF n = 0 THEN si ELSE b
    OBVIOUS
  <2> HIDE DEF begin, b, n, si, last
  <2>3. Longer(d, e, b, begin, n, si)
    BY <1>1, <2>1, <2>2, ChainExtended
  <2> QED
    BY <2>3 DEF Longer
<1>9. begin \in Sector /\ n + 1 \in 0 .. dataSize
  <2>1. begin \in Chain(e, begin) /\ Chain(e, begin) \subseteq Sector /\ n + 1 \in 0 .. dataSize
    BY <1>2, <1>8, ChainLength
  <2> QED
    BY <2>1
<1>10. /\ ge.sctBegin = begin /\ ge.sctNum = n + 1 /\ ge.lastBytes = 0
       /\ ge \in Records /\ SameRecord(fe, ge)
  <2>1. ge = [fe EXCEPT !.sctBegin = begin, !.sctNum = n + 1, !.lastBytes = 0]
    BY <1>2
  <2>2. 0 \in 0 .. SECT_SIZE
    BY DiskAssumption
  <2> HIDE DEF ge, begin
  <2> QED
    BY <1>9, <2>1, <2>2 DEF Records, Chained, FileEntry, SameRecord
<1> HIDE DEF ge
\* the free sectors
<1>11. /\ Linked(e, d.map[si], d.freeNum - 1)
       /\ Chain(e, d.map[si]) = Chain(d, si) \ {si}
  <2>1. /\ Linked(d, d.map[si], d.freeNum - 1)
        /\ Chain(d, d.map[si]) = Chain(d, si) \ {si}
    BY <1>1, <1>2, ChainRest
  <2>2. SameMap(d, e, d.map[si])
    <3>1. n > 0 => last \in Chain(d, b)
      <4>1. Chain(d, b) = {FindIndex(d, b, i) : i \in 0 .. n - 1}
        BY <1>1, ChainLength
      <4>2. n > 0 => n - 1 \in 0 .. n - 1
        BY <1>2
      <4> QED
        BY <4>1, <4>2
    <3>2. \A t \in Chain(d, si) : n = 0 \/ t # last
      BY <1>1, <1>2, <3>1
    <3> QED
      BY <1>2, <1>7, <2>1, <3>2 DEF SameMap
  <2> QED
    BY <2>1, <2>2, ChainKept
\* all owners
<1>12. \A s \in Sector : s \notin Chain(d, si) \union Chain(d, b) => e.map[s] = d.map[s]
  <2>1. n > 0 => last \in Chain(d, b)
    <3>1. Chain(d, b) = {FindIndex(d, b, i) : i \in 0 .. n - 1}
      BY <1>1, ChainLength
    <3>2. n > 0 => n - 1 \in 0 .. n - 1
      BY <1>2
    <3> QED
      BY <3>1, <3>2
  <2> QED
    BY <1>2, <1>7, <2>1
<1>13. /\ Shares(e, [R EXCEPT ![o] = ge])
       /\ Apart(d, e, R, o)
  <2>1. Linked(e, e.freeBegin, e.freeNum) /\ Linked(e, ge.sctBegin, ge.sctNum)
    BY <1>7, <1>8, <1>10, <1>11
  <2>2. /\ Chain(e, e.freeBegin) \intersect Chain(e, ge.sctBegin) = {}
        /\ Chain(e, e.freeBegin) \union Chain(e, ge.sctBegin)
             = Chain(d, d.freeBegin) \union Chain(d, b)
    BY <1>1, <1>2, <1>7, <1>8, <1>10, <1>11
  <2>3. \A s \in Sector : s \notin Chain(d, d.freeBegin) \union Chain(d, b) =>
              e.map[s] = d.map[s]
    BY <1>12
  <2>9. Swaps(d, e, b, ge)
    BY <2>1, <2>2, <2>3 DEF Swaps
  <2>10. b = R[o].sctBegin
    OBVIOUS
  <2> HIDE DEF b
  <2> QED
    BY <2>9, <2>10, SharesMoved
<1>14. Moved(d, e, R, o, ge)
  BY <1>7, <1>10, <1>13 DEF Moved
<1>15. Grown(d, e, fe, ge)
  BY <1>2, <1>8, <1>9, <1>10 DEF Grown
<1> QED
  BY <1>3, <1>7, <1>8, <1>10, <1>14, <1>15 DEF e

\* FreeSector puts a sector before the free ones.
LEMMA Freed ==
    ASSUME NEW w, History(w), NEW d, d = Now(w), d \in Disks, NEW s \in Sector,
           d.freeNum + 1 \in 0 .. dataSize
    PROVE  LET a == FreeSector(w, s)
               e == Now(a)
           IN  /\ History(a) /\ e \in Disks /\ e.sct = d.sct /\ e.root = d.root
               /\ e.freeBegin = s /\ e.freeNum = d.freeNum + 1
               /\ e.map = [d.map EXCEPT ![s] = d.freeBegin]
<1> DEFINE header == [d EXCEPT !.freeBegin = s, !.freeNum = d.freeNum + 1]
           e == [header EXCEPT !.map[s] = d.freeBegin]
<1>1. FreeSector(w, s) = w \o << header, e >>
  BY DEF FreeSector
<1>2. /\ header \in Disks /\ header.freeBegin = s /\ header.freeNum = d.freeNum + 1
      /\ header.root = d.root /\ header.map = d.map /\ header.sct = d.sct
  BY DEF Disks, DiskState
<1> HIDE DEF header
<1>3. d.freeBegin \in Sector \union {End}
  BY DiskFields
<1>4. /\ e \in Disks /\ e.freeBegin = header.freeBegin /\ e.freeNum = header.freeNum
      /\ e.root = header.root /\ e.map = [header.map EXCEPT ![s] = d.freeBegin]
      /\ e.sct = header.sct
  BY <1>2, <1>3, MapPart
<1> HIDE DEF e
<1>5. History(FreeSector(w, s)) /\ Now(FreeSector(w, s)) = e
  BY <1>1, WrittenTwice
<1> QED
  BY <1>2, <1>4, <1>5

\* After the writes of a, the sector s ends a chain.
EndsChain(d, s, a) ==
    LET e == Now(a)
    IN  /\ History(a) /\ e \in Disks /\ e.sct = d.sct /\ e.root = d.root
        /\ e.freeBegin = d.freeBegin /\ e.freeNum = d.freeNum
        /\ e.map = IF s = End THEN d.map ELSE [d.map EXCEPT ![s] = End]

LEMMA Marked ==
    ASSUME NEW w, History(w), NEW d, d = Now(w), d \in Disks, NEW s \in Sector \union {End}
    PROVE  EndsChain(d, s, MarkSector(w, s))
<1>1. CASE s = End
  BY <1>1 DEF MarkSector, EndsChain
<1>2. CASE s # End
  <2> DEFINE e == [d EXCEPT !.map[s] = End]
  <2>1. MarkSector(w, s) = Write(w, e)
    BY <1>2 DEF MarkSector
  <2>2. /\ e \in Disks /\ e.freeBegin = d.freeBegin /\ e.freeNum = d.freeNum
        /\ e.root = d.root /\ e.map = [d.map EXCEPT ![s] = End] /\ e.sct = d.sct
    BY <1>2, MapPart
  <2> HIDE DEF e
  <2>3. History(MarkSector(w, s)) /\ Now(MarkSector(w, s)) = e
    BY <2>1, Written
  <2> QED
    BY <1>2, <2>2, <2>3 DEF EndsChain
<1> QED
  BY <1>1, <1>2

\* There is room in the list of free sectors for one that is in a chain.
LEMMA FreeNotAll ==
    ASSUME NEW d, NEW R, Shares(d, R), NEW o \in DOMAIN R, R[o].sctNum > 0
    PROVE  d.freeNum + 1 \in 0 .. dataSize
<1> DEFINE F == Chain(d, d.freeBegin)
           s == R[o].sctBegin
<1>1. F \subseteq Sector /\ Cardinality(F) = d.freeNum /\ d.freeNum \in 0 .. dataSize
  BY ChainLength DEF Shares
<1>2. s \in Sector /\ s \notin F
  <2>1. Linked(d, s, R[o].sctNum) /\ Chain(d, s) \intersect F = {}
    BY DEF Shares
  <2>2. s \in Chain(d, s) /\ Chain(d, s) \subseteq Sector
    BY <2>1, ChainLength
  <2> QED
    BY <2>1, <2>2
<1> HIDE DEF F, s
<1>3. F # Sector
  BY <1>2
<1>4. Cardinality(F) # Cardinality(Sector) /\ Cardinality(F) <= Cardinality(Sector)
  <2>1. F \in SUBSET Sector
    BY <1>1
  <2> QED
    BY <1>3, <2>1, Numbers, FS_Subset
<1> QED
  BY <1>1, <1>4, Numbers

\* AdjustStorage frees the last sector of a chain.
Shrunk(d, e, fe, ge) ==
    /\ ge.sctNum = fe.sctNum - 1 /\ ge.lastBytes = SECT_SIZE
    /\ ge.sctBegin = IF fe.sctNum = 1 THEN End ELSE fe.sctBegin
    /\ \A i \in 0 .. fe.sctNum - 2 :
          FindIndex(e, ge.sctBegin, i) = FindIndex(d, fe.sctBegin, i)

LEMMA StorageShrinks ==
    ASSUME NEW w, History(w), NEW d, d = Now(w), d \in Disks, NEW R, Shares(d, R),
           NEW o \in DOMAIN R, NEW fe \in Records, SameRecord(R[o], fe),
           fe.sctBegin = R[o].sctBegin, fe.sctNum = R[o].sctNum, fe.sctNum > 0
    PROVE  LET c == AdjustStorage(w, fe)
               e == Now(c[1])
           IN  /\ History(c[1]) /\ Moved(d, e, R, o, c[2]) /\ Shrunk(d, e, fe, c[2])
<1> DEFINE b == fe.sctBegin
           n == fe.sctNum
           free == d.freeBegin
           last == FindIndex(d, b, n - 1)
           prev == IF n = 1 THEN End ELSE FindIndex(d, b, n - 2)
           a == FreeSector(w, last)
           x == Now(a)
           v == MarkSector(a, prev)
           e == Now(v)
           ge == [fe EXCEPT !.sctNum = n - 1, !.lastBytes = SECT_SIZE,
                            !.sctBegin = IF n = 1 THEN End ELSE b]
<1>1. /\ Linked(d, free, d.freeNum) /\ Linked(d, b, n)
      /\ Chain(d, b) \intersect Chain(d, free) = {}
  BY DEF Shares
<1>2. /\ n \in Nat /\ n \in 0 .. dataSize
      /\ Chain(d, b) \subseteq Sector /\ Chain(d, free) \subseteq Sector
      /\ Chain(d, b) = {FindIndex(d, b, i) : i \in 0 .. n - 1}
      /\ b \in Chain(d, b)
  BY <1>1, ChainLength DEF Linked
<1>3. /\ FindLast(d, b) = last /\ FindPrev(d, b, last) = prev
  BY <1>1, LastOf
<1>4. AdjustStorage(w, fe) = << v, ge >>
  BY <1>3 DEF AdjustStorage
<1>5. /\ last \in Chain(d, b) /\ last \in Sector /\ last \notin Chain(d, free)
      /\ prev \in Sector \union {End} /\ prev # last /\ (n > 1 <=> prev # End)
      /\ (n > 1 => prev \in Chain(d, b) /\ prev = FindIndex(d, b, n - 2))
  <2>1. n - 1 \in 0 .. n - 1 /\ (n > 1 => n - 2 \in 0 .. n - 1)
    BY <1>2
  <2>2. last \in Chain(d, b) /\ (n > 1 => FindIndex(d, b, n - 2) \in Chain(d, b))
    BY <1>2, <2>1
  <2>3. n > 1 => FindIndex(d, b, n - 2) # last
    BY <1>1, <1>2, <2>1 DEF Linked
  <2> QED
    BY <1>1, <1>2, <2>2, <2>3, Numbers
<1> HIDE DEF last, prev, ge
<1>6. d.freeNum + 1 \in 0 .. dataSize
  BY FreeNotAll
<1>7. /\ History(a) /\ x \in Disks /\ x.sct = d.sct /\ x.root = d.root
      /\ x.freeBegin = last /\ x.freeNum = d.freeNum + 1
      /\ x.map = [d.map EXCEPT ![last] = free]
  BY <1>5, <1>6, Freed
<1> HIDE DEF a
<1>8. /\ History(v) /\ e \in Disks /\ e.sct = x.sct /\ e.root = x.root
      /\ e.freeBegin = x.freeBegin /\ e.freeNum = x.freeNum
      /\ e.map = IF prev = End THEN x.map ELSE [x.map EXCEPT ![prev] = End]
  <2>1. prev \in Sector \union {End} /\ History(a) /\ x = Now(a) /\ x \in Disks
    BY <1>5, <1>7
  <2>2. v = MarkSector(a, prev) /\ e = Now(v)
    OBVIOUS
  <2> HIDE DEF x, v, e
  <2>3. EndsChain(x, prev, v)
    BY <2>1, <2>2, Marked
  <2> QED
    BY <2>2, <2>3 DEF EndsChain
<1> HIDE DEF v, x
<1>9. /\ e.map[last] = free /\ (n > 1 => e.map[prev] = End)
      /\ \A t \in Sector : t # last /\ t # prev => e.map[t] = d.map[t]
  <2>1. d.map \in [Sector -> Sector \union {End}]
    BY DiskFields
  <2> QED
    BY <1>5, <1>7, <1>8, <2>1
<1> HIDE DEF e
\* the free sectors
<1>10. /\ Linked(e, last, d.freeNum + 1)
       /\ Chain(e, last) = Chain(d, free) \union {last}
  <2>1. \A t \in Chain(d, free) : e.map[t] = d.map[t]
    BY <1>1, <1>2, <1>5, <1>9, Numbers
  <2>2. Pushes(d, e, free, last)
    BY <1>5, <1>9, <2>1 DEF Pushes
  <2> QED
    BY <1>1, <2>2, ChainPushed
\* the owner's chain
<1> DEFINE begin == IF n = 1 THEN End ELSE b
<1>11. Shorter(d, e, b, begin, n)
  <2>1. Cuts(d, e, b, n)
    <3>1. n > 1 => e.map[FindIndex(d, b, n - 2)] = End
      BY <1>5, <1>9
    <3>2. ASSUME NEW i \in 0 .. n - 3
          PROVE  e.map[FindIndex(d, b, i)] = d.map[FindIndex(d, b, i)]
      <4>1. i \in 0 .. n - 1 /\ n - 1 \in 0 .. n - 1 /\ n - 2 \in 0 .. n - 1 /\ n > 1
        BY <1>2
      <4>2. FindIndex(d, b, i) # last /\ FindIndex(d, b, i) # prev /\ FindIndex(d, b, i) \in Sector
        BY <1>1, <1>2, <1>5, <4>1 DEF Linked, last
      <4> QED
        BY <1>9, <4>2
    <3> QED
      BY <3>1, <3>2 DEF Cuts
  <2>2. begin = IF n = 1 THEN End ELSE b
    OBVIOUS
  <2> HIDE DEF begin
  <2> QED
    BY <1>1, <2>1, <2>2, ChainCut
<1>12. begin \in Sector \union {End} /\ n - 1 \in 0 .. dataSize
  <2>1. b \in Sector
    BY <1>2
  <2>2. n - 1 \in 0 .. dataSize
    BY <1>2, Numbers
  <2> QED
    BY <2>1, <2>2
<1>13. /\ ge.sctBegin = begin /\ ge.sctNum = n - 1 /\ ge.lastBytes = SECT_SIZE
       /\ ge \in Records /\ SameRecord(R[o], ge)
  <2>1. ge = [fe EXCEPT !.sctNum = n - 1, !.lastBytes = SECT_SIZE, !.sctBegin = begin]
    BY DEF ge
  <2>2. SECT_SIZE \in 0 .. SECT_SIZE
    BY DiskAssumption
  <2> HIDE DEF begin
  <2> QED
    BY <1>12, <2>1, <2>2 DEF Records, Chained, FileEntry, SameRecord
\* all owners
<1>14. /\ Shares(e, [R EXCEPT ![o] = ge])
       /\ Apart(d, e, R, o)
  <2> HIDE DEF begin
  <2>1. Linked(e, e.freeBegin, e.freeNum) /\ Linked(e, ge.sctBegin, ge.sctNum)
    BY <1>7, <1>8, <1>10, <1>11, <1>13 DEF Shorter
  <2>2. /\ Chain(e, e.freeBegin) = Chain(d, free) \union {last}
        /\ Chain(e, ge.sctBegin) = Chain(d, b) \ {last}
    BY <1>7, <1>8, <1>10, <1>11, <1>13 DEF Shorter, last
  <2>3. /\ Chain(e, e.freeBegin) \intersect Chain(e, ge.sctBegin) = {}
        /\ Chain(e, e.freeBegin) \union Chain(e, ge.sctBegin)
             = Chain(d, d.freeBegin) \union Chain(d, b)
    BY <1>1, <1>5, <2>2
  <2>4. \A s \in Sector : s \notin Chain(d, d.freeBegin) \union Chain(d, b) =>
              e.map[s] = d.map[s]
    BY <1>5, <1>9, Numbers
  <2>9. Swaps(d, e, b, ge)
    BY <2>1, <2>3, <2>4 DEF Swaps
  <2>10. b = R[o].sctBegin
    OBVIOUS
  <2> HIDE DEF b
  <2> QED
    BY <2>9, <2>10, SharesMoved
<1>15. Moved(d, e, R, o, ge)
  BY <1>7, <1>8, <1>13, <1>14 DEF Moved
<1>16. Shrunk(d, e, fe, ge)
  BY <1>11, <1>13 DEF Shrunk, Shorter
<1> QED
  BY <1>4, <1>8, <1>15, <1>16 DEF e

LEMMA MovedTwice ==
    ASSUME NEW d, NEW e, NEW x, NEW R, NEW o \in DOMAIN R, NEW c, NEW c2,
           R = [p \in DOMAIN R |-> R[p]],
           Moved(d, e, R, o, c), Moved(e, x, [R EXCEPT ![o] = c], o, c2)
    PROVE  Moved(d, x, R, o, c2)
<1> DEFINE Q == [R EXCEPT ![o] = c]
<1>1. /\ DOMAIN Q = DOMAIN R /\ Q[o] = c /\ \A p \in DOMAIN R \ {o} : Q[p] = R[p]
      /\ [Q EXCEPT ![o] = c2] = [R EXCEPT ![o] = c2]
  OBVIOUS
<1> HIDE DEF Q
<1>2. /\ x \in Disks /\ x.sct = d.sct /\ x.root = d.root /\ c2 \in Records
      /\ Shares(x, [R EXCEPT ![o] = c2])
  BY <1>1 DEF Moved, Q
<1>3. SameRecord(R[o], c2)
  <2>1. SameRecord(R[o], c) /\ SameRecord(c, c2)
    BY <1>1 DEF Moved, Q
  <2> QED
    BY <2>1 DEF SameRecord
<1>4. ASSUME NEW p \in DOMAIN R \ {o}, NEW i \in Nat
      PROVE  FindIndex(x, R[p].sctBegin, i) = FindIndex(d, R[p].sctBegin, i)
  <2>1. FindIndex(e, R[p].sctBegin, i) = FindIndex(d, R[p].sctBegin, i)
    BY DEF Moved, Apart
  <2>2. FindIndex(x, Q[p].sctBegin, i) = FindIndex(e, Q[p].sctBegin, i)
    BY <1>1 DEF Moved, Q, Apart
  <2> QED
    BY <1>1, <2>1, <2>2
<1> QED
  BY <1>2, <1>3, <1>4 DEF Moved, Apart

\* The first sector of a chain is freed.
WithoutFirst(d, fe) == [fe EXCEPT !.sctBegin = d.map[fe.sctBegin], !.sctNum = fe.sctNum - 1]

LEMMA FirstFreed ==
    ASSUME NEW w, History(w), NEW d, d = Now(w), d \in Disks, NEW R, Shares(d, R),
           NEW o \in DOMAIN R, NEW fe, fe = R[o], fe \in Records, fe.sctNum > 0,
           NEW a, a = FreeSector(w, fe.sctBegin), NEW e, e = Now(a), NEW ge,
           ge = WithoutFirst(d, fe)
    PROVE  /\ History(a) /\ Moved(d, e, R, o, ge)
           /\ \A s \in Sector : s # fe.sctBegin => e.map[s] = d.map[s]
<1> DEFINE b == fe.sctBegin
           n == fe.sctNum
           free == d.freeBegin
           begin == d.map[b]
<1>1. /\ Linked(d, free, d.freeNum) /\ Linked(d, b, n)
      /\ Chain(d, b) \intersect Chain(d, free) = {}
  BY DEF Shares
<1>2. /\ n \in Nat /\ n \in 0 .. dataSize /\ b \in Chain(d, b) /\ b \in Sector
      /\ Chain(d, b) \subseteq Sector /\ Chain(d, free) \subseteq Sector
      /\ b \notin Chain(d, free)
  <2>1. /\ n \in 0 .. dataSize /\ b \in Chain(d, b)
        /\ Chain(d, b) \subseteq Sector /\ Chain(d, free) \subseteq Sector
    BY <1>1, ChainLength
  <2> QED
    BY <1>1, <2>1, Numbers
<1>3. d.freeNum + 1 \in 0 .. dataSize
  BY FreeNotAll
<1>4. /\ History(a) /\ e \in Disks /\ e.sct = d.sct /\ e.root = d.root
      /\ e.freeBegin = b /\ e.freeNum = d.freeNum + 1
      /\ e.map = [d.map EXCEPT ![b] = free]
  BY <1>2, <1>3, Freed
<1>5. /\ e.map[b] = free /\ \A s \in Sector : s # b => e.map[s] = d.map[s]
      /\ begin \in Sector \union {End}
  BY <1>2, <1>4, DiskFields
<1>6. Linked(e, b, d.freeNum + 1) /\ Chain(e, b) = Chain(d, free) \union {b}
  <2>1. Pushes(d, e, free, b)
    BY <1>2, <1>5 DEF Pushes
  <2> QED
    BY <1>1, <2>1, ChainPushed
<1>7. Linked(e, begin, n - 1) /\ Chain(e, begin) = Chain(d, b) \ {b}
  <2>1. Linked(d, begin, n - 1) /\ Chain(d, begin) = Chain(d, b) \ {b}
    BY <1>1, ChainRest DEF begin
  <2>2. SameMap(d, e, begin)
    BY <1>2, <1>5, <2>1 DEF SameMap
  <2> QED
    BY <2>1, <2>2, ChainKept
<1>8. n - 1 \in 0 .. dataSize
  BY <1>2, Numbers
<1>9. /\ ge.sctBegin = begin /\ ge.sctNum = n - 1
      /\ ge \in Records /\ SameRecord(fe, ge)
  BY <1>5, <1>8 DEF WithoutFirst, Records, Chained, FileEntry, SameRecord
<1>10. /\ Shares(e, [R EXCEPT ![o] = ge])
       /\ Apart(d, e, R, o)
  <2>1. Linked(e, e.freeBegin, e.freeNum) /\ Linked(e, ge.sctBegin, ge.sctNum)
    BY <1>4, <1>6, <1>7, <1>9
  <2>2. /\ Chain(e, e.freeBegin) \intersect Chain(e, ge.sctBegin) = {}
        /\ Chain(e, e.freeBegin) \union Chain(e, ge.sctBegin)
             = Chain(d, d.freeBegin) \union Chain(d, b)
    BY <1>1, <1>2, <1>4, <1>6, <1>7, <1>9
  <2>3. \A s \in Sector : s \notin Chain(d, d.freeBegin) \union Chain(d, b) =>
              e.map[s] = d.map[s]
    BY <1>2, <1>5
  <2>9. Swaps(d, e, b, ge)
    BY <2>1, <2>2, <2>3 DEF Swaps
  <2>10. b = R[o].sctBegin
    OBVIOUS
  <2> HIDE DEF b
  <2> QED
    BY <2>9, <2>10, SharesMoved
<1>11. Moved(d, e, R, o, ge)
  BY <1>4, <1>9, <1>10 DEF Moved
<1> QED
  BY <1>4, <1>5, <1>11

\* The loop of FreeFile.
FreeLoop(w, begin, n, f) ==
    f = [i \in 0 .. n |-> IF i = 0 THEN w
                          ELSE FreeSector(f[i - 1], FindIndex(Now(w), begin, i - 1))]

LEMMA FreeLoopExists ==
    ASSUME NEW w, NEW begin, NEW n \in Nat
    PROVE  \E f : FreeLoop(w, begin, n, f)
<1> DEFINE S == {k \in Nat : ~ \E f : FreeLoop(w, begin, k, f)}
<1> SUFFICES ASSUME S # {} PROVE FALSE
  OBVIOUS
<1>1. PICK k \in S : \A j \in S : k <= j
  BY Least
<1>2. k # 0
  <2>1. FreeLoop(w, begin, 0, [i \in 0 .. 0 |-> w])
    BY DEF FreeLoop
  <2> QED
    BY <2>1
<1>3. k - 1 \in Nat /\ k - 1 \notin S
  BY <1>1, <1>2
<1>4. PICK f : FreeLoop(w, begin, k - 1, f)
  BY <1>3
<1> DEFINE last == FreeSector(f[k - 1], FindIndex(Now(w), begin, k - 1))
           g == [i \in 0 .. k |-> IF i < k THEN f[i] ELSE last]
<1>5. FreeLoop(w, begin, k, g)
  BY <1>2, <1>3, <1>4 DEF FreeLoop
<1> QED
  BY <1>1, <1>5

LEMMA FreeFileLoops ==
    ASSUME NEW w, NEW begin, NEW n \in Nat, n = Cardinality(Chain(Now(w), begin))
    PROVE  \E f : FreeLoop(w, begin, n, f) /\ FreeFile(w, begin) = f[n]
<1> DEFINE at == CHOOSE f : FreeLoop(w, begin, n, f)
<1>1. FreeLoop(w, begin, n, at)
  BY FreeLoopExists
<1>2. FreeFile(w, begin) = at[n]
  BY DEF FreeFile, FreeLoop
<1> QED
  BY <1>1, <1>2


\* What holds when i sectors of the owner's chain are freed.
FreedSoFar(d, R, o, i, v) ==
    /\ History(v)
    /\ Moved(d, Now(v), R, o, [R[o] EXCEPT !.sctBegin = FindIndex(d, R[o].sctBegin, i),
                                           !.sctNum = R[o].sctNum - i])
    /\ \A j \in i .. R[o].sctNum - 1 :
          Now(v).map[FindIndex(d, R[o].sctBegin, j)] = d.map[FindIndex(d, R[o].sctBegin, j)]

LEMMA OneMoreFreed ==
    ASSUME NEW d, NEW R, R = [p \in DOMAIN R |-> R[p]], Shares(d, R), NEW o \in DOMAIN R,
           R[o] \in Records, NEW i \in 0 .. R[o].sctNum - 1, NEW v, FreedSoFar(d, R, o, i, v)
    PROVE  FreedSoFar(d, R, o, i + 1, FreeSector(v, FindIndex(d, R[o].sctBegin, i)))
<1> DEFINE b == R[o].sctBegin
           n == R[o].sctNum
           s == FindIndex(d, b, i)
           c == [R[o] EXCEPT !.sctBegin = s, !.sctNum = n - i]
           c2 == [R[o] EXCEPT !.sctBegin = FindIndex(d, b, i + 1), !.sctNum = n - (i + 1)]
           x == Now(v)
           Q == [R EXCEPT ![o] = c]
           ge == WithoutFirst(x, c)
           a == FreeSector(v, c.sctBegin)
           e == Now(a)
<1>1. Linked(d, b, n)
  BY DEF Shares
<1>2. n \in 0 .. dataSize
  BY <1>1, ChainLength
<1>3. s \in Sector /\ FindIndex(d, b, i + 1) = d.map[s] /\ i \in Nat /\ n \in Nat
  BY <1>1, <1>2, ChainStep, Numbers DEF Linked
<1>4. /\ History(v) /\ Moved(d, x, R, o, c)
      /\ \A j \in i .. n - 1 : x.map[FindIndex(d, b, j)] = d.map[FindIndex(d, b, j)]
  BY DEF FreedSoFar
<1>5. c.sctBegin = s /\ c.sctNum = n - i
  BY DEF Records, Chained, FileEntry
<1>6. /\ x \in Disks /\ Shares(x, Q) /\ o \in DOMAIN Q /\ c = Q[o] /\ c \in Records
      /\ c.sctNum > 0
  BY <1>2, <1>4, <1>5 DEF Moved
<1>7. x.map[s] = d.map[s]
  <2>1. i \in i .. n - 1
    BY <1>2
  <2> QED
    BY <1>4, <2>1
<1>8. ge = c2
  <2>1. ge = [R[o] EXCEPT !.sctBegin = x.map[s], !.sctNum = (n - i) - 1]
    BY <1>5 DEF WithoutFirst, Records, Chained, FileEntry
  <2>2. (n - i) - 1 = n - (i + 1)
    BY <1>3
  <2> QED
    BY <2>1, <2>2, <1>3, <1>7
<1> HIDE DEF c, Q, x
<1>9. /\ History(a) /\ Moved(x, e, Q, o, ge)
      /\ \A t \in Sector : t # c.sctBegin => e.map[t] = x.map[t]
  <2>1. a = FreeSector(v, c.sctBegin) /\ e = Now(a) /\ x = Now(v)
        /\ ge = WithoutFirst(x, c)
    BY DEF x
  <2> HIDE DEF ge, a, e
  <2> QED
    BY <1>4, <1>6, <2>1, FirstFreed, SMTT(30)
<1> HIDE DEF ge, c2, a
<1>10. Moved(d, e, R, o, c2)
  BY <1>4, <1>8, <1>9, MovedTwice DEF Q
<1>11. ASSUME NEW j \in i + 1 .. n - 1
       PROVE  e.map[FindIndex(d, b, j)] = d.map[FindIndex(d, b, j)]
  <2>1. j \in 0 .. n - 1 /\ i \in 0 .. n - 1 /\ j # i /\ j \in i .. n - 1
    BY <1>3
  <2>2. FindIndex(d, b, j) \in Sector /\ FindIndex(d, b, j) # s
    BY <1>1, <2>1 DEF Linked
  <2> QED
    BY <1>4, <1>5, <1>9, <2>1, <2>2
<1>12. a = FreeSector(v, s)
  BY <1>5 DEF a
<1> QED
  BY <1>9, <1>10, <1>11, <1>12 DEF FreedSoFar, c2

\* The record of a file whose sectors were freed.
Emptied(fe) == [fe EXCEPT !.sctBegin = End, !.sctNum = 0]

LEMMA FileFreed ==
    ASSUME NEW w, History(w), NEW d, d = Now(w), d \in Disks,
           NEW R, R = [p \in DOMAIN R |-> R[p]], Shares(d, R), NEW o \in DOMAIN R,
           NEW fe, fe = R[o], fe \in Records, NEW a, a = FreeFile(w, fe.sctBegin)
    PROVE  History(a) /\ Moved(d, Now(a), R, o, Emptied(fe))
<1> DEFINE b == R[o].sctBegin
           n == R[o].sctNum
<1>1. Linked(d, b, n)
  BY DEF Shares
<1>2. n \in 0 .. dataSize /\ n \in Nat /\ n = Cardinality(Chain(Now(w), b))
  BY <1>1, ChainLength DEF Linked
<1>3. PICK f : FreeLoop(w, b, n, f) /\ FreeFile(w, b) = f[n]
  BY <1>2, FreeFileLoops
<1> DEFINE S == {i \in Nat : i <= n /\ ~ FreedSoFar(d, R, o, i, f[i])}
<1>4. S = {}
  <2> SUFFICES ASSUME S # {} PROVE FALSE
    OBVIOUS
  <2>1. PICK k \in S : \A j \in S : k <= j
    <3>1. S \subseteq Nat
      OBVIOUS
    <3> QED
      BY <3>1, Least
  <2>2. k # 0
    <3>1. f[0] = w
      BY <1>2, <1>3 DEF FreeLoop
    <3>2. [R[o] EXCEPT !.sctBegin = FindIndex(d, b, 0), !.sctNum = n - 0] = R[o]
      <4>1. FindIndex(d, b, 0) = b /\ n - 0 = n
        BY <1>2, IndexZero
      <4>2. [R[o] EXCEPT !.sctBegin = R[o].sctBegin, !.sctNum = R[o].sctNum] = R[o]
        BY DEF Records, Chained, FileEntry
      <4> QED
        BY <4>1, <4>2
    <3>3. Moved(d, d, R, o, R[o])
      BY NotMoved
    <3>4. FreedSoFar(d, R, o, 0, w)
      BY <3>2, <3>3 DEF FreedSoFar
    <3> QED
      BY <3>1, <3>4
  <2>3. k - 1 \in 0 .. n - 1 /\ k - 1 \in Nat /\ k - 1 \notin S /\ (k - 1) + 1 = k
        /\ k \in 0 .. n
    BY <1>2, <2>1, <2>2
  <2>4. FreedSoFar(d, R, o, k - 1, f[k - 1])
    BY <1>2, <2>3
  <2>5. FreedSoFar(d, R, o, (k - 1) + 1, FreeSector(f[k - 1], FindIndex(d, b, k - 1)))
    BY <2>3, <2>4, OneMoreFreed
  <2>6. f[k] = FreeSector(f[k - 1], FindIndex(d, b, k - 1))
    BY <1>3, <2>2, <2>3 DEF FreeLoop
  <2> QED
    BY <2>1, <2>3, <2>5, <2>6
<1>5. FreedSoFar(d, R, o, n, f[n])
  BY <1>2, <1>4
<1>6. FindIndex(d, b, n) = End /\ n - n = 0
  BY <1>1, <1>2 DEF Linked
<1>7. a = f[n]
  BY <1>3
<1> HIDE DEF b, n
<1>8. History(a) /\ Moved(d, Now(a), R, o, [R[o] EXCEPT !.sctBegin = End, !.sctNum = 0])
  BY <1>5, <1>6, <1>7 DEF FreedSoFar, b, n
<1> QED
  BY <1>8 DEF Emptied

\* A record whose chain is the same.
SameChain(fe, ge) == ge.sctBegin = fe.sctBegin /\ ge.sctNum = fe.sctNum

LEMMA SharesSame ==
    ASSUME NEW d, NEW R, Shares(d, R), NEW Q, DOMAIN Q = DOMAIN R,
           \A p \in DOMAIN R : SameChain(R[p], Q[p])
    PROVE  Shares(d, Q)
  BY DEF Shares, SameChain

LEMMA MovedSame ==
    ASSUME NEW d, NEW e, NEW R, NEW o \in DOMAIN R, NEW c, Moved(d, e, R, o, c),
           NEW c2 \in Records, SameRecord(c, c2), SameChain(c, c2)
    PROVE  Moved(d, e, R, o, c2)
<1>1. SameRecord(R[o], c2)
  <2>1. SameRecord(R[o], c)
    BY DEF Moved
  <2> QED
    BY <2>1 DEF SameRecord
<1> DEFINE Q == [R EXCEPT ![o] = c]
           P == [R EXCEPT ![o] = c2]
<1>2. /\ DOMAIN Q = DOMAIN R /\ DOMAIN P = DOMAIN R /\ Q[o] = c /\ P[o] = c2
      /\ \A p \in DOMAIN R \ {o} : Q[p] = P[p]
  OBVIOUS
<1>3. Shares(e, Q)
  BY DEF Moved
<1> HIDE DEF Q, P
<1>4. \A p \in DOMAIN Q : SameChain(Q[p], P[p])
  BY <1>2 DEF SameChain
<1>5. Shares(e, P)
  BY <1>2, <1>3, <1>4, SharesSame
<1> QED
  BY <1>1, <1>5 DEF Moved, P

\* The bytes of a chain. The record of an empty one has a full last sector.
Bytes(fe)  == (fe.sctNum - 1) * SECT_SIZE + fe.lastBytes
Proper(fe) == fe.sctNum = 0 => fe.lastBytes = SECT_SIZE

\* What holds after i rounds of EraseLast, which had bytes to erase.
Shortened(d, R, o, bytes, i, e) ==
    /\ e = [w |-> e.w, fe |-> e.fe, left |-> e.left]
    /\ History(e.w) /\ Moved(d, Now(e.w), R, o, e.fe)
    /\ e.left \in 0 .. bytes /\ Bytes(e.fe) - e.left = Bytes(R[o]) - bytes
    /\ Proper(e.fe) /\ e.fe.sctNum <= R[o].sctNum
    /\ R[o].lastBytes > 0 => e.fe.lastBytes > 0
    /\ \A j \in 0 .. e.fe.sctNum - 1 :
          FindIndex(Now(e.w), e.fe.sctBegin, j) = FindIndex(d, R[o].sctBegin, j)
    /\ e.left = 0 \/ e.fe.sctNum = 0 \/ e.fe.sctNum <= R[o].sctNum - i

LEMMA OneMoreRound ==
    ASSUME NEW d, NEW R, R = [p \in DOMAIN R |-> R[p]], Shares(d, R), NEW o \in DOMAIN R,
           R[o] \in Records, NEW bytes \in Nat, NEW i \in Nat, NEW e,
           Shortened(d, R, o, bytes, i, e)
    PROVE  Shortened(d, R, o, bytes, i + 1, EraseRound(e))
<1> DEFINE x == Now(e.w)
           fe == e.fe
           left == e.left
<1>1. /\ e = [w |-> e.w, fe |-> fe, left |-> left]
      /\ History(e.w) /\ Moved(d, x, R, o, fe)
      /\ left \in 0 .. bytes /\ Bytes(fe) - left = Bytes(R[o]) - bytes
      /\ Proper(fe) /\ fe.sctNum <= R[o].sctNum
      /\ (R[o].lastBytes > 0 => fe.lastBytes > 0)
      /\ \A j \in 0 .. fe.sctNum - 1 :
            FindIndex(x, fe.sctBegin, j) = FindIndex(d, R[o].sctBegin, j)
      /\ (left = 0 \/ fe.sctNum = 0 \/ fe.sctNum <= R[o].sctNum - i)
  BY DEF Shortened
<1>2. /\ fe \in Records /\ fe.sctNum \in 0 .. dataSize /\ fe.lastBytes \in 0 .. SECT_SIZE
      /\ R[o].sctNum \in 0 .. dataSize /\ dataSize \in Nat /\ SECT_SIZE \in Nat \ {0}
      /\ R[o].lastBytes \in 0 .. SECT_SIZE
  BY <1>1, RecordFields, Numbers, DiskAssumption DEF Moved
<1> HIDE DEF x, fe, left
<1>3. CASE fe.sctNum = 0 \/ left = 0
  <2>1. EraseRound(e) = e
    BY <1>3 DEF EraseRound, fe, left
  <2> QED
    BY <1>1, <1>2, <1>3, <2>1 DEF Shortened, fe, left, x
<1>4. CASE fe.sctNum # 0 /\ left # 0 /\ left < fe.lastBytes
  <2> DEFINE ge == [fe EXCEPT !.lastBytes = fe.lastBytes - left]
             e2 == [w |-> e.w, fe |-> ge, left |-> 0]
  <2>1. EraseRound(e) = e2
    <3>1. EraseRound(e) = [e EXCEPT !.fe.lastBytes = @ - e.left, !.left = 0]
      BY <1>4 DEF EraseRound, fe, left
    <3> DEFINE v == e.w
               f == EraseRound(e)
    <3>2. e = [w |-> v, fe |-> fe, left |-> left]
      BY <1>1
    <3> HIDE DEF v, f
    <3>3. f = [e EXCEPT !.fe.lastBytes = @ - e.left, !.left = 0]
      BY <3>1 DEF f
    <3>4. f = [w |-> v, fe |-> [fe EXCEPT !.lastBytes = @ - left], left |-> 0]
      BY <3>2, <3>3
    <3> QED
      BY <3>4 DEF f, v
  <2>2. fe.lastBytes - left \in 0 .. SECT_SIZE /\ fe.lastBytes - left > 0
    BY <1>1, <1>2, <1>4
  <2>3. /\ ge \in Records /\ SameRecord(fe, ge) /\ SameChain(fe, ge)
        /\ ge.lastBytes = fe.lastBytes - left
    BY <1>2, <2>2 DEF Records, Chained, FileEntry, SameRecord, SameChain
  <2> HIDE DEF ge
  <2>4. Moved(d, x, R, o, ge)
    BY <1>1, <2>3, MovedSame
  <2>5. Bytes(ge) = Bytes(fe) - left
    BY <1>1, <1>2, <2>3 DEF Bytes, SameChain
  <2>6. e2.w = e.w /\ e2.fe = ge /\ e2.left = 0
    OBVIOUS
  <2>7. Bytes(ge) - 0 = Bytes(R[o]) - bytes
    BY <1>1, <1>2, <2>5 DEF Bytes
  <2>8. Proper(ge)
    BY <1>4, <2>3 DEF Proper, SameChain
  <2>9. ge.sctNum = fe.sctNum /\ ge.sctBegin = fe.sctBegin /\ 0 \in 0 .. bytes
    BY <2>3 DEF SameChain
  <2>10. e2 = [w |-> e2.w, fe |-> e2.fe, left |-> e2.left]
    OBVIOUS
  <2> HIDE DEF e2
  <2> QED
    BY <1>1, <1>2, <2>1, <2>2, <2>3, <2>4, <2>6, <2>7, <2>8, <2>9, <2>10 DEF Shortened, x
<1>5. CASE fe.sctNum # 0 /\ left # 0 /\ ~ (left < fe.lastBytes)
  <2> DEFINE ze == [fe EXCEPT !.lastBytes = 0]
             a == AdjustStorage(e.w, ze)
             y == Now(a[1])
             ge == a[2]
             Q == [R EXCEPT ![o] = fe]
             e2 == [w |-> a[1], fe |-> ge, left |-> left - fe.lastBytes]
  <2>1. EraseRound(e) = e2
    BY <1>5 DEF EraseRound, fe, left
  <2>2. /\ ze \in Records /\ SameRecord(fe, ze)
        /\ ze.sctBegin = fe.sctBegin /\ ze.sctNum = fe.sctNum
    BY <1>2 DEF Records, Chained, FileEntry, SameRecord
  <2>3. Q[o] = fe /\ o \in DOMAIN Q /\ Shares(x, Q) /\ x \in Disks /\ x = Now(e.w)
    BY <1>1 DEF Moved, x
  <2> HIDE DEF ze, Q
  <2>4. History(a[1]) /\ Moved(x, y, Q, o, ge) /\ Shrunk(x, y, ze, ge)
    <3>1. /\ SameRecord(Q[o], ze) /\ ze.sctBegin = Q[o].sctBegin /\ ze.sctNum = Q[o].sctNum
          /\ ze.sctNum > 0
      BY <1>2, <1>5, <2>2, <2>3
    <3> QED
      BY <1>1, <2>2, <2>3, <3>1, StorageShrinks
  <2> HIDE DEF a, y, ge
  <2>5. Moved(d, y, R, o, ge)
    BY <1>1, <2>4, MovedTwice DEF Q
  <2>6. /\ ge.sctNum = fe.sctNum - 1 /\ ge.lastBytes = SECT_SIZE
        /\ \A j \in 0 .. fe.sctNum - 2 :
              FindIndex(y, ge.sctBegin, j) = FindIndex(x, fe.sctBegin, j)
    BY <2>2, <2>4 DEF Shrunk
  <2>7. Bytes(ge) = Bytes(fe) - fe.lastBytes /\ Bytes(fe) \in Int /\ Bytes(R[o]) \in Int
    <3>1. Bytes(ge) = (fe.sctNum - 2) * SECT_SIZE + SECT_SIZE
      BY <1>2, <2>6 DEF Bytes
    <3>2. (fe.sctNum - 2) * SECT_SIZE + SECT_SIZE = (fe.sctNum - 1) * SECT_SIZE
      BY <1>2
    <3> QED
      BY <1>2, <3>1, <3>2 DEF Bytes
  <2>8. e2.w = a[1] /\ e2.fe = ge /\ e2.left = left - fe.lastBytes
    OBVIOUS
  <2>9. e2.left \in 0 .. bytes /\ Bytes(ge) - e2.left = Bytes(R[o]) - bytes
    BY <1>1, <1>2, <1>5, <2>7, <2>8
  <2>10. Proper(ge) /\ ge.sctNum <= R[o].sctNum /\ ge.lastBytes > 0
    BY <1>1, <1>2, <2>6 DEF Proper
  <2>11. ASSUME NEW j \in 0 .. ge.sctNum - 1
         PROVE  FindIndex(y, ge.sctBegin, j) = FindIndex(d, R[o].sctBegin, j)
    <3>1. j \in 0 .. fe.sctNum - 1 /\ j \in 0 .. fe.sctNum - 2
      BY <1>2, <2>6
    <3> QED
      BY <1>1, <2>6, <3>1
  <2>12. e2.left = 0 \/ ge.sctNum = 0 \/ ge.sctNum <= R[o].sctNum - (i + 1)
    BY <1>1, <1>2, <1>5, <2>6
  <2>13. e2 = [w |-> e2.w, fe |-> e2.fe, left |-> e2.left]
    OBVIOUS
  <2> HIDE DEF e2
  <2> QED
    BY <2>1, <2>4, <2>5, <2>8, <2>9, <2>10, <2>11, <2>12, <2>13 DEF Shortened, y
<1> QED
  BY <1>3, <1>4, <1>5

\* The loop of EraseLast.
EraseLoop(w, fe, bytes, n, f) ==
    f = [i \in 0 .. n |-> IF i = 0 THEN [w |-> w, fe |-> fe, left |-> bytes]
                          ELSE EraseRound(f[i - 1])]

LEMMA EraseLoopExists ==
    ASSUME NEW w, NEW fe, NEW bytes, NEW n \in Nat
    PROVE  \E f : EraseLoop(w, fe, bytes, n, f)
<1> DEFINE S == {k \in Nat : ~ \E f : EraseLoop(w, fe, bytes, k, f)}
<1> SUFFICES ASSUME S # {} PROVE FALSE
  OBVIOUS
<1>1. PICK k \in S : \A j \in S : k <= j
  BY Least
<1>2. k # 0
  <2>1. EraseLoop(w, fe, bytes, 0, [i \in 0 .. 0 |-> [w |-> w, fe |-> fe, left |-> bytes]])
    BY DEF EraseLoop
  <2> QED
    BY <2>1
<1>3. k - 1 \in Nat /\ k - 1 \notin S
  BY <1>1, <1>2
<1>4. PICK f : EraseLoop(w, fe, bytes, k - 1, f)
  BY <1>3
<1> DEFINE g == [i \in 0 .. k |-> IF i < k THEN f[i] ELSE EraseRound(f[k - 1])]
<1>5. EraseLoop(w, fe, bytes, k, g)
  BY <1>2, <1>3, <1>4 DEF EraseLoop
<1> QED
  BY <1>1, <1>5

LEMMA EraseLastLoops ==
    ASSUME NEW w, NEW fe, NEW bytes, fe.sctNum \in Nat
    PROVE  \E f : /\ EraseLoop(w, fe, bytes, fe.sctNum + 1, f)
                  /\ EraseLast(w, fe, bytes) = f[fe.sctNum + 1]
<1> DEFINE at == CHOOSE f : EraseLoop(w, fe, bytes, fe.sctNum + 1, f)
<1>1. EraseLoop(w, fe, bytes, fe.sctNum + 1, at)
  BY EraseLoopExists
<1>2. EraseLast(w, fe, bytes) = at[fe.sctNum + 1]
  BY DEF EraseLast, EraseLoop
<1> QED
  BY <1>1, <1>2

LEMMA LastErased ==
    ASSUME NEW w, History(w), NEW d, d = Now(w), d \in Disks,
           NEW R, R = [p \in DOMAIN R |-> R[p]], Shares(d, R), NEW o \in DOMAIN R,
           NEW fe, fe = R[o], fe \in Records, Proper(fe), NEW bytes \in Nat
    PROVE  Shortened(d, R, o, bytes, fe.sctNum + 1, EraseLast(w, fe, bytes))
<1> DEFINE n == fe.sctNum
<1>1. n \in Nat
  BY RecordFields, Numbers
<1>2. PICK f : EraseLoop(w, fe, bytes, n + 1, f) /\ EraseLast(w, fe, bytes) = f[n + 1]
  BY <1>1, EraseLastLoops
<1> DEFINE S == {i \in Nat : i <= n + 1 /\ ~ Shortened(d, R, o, bytes, i, f[i])}
<1>3. S = {}
  <2> SUFFICES ASSUME S # {} PROVE FALSE
    OBVIOUS
  <2>1. PICK k \in S : \A j \in S : k <= j
    <3>1. S \subseteq Nat
      OBVIOUS
    <3> QED
      BY <3>1, Least
  <2>2. k # 0
    <3> DEFINE e == [w |-> w, fe |-> fe, left |-> bytes]
    <3>1. f[0] = e
      BY <1>1, <1>2 DEF EraseLoop
    <3>2. Moved(d, d, R, o, fe)
      BY NotMoved
    <3>3. e = [w |-> e.w, fe |-> e.fe, left |-> e.left] /\ e.w = w /\ e.fe = fe /\ e.left = bytes
      OBVIOUS
    <3>4. bytes \in 0 .. bytes /\ n <= R[o].sctNum /\ n <= R[o].sctNum - 0
      BY <1>1
    <3> HIDE DEF e
    <3>5. Shortened(d, R, o, bytes, 0, e)
      BY <3>2, <3>3, <3>4 DEF Shortened
    <3> QED
      BY <2>1, <3>1, <3>5
  <2>3. k - 1 \in 0 .. n /\ k - 1 \in Nat /\ k - 1 \notin S /\ (k - 1) + 1 = k
        /\ k \in 0 .. n + 1
    BY <1>1, <2>1, <2>2
  <2>4. Shortened(d, R, o, bytes, k - 1, f[k - 1])
    BY <1>1, <2>3
  <2>5. Shortened(d, R, o, bytes, (k - 1) + 1, EraseRound(f[k - 1]))
    BY <2>3, <2>4, OneMoreRound
  <2>6. f[k] = EraseRound(f[k - 1])
    BY <1>2, <2>2, <2>3 DEF EraseLoop
  <2> QED
    BY <2>1, <2>3, <2>5, <2>6
<1>4. Shortened(d, R, o, bytes, n + 1, f[n + 1])
  BY <1>1, <1>3
<1> QED
  BY <1>2, <1>4

\* What EraseLast leaves.
AllErased(fe, bytes, e) ==
    /\ e.left = 0 \/ e.fe.sctNum = 0
    /\ Bytes(fe) >= bytes => e.left = 0

LEMMA AfterErasing ==
    ASSUME NEW d, NEW R, NEW o, NEW fe, fe = R[o], fe \in Records, NEW bytes \in Nat,
           NEW e, NEW k, k = fe.sctNum + 1, Shortened(d, R, o, bytes, k, e)
    PROVE  AllErased(fe, bytes, e)
<1>1. /\ e.fe \in Records /\ e.fe.sctNum \in 0 .. dataSize /\ fe.sctNum \in 0 .. dataSize
      /\ e.fe.lastBytes \in 0 .. SECT_SIZE /\ fe.lastBytes \in 0 .. SECT_SIZE
      /\ dataSize \in Nat /\ SECT_SIZE \in Nat \ {0}
  BY RecordFields, Numbers, DiskAssumption DEF Shortened, Moved
<1>2. e.left = 0 \/ e.fe.sctNum = 0
  BY <1>1 DEF Shortened
<1>3. e.fe.sctNum = 0 => Bytes(e.fe) = 0
  <2>1. e.fe.sctNum = 0 => e.fe.lastBytes = SECT_SIZE
    BY DEF Shortened, Proper
  <2> QED
    BY <1>1, <2>1 DEF Bytes
<1>4. Bytes(e.fe) - e.left = Bytes(fe) - bytes /\ e.left \in 0 .. bytes
  BY DEF Shortened
<1>5. Bytes(fe) \in Int
  BY <1>1 DEF Bytes
<1>6. e.fe.sctNum = 0 /\ Bytes(fe) >= bytes => e.left = 0
  BY <1>3, <1>4, <1>5
<1> QED
  BY <1>2, <1>6 DEF AllErased

-----------------------------------------------------------------------------
(* The directory *)

LEMMA Sizes ==
    /\ FE_ITEM_CNT \in Nat \ {0} /\ SECT_SIZE = FE_BYTES * FE_ITEM_CNT
    /\ SECT_SIZE \in Nat \ {0} /\ FE_BYTES \in Nat \ {0}
<1> DEFINE q == SECT_SIZE \div FE_BYTES
           r == SECT_SIZE % FE_BYTES
<1>1. FE_BYTES \in Nat \ {0} /\ SECT_SIZE \in Nat \ {0} /\ r = 0
  BY DiskAssumption
<1>2. SECT_SIZE = FE_BYTES * q + r /\ q \in Nat
  BY <1>1
<1> HIDE DEF q, r
<1>3. q # 0
  BY <1>1, <1>2
<1> QED
  BY <1>1, <1>2, <1>3 DEF FE_ITEM_CNT, q

LEMMA Places ==
    ASSUME NEW k \in Nat
    PROVE  /\ k \div FE_ITEM_CNT \in Nat /\ k % FE_ITEM_CNT \in Slot
           /\ k = FE_ITEM_CNT * (k \div FE_ITEM_CNT) + (k % FE_ITEM_CNT)
  BY Sizes DEF Slot

LEMMA PlaceOf ==
    ASSUME NEW i \in Nat, NEW j \in Slot, NEW k, k = FE_ITEM_CNT * i + j
    PROVE  k \in Nat /\ k \div FE_ITEM_CNT = i /\ k % FE_ITEM_CNT = j
<1> DEFINE c == FE_ITEM_CNT
           q == k \div c
           r == k % c
<1>1. c \in Nat \ {0} /\ j \in 0 .. c - 1
  BY Sizes DEF Slot
<1>2. k \in Nat
  BY <1>1
<1>3. k = c * q + r /\ q \in Nat /\ r \in 0 .. c - 1
  BY <1>1, <1>2
<1> HIDE DEF c, q, r
<1>4. c * (i - q) = r - j
  BY <1>1, <1>3 DEF c
<1>5. i - q < 1
  <2> SUFFICES ASSUME i - q >= 1 PROVE FALSE
    BY <1>3
  <2>1. c * (i - q) >= c
    BY <1>1, <1>3
  <2> QED
    BY <1>1, <1>3, <1>4, <2>1
<1>6. i - q > -1
  <2> SUFFICES ASSUME i - q <= -1 PROVE FALSE
    BY <1>3
  <2>1. c * (i - q) <= - c
    BY <1>1, <1>3
  <2> QED
    BY <1>1, <1>3, <1>4, <2>1
<1>7. i = q
  BY <1>3, <1>5, <1>6
<1>8. j = r
  BY <1>1, <1>3, <1>4, <1>7
<1> QED
  BY <1>2, <1>7, <1>8 DEF c, q, r

LEMMA WholeEntries ==
    ASSUME NEW l \in Nat
    PROVE  (FE_BYTES * l) \div FE_BYTES = l
<1> DEFINE c == FE_BYTES
           k == c * l
           q == k \div c
           r == k % c
<1>1. c \in Nat \ {0} /\ k \in Nat
  BY Sizes
<1>2. k = c * q + r /\ q \in Nat /\ r \in 0 .. c - 1
  BY <1>1
<1>3. k = c * l
  OBVIOUS
<1> HIDE DEF c, q, r, k
<1>4. c * (l - q) = r
  BY <1>1, <1>2, <1>3
<1>5. l - q < 1
  <2> SUFFICES ASSUME l - q >= 1 PROVE FALSE
    BY <1>2
  <2>1. c * (l - q) >= c
    BY <1>1, <1>2
  <2> QED
    BY <1>1, <1>2, <1>4, <2>1
<1>6. l - q > -1
  <2> SUFFICES ASSUME l - q <= -1 PROVE FALSE
    BY <1>2
  <2>1. c * (l - q) <= - c
    BY <1>1, <1>2
  <2> QED
    BY <1>1, <1>2, <1>4, <2>1
<1> QED
  BY <1>2, <1>5, <1>6 DEF c, k, q

\* What the map says, it says to any disk that has it.
LEMMA IndexByMap ==
    ASSUME NEW d, NEW e, e.map = d.map, NEW b, NEW n \in Nat
    PROVE  FindIndex(e, b, n) = FindIndex(d, b, n)
<1>1. PICK f : Walk(d, b, n, f) /\ FindIndex(d, b, n) = f[n]
  BY IndexWalks
<1>2. Goes(e, b, n, f)
  BY <1>1 DEF Walk, Goes, NextSector
<1>3. n \in 0 .. n
  OBVIOUS
<1> QED
  BY <1>1, <1>2, <1>3, IndexIs

LEMMA ChainByMap ==
    ASSUME NEW d, NEW e, e.map = d.map, NEW b
    PROVE  Chain(e, b) = Chain(d, b) /\ \A n : Linked(d, b, n) => Linked(e, b, n)
<1>1. \A i \in Nat : FindIndex(e, b, i) = FindIndex(d, b, i)
  BY IndexByMap
<1>2. Chain(e, b) = Chain(d, b)
  BY <1>1, Numbers DEF Chain
<1>3. ASSUME NEW n, Linked(d, b, n) PROVE Linked(e, b, n)
  <2>1. n \in Nat /\ \A i \in 0 .. n : i \in Nat
    BY <1>3 DEF Linked
  <2> QED
    BY <1>1, <1>3, <2>1 DEF Linked
<1> QED
  BY <1>2, <1>3

LEMMA SharesByMap ==
    ASSUME NEW d, NEW R, Shares(d, R), NEW e, e.map = d.map, e.freeBegin = d.freeBegin,
           e.freeNum = d.freeNum
    PROVE  Shares(e, R)
  BY ChainByMap DEF Shares

LEMMA IndexTyped ==
    ASSUME NEW d \in Disks, NEW b \in Sector \union {End}, NEW n \in Nat
    PROVE  FindIndex(d, b, n) \in Sector \union {End}
<1> DEFINE S == {k \in Nat : FindIndex(d, b, k) \notin Sector \union {End}}
<1> SUFFICES ASSUME S # {} PROVE FALSE
  OBVIOUS
<1>1. PICK k \in S : \A j \in S : k <= j
  BY Least
<1>2. k # 0
  BY <1>1, IndexZero
<1>3. k - 1 \in Nat /\ k - 1 \notin S
  BY <1>1, <1>2
<1>4. FindIndex(d, b, (k - 1) + 1) = NextSector(d, FindIndex(d, b, k - 1))
  BY <1>3, IndexNext
<1>5. d.map \in [Sector -> Sector \union {End}]
  BY DiskFields
<1> QED
  BY <1>1, <1>3, <1>4, <1>5 DEF NextSector

\* A sector of entries is a function of the slots.
LEMMA EntriesKind ==
    ASSUME NEW c \in EntrySector \union DataSector
    PROVE  /\ EntriesIn(c) \in [Slot -> FileEntry \union {Missing}]
           /\ BytesIn(c) \in [Offset -> Byte]
<1>1. CASE c \in EntrySector
  <2>1. c.entry \in [Slot -> FileEntry \union {Missing}] /\ DOMAIN c = {"entry"}
    BY <1>1 DEF EntrySector
  <2>2. Blank.byte \in [Offset -> Byte]
    BY NameAssumption DEF Blank
  <2> QED
    BY <2>1, <2>2 DEF EntriesIn, BytesIn
<1>2. CASE c \in DataSector
  <2>1. c.byte \in [Offset -> Byte] /\ DOMAIN c = {"byte"}
    BY <1>2 DEF DataSector
  <2> QED
    BY <2>1 DEF EntriesIn, BytesIn
<1> QED
  BY <1>1, <1>2

\* An entry is written to a place: what is seen of the others stays.
At(d, k, s, i) ==
    FindIndex(d, d.root.sctBegin, k \div FE_ITEM_CNT) = s /\ k % FE_ITEM_CNT = i

LEMMA EntryPut ==
    ASSUME NEW d \in Disks, NEW s \in Sector, NEW i \in Slot, NEW fe \in FileEntry,
           NEW e, e = WithEntry(d, s, i, fe)
    PROVE  /\ e \in Disks /\ e.freeBegin = d.freeBegin /\ e.freeNum = d.freeNum
           /\ e.root = d.root /\ e.map = d.map
           /\ \A t \in Sector \ {s} : e.sct[t] = d.sct[t]
           /\ \A k \in Nat : RootEntry(e, k) = IF At(d, k, s, i) THEN fe ELSE RootEntry(d, k)
<1> DEFINE old == EntriesIn(d.sct[s])
           c == [entry |-> [j \in Slot |-> IF j = i THEN fe ELSE old[j]]]
<1>1. /\ d.sct[s] \in EntrySector \union DataSector
      /\ d.sct \in [Sector -> EntrySector \union DataSector]
  BY DiskFields
<1>2. old \in [Slot -> FileEntry \union {Missing}]
  BY <1>1, EntriesKind
<1> HIDE DEF old
<1>3. c \in EntrySector \union DataSector
  BY <1>2 DEF EntrySector
<1>4. e = [d EXCEPT !.sct[s] = c]
  BY DEF WithEntry, old
<1>5. EntriesIn(c) = [j \in Slot |-> IF j = i THEN fe ELSE old[j]]
  BY DEF EntriesIn
<1> HIDE DEF c
<1>6. /\ e \in Disks /\ e.freeBegin = d.freeBegin /\ e.freeNum = d.freeNum
      /\ e.root = d.root /\ e.map = d.map /\ e.sct = [d.sct EXCEPT ![s] = c]
  BY <1>3, <1>4 DEF Disks, DiskState
<1>7. e.sct[s] = c /\ \A t \in Sector \ {s} : e.sct[t] = d.sct[t]
  BY <1>1, <1>6
<1>8. ASSUME NEW k \in Nat
      PROVE  RootEntry(e, k) = IF At(d, k, s, i) THEN fe ELSE RootEntry(d, k)
  <2> DEFINE t == FindIndex(d, d.root.sctBegin, k \div FE_ITEM_CNT)
             j == k % FE_ITEM_CNT
  <2>1. FindIndex(e, e.root.sctBegin, k \div FE_ITEM_CNT) = t /\ j \in Slot
    BY <1>6, Places, IndexByMap
  <2>2. RootEntry(e, k) = EntryAt(e, t, j) /\ RootEntry(d, k) = EntryAt(d, t, j)
    BY <2>1 DEF RootEntry
  <2>3. At(d, k, s, i) <=> t = s /\ j = i
    BY DEF At
  <2> HIDE DEF t, j
  <2>4. CASE t = s
    BY <1>5, <1>7, <2>1, <2>2, <2>3, <2>4, Numbers DEF EntryAt, old
  <2>5. CASE t # s /\ t \in Sector
    BY <1>7, <2>2, <2>3, <2>5 DEF EntryAt
  <2>6. CASE t = End
    BY <2>2, <2>3, <2>6, Numbers DEF EntryAt
  <2>7. t \in Sector \union {End}
    BY DiskFields, Places, IndexTyped DEF Chained, t
  <2> QED
    BY <2>4, <2>5, <2>6, <2>7
<1> QED
  BY <1>6, <1>7, <1>8

\* The directory has no holes, each entry knows its place, and each name is there once.
InPlace(d, k) ==
    /\ RootEntry(d, k) \in FileEntry
    /\ At(d, k, RootEntry(d, k).inSctIdx, RootEntry(d, k).inSctOff)

NamedOnce(d) ==
    \A j, k \in 0 .. RootLen(d) - 1 : RootEntry(d, j).name = RootEntry(d, k).name => j = k

RootProper(d) ==
    /\ Linked(d, d.root.sctBegin, d.root.sctNum)
    /\ Proper(d.root) /\ d.root.lastBytes > 0
    /\ d.root.lastBytes = FE_BYTES * (d.root.lastBytes \div FE_BYTES)

Directory(d) ==
    /\ d \in Disks /\ RootProper(d)
    /\ \A k \in 0 .. RootLen(d) - 1 : InPlace(d, k)
    /\ NamedOnce(d)

LEMMA RootSize ==
    ASSUME NEW d \in Disks, RootProper(d)
    PROVE  /\ d.root.sctNum \in Nat /\ d.root.lastBytes \div FE_BYTES \in 1 .. FE_ITEM_CNT
           /\ RootLen(d) = FE_ITEM_CNT * (d.root.sctNum - 1) + d.root.lastBytes \div FE_BYTES
           /\ RootLen(d) \in Nat
           /\ d.root.sctNum = 0 => RootLen(d) = 0
           /\ \A k \in 0 .. RootLen(d) - 1 :
                k \in Nat /\ k \div FE_ITEM_CNT \in 0 .. d.root.sctNum - 1
<1> DEFINE n == d.root.sctNum
           b == d.root.lastBytes
           l == b \div FE_BYTES
           c == FE_ITEM_CNT
           f == FE_BYTES
<1>1. /\ n \in Nat /\ b \in 0 .. SECT_SIZE /\ b > 0 /\ b = f * l
      /\ (n = 0 => b = SECT_SIZE)
  BY DiskFields DEF RootProper, Linked, Proper, Chained
<1>2. c \in Nat \ {0} /\ f \in Nat \ {0} /\ SECT_SIZE = f * c
  BY Sizes
<1>3. l \in Nat
  BY <1>1, <1>2
<1>4. RootLen(d) = (n - 1) * c + l
  BY DEF RootLen
<1>5. n = 0 => l = c
  BY <1>1, <1>2, WholeEntries
<1> HIDE DEF n, b, l, c, f
<1>6. l >= 1
  <2> SUFFICES ASSUME l = 0 PROVE FALSE
    BY <1>3
  <2> QED
    BY <1>1, <1>2
<1>7. l <= c
  <2> SUFFICES ASSUME l >= c + 1 PROVE FALSE
    BY <1>2, <1>3
  <2>1. f * l >= f * (c + 1)
    BY <1>2, <1>3
  <2>2. f * (c + 1) = f * c + f
    BY <1>2
  <2> QED
    BY <1>1, <1>2, <2>1, <2>2
<1>8. (n - 1) * c = c * (n - 1) /\ c * (n - 1) = c * n - c /\ c * n \in Nat
  BY <1>1, <1>2
<1>9. n = 0 => RootLen(d) = 0
  BY <1>2, <1>3, <1>4, <1>5, <1>8
<1>10. n # 0 => (n - 1) * c \in Nat
  BY <1>1, <1>2
<1>11. RootLen(d) \in Nat
  BY <1>1, <1>3, <1>4, <1>9, <1>10
<1>12. ASSUME NEW k \in 0 .. RootLen(d) - 1
       PROVE  k \in Nat /\ k \div c \in 0 .. n - 1
  <2> DEFINE q == k \div c
             r == k % c
  <2>1. k \in Nat
    BY <1>11
  <2>2. q \in Nat /\ r \in 0 .. c - 1 /\ k = c * q + r
    BY <2>1, Places DEF c, Slot
  <2>3. k < c * n
    BY <1>2, <1>3, <1>4, <1>7, <1>8, <1>11, <2>1
  <2> HIDE DEF q, r
  <2>4. q < n
    <3> SUFFICES ASSUME q >= n PROVE FALSE
      BY <1>1, <2>2
    <3>1. c * q >= c * n
      BY <1>1, <1>2, <2>2
    <3> QED
      BY <1>1, <1>2, <1>8, <2>1, <2>2, <2>3, <3>1
  <2> QED
    BY <1>1, <2>1, <2>2, <2>4 DEF q
<1> QED
  BY <1>1, <1>3, <1>4, <1>6, <1>7, <1>8, <1>9, <1>11, <1>12 DEF n, b, l, c, f

LEMMA OnePlace ==
    ASSUME NEW d \in Disks, RootProper(d), NEW s, NEW i,
           NEW j \in 0 .. RootLen(d) - 1, NEW k \in 0 .. RootLen(d) - 1,
           At(d, j, s, i), At(d, k, s, i)
    PROVE  j = k
<1> DEFINE n == d.root.sctNum
<1>1. /\ j \in Nat /\ k \in Nat
      /\ j \div FE_ITEM_CNT \in 0 .. n - 1 /\ k \div FE_ITEM_CNT \in 0 .. n - 1
  BY RootSize
<1>2. j \div FE_ITEM_CNT = k \div FE_ITEM_CNT
  BY <1>1 DEF At, RootProper, Linked
<1>3. j % FE_ITEM_CNT = k % FE_ITEM_CNT
  BY DEF At
<1> QED
  BY <1>1, <1>2, <1>3, Places

\* What FindFileEntry finds.
LEMMA Lookup ==
    ASSUME NEW d, Directory(d), NEW k \in 0 .. RootLen(d) - 1
    PROVE  /\ Found(d, RootEntry(d, k).name) = {k}
           /\ FindInRoot(d, RootEntry(d, k).name) = RootEntry(d, k)
<1> DEFINE n == RootEntry(d, k).name
<1>1. d.root.sctNum # 0 /\ RootLen(d) \in Nat /\ k \in Nat
  BY RootSize DEF Directory
<1>2. RootEntry(d, k) # Missing
  BY NameAssumption DEF Directory, InPlace
<1>3. Found(d, n) = {k}
  BY <1>1, <1>2 DEF Found, Directory, NamedOnce
<1> HIDE DEF n
<1>4. (CHOOSE m \in Found(d, n) : \A j \in Found(d, n) : m <= j) = k
  BY <1>1, <1>3
<1>5. FindInRoot(d, n) = RootEntry(d, k)
  BY <1>3, <1>4 DEF FindInRoot
<1> QED
  BY <1>3, <1>5 DEF n

LEMMA LookupFails ==
    ASSUME NEW d, Directory(d), NEW name, FindInRoot(d, name) # Missing
    PROVE  \E k \in 0 .. RootLen(d) - 1 : RootEntry(d, k).name = name
<1>1. Found(d, name) # {}
  BY DEF FindInRoot
<1> QED
  BY <1>1 DEF Found

LEMMA Entry ==
    ASSUME NEW d, Directory(d), NEW name, FindInRoot(d, name) # Missing
    PROVE  \E k \in 0 .. RootLen(d) - 1 :
              /\ FindInRoot(d, name) = RootEntry(d, k) /\ RootEntry(d, k) \in FileEntry
              /\ RootEntry(d, k).name = name /\ name \in Name
              /\ At(d, k, RootEntry(d, k).inSctIdx, RootEntry(d, k).inSctOff)
              /\ Found(d, name) = {k}
<1>1. PICK k \in 0 .. RootLen(d) - 1 : RootEntry(d, k).name = name
  BY LookupFails
<1>2. RootEntry(d, k) \in FileEntry /\ At(d, k, RootEntry(d, k).inSctIdx, RootEntry(d, k).inSctOff)
  BY DEF Directory, InPlace
<1>3. name \in Name
  BY <1>1, <1>2 DEF FileEntry
<1>4. Found(d, name) = {k} /\ FindInRoot(d, name) = RootEntry(d, k)
  BY <1>1, Lookup
<1> QED
  BY <1>1, <1>2, <1>3, <1>4

\* Two disks with the same directory.
SameDirectory(d, e) ==
    /\ e.root = d.root
    /\ \A i \in Nat : FindIndex(e, d.root.sctBegin, i) = FindIndex(d, d.root.sctBegin, i)
    /\ \A k \in 0 .. RootLen(d) - 1 : RootEntry(e, k) = RootEntry(d, k)

LEMMA DirectoryKept ==
    ASSUME NEW d, Directory(d), NEW e \in Disks, SameDirectory(d, e)
    PROVE  /\ Directory(e) /\ RootLen(e) = RootLen(d)
           /\ \A name : FindInRoot(e, name) = FindInRoot(d, name)
<1>1. RootLen(e) = RootLen(d) /\ e.root = d.root
  BY DEF RootLen, SameDirectory
<1>2. RootProper(e)
  <2>1. Linked(d, d.root.sctBegin, d.root.sctNum)
    BY DEF Directory, RootProper
  <2>2. Linked(e, d.root.sctBegin, d.root.sctNum)
    BY <2>1, Numbers DEF Linked, SameDirectory
  <2> QED
    BY <1>1, <2>2 DEF Directory, RootProper
<1>3. ASSUME NEW k \in 0 .. RootLen(e) - 1 PROVE InPlace(e, k)
  <2>1. InPlace(d, k) /\ RootEntry(e, k) = RootEntry(d, k)
    BY <1>1 DEF Directory, SameDirectory
  <2>2. k \div FE_ITEM_CNT \in Nat
    BY <1>1, RootSize DEF Directory
  <2> QED
    BY <1>1, <2>1, <2>2 DEF InPlace, At, SameDirectory
<1>4. NamedOnce(e)
  BY <1>1 DEF Directory, NamedOnce, SameDirectory
<1>5. Directory(e)
  BY <1>2, <1>3, <1>4 DEF Directory
<1>6. ASSUME NEW name PROVE FindInRoot(e, name) = FindInRoot(d, name)
  <2>1. Found(e, name) = Found(d, name)
    BY <1>1 DEF Found, SameDirectory
  <2>2. CASE Found(d, name) = {}
    BY <2>1, <2>2 DEF FindInRoot
  <2>3. CASE Found(d, name) # {}
    <3>1. FindInRoot(d, name) # Missing \/ FindInRoot(d, name) = Missing
      OBVIOUS
    <3>2. PICK k \in Found(d, name) : TRUE
      BY <2>3
    <3>3. k \in 0 .. RootLen(d) - 1 /\ RootEntry(d, k).name = name
      BY <3>2 DEF Found
    <3>4. FindInRoot(d, name) = RootEntry(d, k)
      BY <3>3, Lookup
    <3>5. FindInRoot(e, name) = RootEntry(e, k)
      BY <1>1, <1>5, <3>3, Lookup DEF SameDirectory
    <3> QED
      BY <3>3, <3>4, <3>5 DEF SameDirectory
  <2> QED
    BY <2>2, <2>3
<1> QED
  BY <1>1, <1>5, <1>6

-----------------------------------------------------------------------------
(* The disk and the descriptors together *)

\* The record of every owner of sectors: of the directory, under a name that no
\* file has, and of every file.
Recs(d, fds) ==
    [o \in {Missing} \union {n \in Name : FindInRoot(d, n) # Missing} |->
        IF o = Missing THEN d.root
        ELSE IF fds[o] # Closed THEN fds[o].fe ELSE FindInRoot(d, o)]

SamePlace(fe, ge) == fe.inSctIdx = ge.inSctIdx /\ fe.inSctOff = ge.inSctOff

\* An open file is in the directory, and its descriptor knows where.
Named(d, n, fd) ==
    FindInRoot(d, n) # Missing /\ fd.fe.name = n /\ SamePlace(fd.fe, FindInRoot(d, n))

CacheOK(d, fd) ==
    /\ fd.objIdx = End => fd.offset = SECT_SIZE /\ ~fd.changed
    /\ fd.objIdx # End =>
          /\ fd.objIdx < fd.fe.sctNum
          /\ ~fd.changed =>
                fd.cache = BytesIn(d.sct[FindIndex(d, fd.fe.sctBegin, fd.objIdx)])

Descriptors == [Name -> FileDesc \union {Closed}]

\* All but the buffers.
Chains(d, fds) ==
    /\ Directory(d) /\ fds \in Descriptors
    /\ \A n \in Name : fds[n] # Closed => Named(d, n, fds[n])
    /\ Shares(d, Recs(d, fds))
    /\ \A o \in DOMAIN Recs(d, fds) : Proper(Recs(d, fds)[o])

Caches(d, fds, N) == \A n \in N : fds[n] # Closed => CacheOK(d, fds[n])

Sound(d, fds) == Chains(d, fds) /\ Caches(d, fds, Name)

With(fds, n, fd) == [fds EXCEPT ![n] = fd]

LEMMA Withs ==
    ASSUME NEW fds \in Descriptors, NEW n \in Name, NEW fd \in FileDesc
    PROVE  /\ With(fds, n, fd) \in Descriptors /\ With(fds, n, fd)[n] = fd /\ fd # Closed
           /\ \A m \in Name \ {n} : With(fds, n, fd)[m] = fds[m]
           /\ \A ge : With(With(fds, n, fd), n, ge) = With(fds, n, ge)
  BY OperationAssumption DEF Descriptors, With

LEMMA WithSame ==
    ASSUME NEW fds \in Descriptors, NEW n \in Name
    PROVE  With(fds, n, fds[n]) = fds
  BY DEF Descriptors, With

\* R gives the records.
Owners(d, fds, R) ==
    /\ R = [p \in DOMAIN R |-> R[p]] /\ Shares(d, R)
    /\ Missing \in DOMAIN R /\ R[Missing] = d.root /\ Missing \notin Name
    /\ DOMAIN R = {Missing} \union {n \in Name : FindInRoot(d, n) # Missing}
    /\ \A n \in DOMAIN R \ {Missing} :
          /\ R[n] = IF fds[n] # Closed THEN fds[n].fe ELSE FindInRoot(d, n)
          /\ n \in Name /\ R[n] \in FileEntry /\ R[n].name = n
          /\ SamePlace(R[n], FindInRoot(d, n))
    /\ \A n \in Name : fds[n] # Closed =>
          n \in DOMAIN R /\ n # Missing /\ fds[n] \in FileDesc /\ R[n] = fds[n].fe
    /\ \A o \in DOMAIN R : R[o] \in Records /\ Proper(R[o])

LEMMA RecsAre ==
    ASSUME NEW d, NEW fds, Chains(d, fds), NEW R, R = Recs(d, fds)
    PROVE  Owners(d, fds, R)
<1>1. /\ R = [p \in DOMAIN R |-> R[p]] /\ Shares(d, R)
      /\ Missing \in DOMAIN R /\ R[Missing] = d.root /\ Missing \notin Name
      /\ DOMAIN R = {Missing} \union {n \in Name : FindInRoot(d, n) # Missing}
      /\ \A n \in DOMAIN R \ {Missing} :
            R[n] = IF fds[n] # Closed THEN fds[n].fe ELSE FindInRoot(d, n)
      /\ \A o \in DOMAIN R : Proper(R[o])
  BY NameAssumption DEF Recs, Chains
<1>2. \A n \in Name : fds[n] # Closed =>
         fds[n] \in FileDesc /\ FindInRoot(d, n) # Missing /\ fds[n].fe.name = n
         /\ SamePlace(fds[n].fe, FindInRoot(d, n))
  BY DEF Chains, Descriptors, Named
<1>3. ASSUME NEW n \in DOMAIN R \ {Missing}
      PROVE  n \in Name /\ R[n] \in FileEntry /\ R[n].name = n
             /\ SamePlace(R[n], FindInRoot(d, n))
  <2>1. n \in Name /\ FindInRoot(d, n) # Missing
    BY <1>1
  <2>2. CASE fds[n] # Closed
    BY <1>1, <1>2, <2>1, <2>2 DEF FileDesc
  <2>3. CASE fds[n] = Closed
    <3>1. PICK k \in 0 .. RootLen(d) - 1 :
             /\ FindInRoot(d, n) = RootEntry(d, k) /\ RootEntry(d, k) \in FileEntry
             /\ RootEntry(d, k).name = n
      BY <2>1, Entry DEF Chains
    <3> QED
      BY <1>1, <2>1, <2>3, <3>1 DEF SamePlace
  <2> QED
    BY <2>2, <2>3
<1>4. \A n \in Name : fds[n] # Closed =>
         n \in DOMAIN R /\ n # Missing /\ fds[n] \in FileDesc /\ R[n] = fds[n].fe
  BY <1>1, <1>2
<1>5. d.root \in Records
  BY DiskFields DEF Chains, Directory, Records
<1>6. \A o \in DOMAIN R : R[o] \in Records
  BY <1>1, <1>3, <1>5 DEF Records
<1> QED
  BY <1>1, <1>3, <1>4, <1>6 DEF Owners

LEMMA SameContents ==
    ASSUME NEW d, NEW e, e.root = d.root, e.sct = d.sct,
           \A i \in Nat : FindIndex(e, d.root.sctBegin, i) = FindIndex(d, d.root.sctBegin, i)
    PROVE  \A k \in Nat : RootEntry(e, k) = RootEntry(d, k)
  BY Places DEF RootEntry, EntryAt

LEMMA SameDirectories ==
    ASSUME NEW d, Directory(d), NEW e, e.root = d.root, e.sct = d.sct,
           \A i \in Nat : FindIndex(e, d.root.sctBegin, i) = FindIndex(d, d.root.sctBegin, i)
    PROVE  SameDirectory(d, e)
<1>1. \A k \in Nat : RootEntry(e, k) = RootEntry(d, k)
  BY SameContents
<1>2. \A k \in 0 .. RootLen(d) - 1 : k \in Nat
  BY RootSize DEF Directory
<1> QED
  BY <1>1, <1>2 DEF SameDirectory

\* An open file has another chain, all others have theirs.
LEMMA FileMoved ==
    ASSUME NEW d, NEW fds, Chains(d, fds), NEW R, R = Recs(d, fds),
           NEW n \in Name, fds[n] # Closed, NEW e, NEW fe, Moved(d, e, R, n, fe), Proper(fe),
           NEW fd \in FileDesc, fd.fe = fe, NEW gds, gds = With(fds, n, fd)
    PROVE  /\ Chains(e, gds) /\ SameDirectory(d, e)
           /\ Caches(d, fds, Name \ {n}) => Caches(e, gds, Name \ {n})
<1>1. /\ e \in Disks /\ e.sct = d.sct /\ e.root = d.root
      /\ fe \in Records /\ SameRecord(R[n], fe)
      /\ Shares(e, [R EXCEPT ![n] = fe]) /\ Apart(d, e, R, n)
  BY DEF Moved
<1>2. /\ R = [p \in DOMAIN R |-> R[p]] /\ Shares(d, R)
      /\ Missing \in DOMAIN R /\ R[Missing] = d.root /\ Missing \notin Name
      /\ DOMAIN R = {Missing} \union {m \in Name : FindInRoot(d, m) # Missing}
      /\ \A m \in DOMAIN R \ {Missing} :
            R[m] = IF fds[m] # Closed THEN fds[m].fe ELSE FindInRoot(d, m)
      /\ \A m \in Name : fds[m] # Closed =>
            m \in DOMAIN R /\ m # Missing /\ fds[m] \in FileDesc /\ R[m] = fds[m].fe
      /\ \A p \in DOMAIN R : Proper(R[p])
  <2>1. Owners(d, fds, R)
    BY RecsAre
  <2> QED
    BY <2>1 DEF Owners
<1>3. /\ n \in DOMAIN R /\ n # Missing /\ R[n] = fds[n].fe /\ fds[n] \in FileDesc
  BY <1>2
<1>4. fe \in FileEntry /\ fe.name = fds[n].fe.name /\ SamePlace(fe, fds[n].fe)
  BY <1>1, <1>3 DEF SameRecord, FileDesc, SamePlace
<1>5. Directory(d) /\ fds \in Descriptors /\ \A m \in Name : fds[m] # Closed => Named(d, m, fds[m])
  BY DEF Chains
<1>6. SameDirectory(d, e)
  <2>1. \A i \in Nat : FindIndex(e, d.root.sctBegin, i) = FindIndex(d, d.root.sctBegin, i)
    BY <1>1, <1>2, <1>3 DEF Apart
  <2> QED
    BY <1>1, <1>5, <2>1, SameDirectories
<1>7. Directory(e) /\ \A name : FindInRoot(e, name) = FindInRoot(d, name)
  BY <1>1, <1>5, <1>6, DirectoryKept
<1>8. /\ gds \in Descriptors /\ gds[n] \in FileDesc /\ gds[n] # Closed /\ gds[n].fe = fe
      /\ \A m \in Name \ {n} : gds[m] = fds[m]
  BY <1>5, Withs
<1>9. ASSUME NEW m \in Name, gds[m] # Closed PROVE Named(e, m, gds[m])
  <2>1. CASE m = n
    BY <1>4, <1>5, <1>7, <1>8, <2>1 DEF Named, SamePlace
  <2>2. CASE m # n
    BY <1>5, <1>7, <1>8, <1>9, <2>2 DEF Named
  <2> QED
    BY <2>1, <2>2
<1> DEFINE Q == [R EXCEPT ![n] = fe]
<1>10. /\ DOMAIN Q = DOMAIN R /\ Q[n] = fe /\ \A p \in DOMAIN R \ {n} : Q[p] = R[p]
       /\ Q = [p \in DOMAIN R |-> Q[p]]
  BY <1>2, <1>3
<1>11. Recs(e, gds) = Q
  <2>1. \A p \in DOMAIN R : Q[p] = IF p = Missing THEN e.root
                                   ELSE IF gds[p] # Closed THEN gds[p].fe ELSE FindInRoot(e, p)
    <3> SUFFICES ASSUME NEW p \in DOMAIN R
                 PROVE  Q[p] = IF p = Missing THEN e.root
                               ELSE IF gds[p] # Closed THEN gds[p].fe ELSE FindInRoot(e, p)
      OBVIOUS
    <3> HIDE DEF Q
    <3>1. CASE p = Missing
      BY <1>1, <1>2, <1>3, <1>10, <3>1
    <3>2. CASE p = n
      BY <1>3, <1>8, <1>10, <3>2
    <3>3. CASE p # Missing /\ p # n
      <4>1. p \in Name /\ Q[p] = R[p] /\ gds[p] = fds[p]
        BY <1>2, <1>8, <1>10, <3>3
      <4> QED
        BY <1>2, <1>7, <3>3, <4>1
    <3> QED
      BY <3>1, <3>2, <3>3
  <2> HIDE DEF Q
  <2>2. {Missing} \union {m \in Name : FindInRoot(e, m) # Missing} = DOMAIN R
    BY <1>2, <1>7
  <2> QED
    BY <1>10, <2>1, <2>2 DEF Recs
<1> HIDE DEF Q
<1>12. Shares(e, Q)
  BY <1>1 DEF Q
<1>13. \A p \in DOMAIN Q : Proper(Q[p])
  BY <1>2, <1>10
<1>14. Chains(e, gds)
  BY <1>7, <1>8, <1>9, <1>11, <1>12, <1>13 DEF Chains
<1>15. ASSUME Caches(d, fds, Name \ {n}), NEW m \in Name \ {n}, gds[m] # Closed
       PROVE  CacheOK(e, gds[m])
  <2>1. CacheOK(d, fds[m]) /\ gds[m] = fds[m] /\ fds[m] # Closed
    BY <1>8, <1>15 DEF Caches
  <2>2. m \in DOMAIN R /\ R[m] = fds[m].fe /\ fds[m] \in FileDesc
    BY <1>2, <2>1
  <2>3. fds[m].objIdx # End => fds[m].objIdx \in Nat
    BY <2>2, Numbers DEF FileDesc
  <2>4. fds[m].objIdx # End => FindIndex(e, fds[m].fe.sctBegin, fds[m].objIdx)
                                 = FindIndex(d, fds[m].fe.sctBegin, fds[m].objIdx)
    BY <1>1, <2>2, <2>3 DEF Apart
  <2> QED
    BY <1>1, <2>1, <2>4 DEF CacheOK
<1> QED
  BY <1>6, <1>14, <1>15 DEF Caches

\* The record and the buffer of an open file change, and its chain does not.
LEMMA Refiled ==
    ASSUME NEW d, NEW fds, Chains(d, fds), NEW n \in Name, fds[n] # Closed,
           NEW fd \in FileDesc, SameRecord(fds[n].fe, fd.fe), SameChain(fds[n].fe, fd.fe),
           Proper(fd.fe), NEW gds, gds = With(fds, n, fd)
    PROVE  /\ Chains(d, gds)
           /\ Caches(d, fds, Name \ {n}) => Caches(d, gds, Name \ {n})
<1>1. PICK R : R = Recs(d, fds)
  OBVIOUS
<1>2. /\ R = [p \in DOMAIN R |-> R[p]] /\ Shares(d, R) /\ n \in DOMAIN R
      /\ R[n] = fds[n].fe /\ R[n] \in Records
  <2>1. Owners(d, fds, R)
    BY <1>1, RecsAre
  <2> QED
    BY <2>1 DEF Owners
<1>3. d \in Disks
  BY DEF Chains, Directory
<1>4. Moved(d, d, R, n, R[n])
  BY <1>2, <1>3, NotMoved
<1>5. fd.fe \in Records
  BY DEF FileDesc, Records
<1>6. Moved(d, d, R, n, fd.fe)
  BY <1>2, <1>4, <1>5, MovedSame
<1> QED
  BY <1>1, <1>6, FileMoved

\* Sectors of two owners are different.
LEMMA OwnSectors ==
    ASSUME NEW d, NEW R, Shares(d, R), NEW o \in DOMAIN R, NEW p \in DOMAIN R, o # p,
           NEW i \in 0 .. R[o].sctNum - 1, NEW j \in 0 .. R[p].sctNum - 1
    PROVE  /\ FindIndex(d, R[o].sctBegin, i) \in Sector
           /\ FindIndex(d, R[o].sctBegin, i) # FindIndex(d, R[p].sctBegin, j)
<1>1. Linked(d, R[o].sctBegin, R[o].sctNum) /\ Linked(d, R[p].sctBegin, R[p].sctNum)
  BY DEF Shares
<1>2. /\ Chain(d, R[o].sctBegin) = {FindIndex(d, R[o].sctBegin, k) : k \in 0 .. R[o].sctNum - 1}
      /\ Chain(d, R[p].sctBegin) = {FindIndex(d, R[p].sctBegin, k) : k \in 0 .. R[p].sctNum - 1}
  BY <1>1, ChainLength
<1>3. /\ FindIndex(d, R[o].sctBegin, i) \in Chain(d, R[o].sctBegin)
      /\ FindIndex(d, R[p].sctBegin, j) \in Chain(d, R[p].sctBegin)
  BY <1>2
<1>4. Chain(d, R[o].sctBegin) \intersect Chain(d, R[p].sctBegin) = {}
  BY DEF Shares
<1>5. FindIndex(d, R[o].sctBegin, i) \in Sector
  BY <1>1 DEF Linked
<1> QED
  BY <1>3, <1>4, <1>5

\* Only the contents of one sector change.
OnlyAt(d, e, s) ==
    /\ e \in Disks /\ e.root = d.root /\ e.map = d.map
    /\ e.freeBegin = d.freeBegin /\ e.freeNum = d.freeNum
    /\ \A t \in Sector \ {s} : e.sct[t] = d.sct[t]

WithBytes(d, s, cache) == [d EXCEPT !.sct[s] = [byte |-> cache]]

LEMMA BytesWritten ==
    ASSUME NEW d \in Disks, NEW s \in Sector, NEW cache \in [Offset -> Byte], NEW e,
           e = WithBytes(d, s, cache)
    PROVE  OnlyAt(d, e, s) /\ BytesIn(e.sct[s]) = cache
<1> DEFINE c == [byte |-> cache]
<1>1. c \in EntrySector \union DataSector /\ BytesIn(c) = cache
  BY DEF DataSector, BytesIn
<1> HIDE DEF c
<1>2. /\ e \in Disks /\ e.root = d.root /\ e.map = d.map
      /\ e.freeBegin = d.freeBegin /\ e.freeNum = d.freeNum /\ e.sct = [d.sct EXCEPT ![s] = c]
  BY <1>1 DEF WithBytes, Disks, DiskState, c
<1>3. d.sct \in [Sector -> EntrySector \union DataSector]
  BY DiskFields
<1> QED
  BY <1>1, <1>2, <1>3 DEF OnlyAt

LEMMA FileWritten ==
    ASSUME NEW d, NEW fds, Chains(d, fds), NEW R, R = Recs(d, fds),
           NEW n \in Name, fds[n] # Closed,
           NEW j \in 0 .. fds[n].fe.sctNum - 1, NEW s, s = FindIndex(d, fds[n].fe.sctBegin, j),
           NEW e, OnlyAt(d, e, s)
    PROVE  /\ Chains(e, fds) /\ SameDirectory(d, e) /\ s \in Sector
           /\ Caches(d, fds, Name \ {n}) => Caches(e, fds, Name \ {n})
<1>1. /\ R = [p \in DOMAIN R |-> R[p]] /\ Shares(d, R)
      /\ Missing \in DOMAIN R /\ R[Missing] = d.root /\ Missing \notin Name
      /\ DOMAIN R = {Missing} \union {m \in Name : FindInRoot(d, m) # Missing}
      /\ \A m \in DOMAIN R \ {Missing} :
            R[m] = IF fds[m] # Closed THEN fds[m].fe ELSE FindInRoot(d, m)
      /\ \A m \in Name : fds[m] # Closed =>
            m \in DOMAIN R /\ m # Missing /\ fds[m] \in FileDesc /\ R[m] = fds[m].fe
  <2>1. Owners(d, fds, R)
    BY RecsAre
  <2> QED
    BY <2>1 DEF Owners
<1>2. Directory(d) /\ fds \in Descriptors /\ \A m \in Name : fds[m] # Closed => Named(d, m, fds[m])
  BY DEF Chains
<1>3. n \in DOMAIN R /\ n # Missing /\ R[n] = fds[n].fe
  BY <1>1
<1>4. \A o \in DOMAIN R \ {n} : \A i \in 0 .. R[o].sctNum - 1 :
         FindIndex(d, R[o].sctBegin, i) \in Sector /\ FindIndex(d, R[o].sctBegin, i) # s
  BY <1>1, <1>3, OwnSectors
<1>5. s \in Sector
  BY <1>1, <1>3 DEF Shares, Linked
<1>6. \A b : \A i \in Nat : FindIndex(e, b, i) = FindIndex(d, b, i)
  BY IndexByMap DEF OnlyAt
<1>7. SameDirectory(d, e)
  <2>1. ASSUME NEW k \in 0 .. RootLen(d) - 1 PROVE RootEntry(e, k) = RootEntry(d, k)
    <3> DEFINE q == k \div FE_ITEM_CNT
               t == FindIndex(d, d.root.sctBegin, q)
    <3>1. q \in 0 .. d.root.sctNum - 1 /\ q \in Nat
      BY RootSize DEF Directory, Chains
    <3> HIDE DEF q
    <3>2. t \in Sector \ {s}
      BY <1>1, <1>3, <1>4, <3>1
    <3>3. e.sct[t] = d.sct[t] /\ e.root = d.root
      BY <3>2 DEF OnlyAt
    <3>4. FindIndex(e, d.root.sctBegin, q) = t
      BY <1>6, <3>1
    <3> HIDE DEF t
    <3> QED
      BY <3>3, <3>4 DEF RootEntry, EntryAt, q, t
  <2> QED
    BY <1>6, <2>1 DEF SameDirectory, OnlyAt
<1>8. Directory(e) /\ \A name : FindInRoot(e, name) = FindInRoot(d, name)
  BY <1>2, <1>7, DirectoryKept DEF OnlyAt
<1>9. Recs(e, fds) = R
  BY <1>8 DEF Recs, OnlyAt
<1>10. Shares(e, R)
  BY <1>1, SharesByMap DEF OnlyAt
<1>11. \A m \in Name : fds[m] # Closed => Named(e, m, fds[m])
  BY <1>2, <1>8 DEF Named
<1>12. Chains(e, fds)
  BY <1>2, <1>8, <1>9, <1>10, <1>11 DEF Chains
<1>13. ASSUME Caches(d, fds, Name \ {n}), NEW m \in Name \ {n}, fds[m] # Closed
       PROVE  CacheOK(e, fds[m])
  <2>1. CacheOK(d, fds[m])
    BY <1>13 DEF Caches
  <2>2. m \in DOMAIN R /\ R[m] = fds[m].fe /\ fds[m] \in FileDesc
    BY <1>1, <1>13
  <2> DEFINE i == fds[m].objIdx
             t == FindIndex(d, fds[m].fe.sctBegin, i)
  <2>3. i # End => i \in Nat /\ i \in 0 .. R[m].sctNum - 1
    <3>1. i \in Sector \union {End} /\ R[m].sctNum \in 0 .. dataSize
      BY <2>2 DEF FileDesc, FileEntry
    <3>2. i # End => i < R[m].sctNum
      BY <2>1, <2>2 DEF CacheOK
    <3> HIDE DEF i
    <3>3. R[m].sctNum \in Int /\ (i \in Sector => i \in Nat)
      BY <3>1, Numbers
    <3> QED
      BY <3>1, <3>2, <3>3
  <2> HIDE DEF i
  <2>4. i # End => t \in Sector \ {s} /\ FindIndex(e, fds[m].fe.sctBegin, i) = t
    BY <1>4, <1>6, <2>2, <2>3
  <2> HIDE DEF t
  <2>5. i # End => e.sct[t] = d.sct[t]
    BY <2>4 DEF OnlyAt
  <2> QED
    BY <2>1, <2>4, <2>5 DEF CacheOK, i, t
<1> QED
  BY <1>5, <1>7, <1>12, <1>13 DEF Caches

\* Only the directory's sectors change.
OnlyRoot(d, e) ==
    /\ e \in Disks /\ e.root = d.root /\ e.map = d.map
    /\ e.freeBegin = d.freeBegin /\ e.freeNum = d.freeNum
    /\ \A t \in Sector : t \notin Chain(d, d.root.sctBegin) => e.sct[t] = d.sct[t]

\* The entry of n is overwritten with one of the name m.
Renamed(d, e, n, m, fe) ==
    /\ Directory(e) /\ FindInRoot(e, m) = fe
    /\ m # n => FindInRoot(e, n) = Missing
    /\ \A x : x # n /\ x # m => FindInRoot(e, x) = FindInRoot(d, x)

LEMMA EntryWritten ==
    ASSUME NEW d, Directory(d), NEW n, FindInRoot(d, n) # Missing,
           NEW fe \in FileEntry, SamePlace(fe, FindInRoot(d, n)), NEW m, m = fe.name,
           m = n \/ FindInRoot(d, m) = Missing,
           NEW e, e = WithEntry(d, fe.inSctIdx, fe.inSctOff, fe)
    PROVE  OnlyRoot(d, e) /\ Renamed(d, e, n, m, fe)
<1> DEFINE s == fe.inSctIdx
           i == fe.inSctOff
<1>1. PICK k \in 0 .. RootLen(d) - 1 :
         /\ FindInRoot(d, n) = RootEntry(d, k) /\ RootEntry(d, k).name = n
         /\ At(d, k, RootEntry(d, k).inSctIdx, RootEntry(d, k).inSctOff)
  BY Entry
<1>2. At(d, k, s, i)
  BY <1>1 DEF SamePlace
<1>3. s \in Sector /\ i \in Slot
  BY DEF FileEntry
<1>4. d \in Disks /\ RootProper(d)
  BY DEF Directory
<1>5. /\ e \in Disks /\ e.freeBegin = d.freeBegin /\ e.freeNum = d.freeNum
      /\ e.root = d.root /\ e.map = d.map
      /\ \A t \in Sector \ {s} : e.sct[t] = d.sct[t]
      /\ \A j \in Nat : RootEntry(e, j) = IF At(d, j, s, i) THEN fe ELSE RootEntry(d, j)
  BY <1>3, <1>4, EntryPut
<1>6. \A j \in 0 .. RootLen(d) - 1 : j \in Nat /\ j \div FE_ITEM_CNT \in 0 .. d.root.sctNum - 1
  BY <1>4, RootSize
<1>7. OnlyRoot(d, e)
  <2> DEFINE b == d.root.sctBegin
             num == d.root.sctNum
  <2>1. Linked(d, b, num)
    BY <1>4 DEF RootProper
  <2>2. Chain(d, b) = {FindIndex(d, b, j) : j \in 0 .. num - 1}
    BY <2>1, ChainLength
  <2>3. s \in Chain(d, b)
    BY <1>2, <1>6, <2>2 DEF At
  <2> QED
    BY <1>5, <2>3 DEF OnlyRoot
<1> HIDE DEF s, i
<1>8. ASSUME NEW j \in 0 .. RootLen(d) - 1
      PROVE  RootEntry(e, j) = IF j = k THEN fe ELSE RootEntry(d, j)
  <2>1. At(d, j, s, i) <=> j = k
    BY <1>2, <1>4, OnePlace
  <2> QED
    BY <1>5, <1>6, <2>1
<1>9. RootLen(e) = RootLen(d)
  BY <1>5 DEF RootLen
<1>10. RootProper(e)
  BY <1>4, <1>5, ChainByMap DEF RootProper
<1>11. ASSUME NEW j \in 0 .. RootLen(d) - 1, NEW t, NEW l, At(d, j, t, l)
       PROVE  At(e, j, t, l)
  <2>1. j \div FE_ITEM_CNT \in Nat
    BY <1>4, <1>6, RootSize
  <2>2. FindIndex(e, d.root.sctBegin, j \div FE_ITEM_CNT)
          = FindIndex(d, d.root.sctBegin, j \div FE_ITEM_CNT)
    BY <1>5, <2>1, IndexByMap
  <2> QED
    BY <1>5, <1>11, <2>2 DEF At
<1>12. ASSUME NEW j \in 0 .. RootLen(e) - 1 PROVE InPlace(e, j)
  <2>1. CASE j = k
    BY <1>2, <1>8, <1>9, <1>11, <2>1 DEF InPlace, s, i
  <2>2. CASE j # k
    BY <1>8, <1>9, <1>11, <2>2 DEF InPlace, Directory
  <2> QED
    BY <2>1, <2>2
<1>13. ASSUME NEW j \in 0 .. RootLen(d) - 1, j # k
       PROVE  RootEntry(d, j).name # m /\ RootEntry(d, j).name # n
  <2>1. RootEntry(d, j).name # n
    BY <1>1, <1>13 DEF Directory, NamedOnce
  <2>2. ASSUME RootEntry(d, j).name = m, FindInRoot(d, m) = Missing PROVE FALSE
    <3>1. FindInRoot(d, m) = RootEntry(d, j)
      BY <2>2, Lookup
    <3>2. RootEntry(d, j) # Missing
      BY NameAssumption DEF Directory, InPlace
    <3> QED
      BY <2>2, <3>1, <3>2
  <2> QED
    BY <2>1, <2>2
<1>14. NamedOnce(e)
  <2> SUFFICES ASSUME NEW j \in 0 .. RootLen(d) - 1, NEW l \in 0 .. RootLen(d) - 1,
                      RootEntry(e, j).name = RootEntry(e, l).name
               PROVE  j = l
    BY <1>9 DEF NamedOnce
  <2>1. CASE j = k \/ l = k
    BY <1>8, <1>13, <2>1
  <2>2. CASE j # k /\ l # k
    BY <1>8, <2>2 DEF Directory, NamedOnce
  <2> QED
    BY <2>1, <2>2
<1>15. Directory(e)
  BY <1>5, <1>10, <1>12, <1>14 DEF Directory
<1>16. FindInRoot(e, m) = fe
  <2>1. k \in 0 .. RootLen(e) - 1 /\ RootEntry(e, k) = fe
    BY <1>8, <1>9
  <2> QED
    BY <1>15, <2>1, Lookup
<1>17. ASSUME NEW x, x # m, FindInRoot(e, x) # Missing
       PROVE  x # n /\ FindInRoot(e, x) = FindInRoot(d, x)
  <2>1. PICK j \in 0 .. RootLen(e) - 1 : RootEntry(e, j).name = x
    BY <1>15, <1>17, LookupFails
  <2>2. j # k /\ RootEntry(e, j) = RootEntry(d, j)
    BY <1>8, <1>9, <1>17, <2>1
  <2>3. FindInRoot(e, x) = RootEntry(e, j)
    BY <1>15, <2>1, Lookup
  <2>4. FindInRoot(d, x) = RootEntry(d, j)
    BY <1>9, <2>1, <2>2, Lookup
  <2> QED
    BY <1>9, <1>13, <2>1, <2>2, <2>3, <2>4
<1>18. ASSUME NEW x, x # m, x # n, FindInRoot(d, x) # Missing
       PROVE  FindInRoot(e, x) = FindInRoot(d, x)
  <2>1. PICK j \in 0 .. RootLen(d) - 1 : RootEntry(d, j).name = x
    BY <1>18, LookupFails
  <2>2. j # k /\ RootEntry(e, j) = RootEntry(d, j)
    BY <1>1, <1>8, <1>18, <2>1
  <2>3. FindInRoot(d, x) = RootEntry(d, j)
    BY <2>1, Lookup
  <2>4. FindInRoot(e, x) = RootEntry(e, j)
    BY <1>9, <1>15, <2>1, <2>2, Lookup
  <2> QED
    BY <2>2, <2>3, <2>4
<1>19. Renamed(d, e, n, m, fe)
  <2>1. m # n => FindInRoot(e, n) = Missing
    BY <1>17
  <2>2. \A x : x # n /\ x # m => FindInRoot(e, x) = FindInRoot(d, x)
    BY <1>17, <1>18
  <2> QED
    BY <1>15, <1>16, <2>1, <2>2 DEF Renamed
<1> QED
  BY <1>7, <1>19

\* The sector in a buffer belongs to the file.
LEMMA CacheSector ==
    ASSUME NEW d, NEW fds, Chains(d, fds), NEW R, R = Recs(d, fds),
           NEW m \in Name, fds[m] # Closed, NEW i \in Nat, i < fds[m].fe.sctNum
    PROVE  /\ FindIndex(d, fds[m].fe.sctBegin, i) \in Sector
           /\ FindIndex(d, fds[m].fe.sctBegin, i) \notin Chain(d, d.root.sctBegin)
<1>1. /\ Shares(d, R) /\ Missing \in DOMAIN R /\ R[Missing] = d.root
      /\ m \in DOMAIN R /\ m # Missing /\ fds[m] \in FileDesc /\ R[m] = fds[m].fe
  <2>1. Owners(d, fds, R)
    BY RecsAre
  <2> QED
    BY <2>1 DEF Owners
<1>2. Linked(d, R[m].sctBegin, R[m].sctNum)
  BY <1>1 DEF Shares
<1>3. Chain(d, R[m].sctBegin) \intersect Chain(d, d.root.sctBegin) = {}
  BY <1>1 DEF Shares
<1>4. R[m].sctNum \in Nat
  BY <1>2 DEF Linked
<1>5. i \in 0 .. R[m].sctNum - 1
  BY <1>1, <1>4
<1>6. Chain(d, R[m].sctBegin) = {FindIndex(d, R[m].sctBegin, k) : k \in 0 .. R[m].sctNum - 1}
  BY <1>2, ChainLength
<1>7. FindIndex(d, R[m].sctBegin, i) \in Chain(d, R[m].sctBegin)
  BY <1>5, <1>6
<1>8. FindIndex(d, R[m].sctBegin, i) \in Sector
  BY <1>2, <1>5 DEF Linked
<1> QED
  BY <1>1, <1>3, <1>7, <1>8

LEMMA CacheApart ==
    ASSUME NEW d, NEW fds, Chains(d, fds), NEW R, R = Recs(d, fds), NEW e, OnlyRoot(d, e),
           NEW m \in Name, fds[m] # Closed, CacheOK(d, fds[m])
    PROVE  CacheOK(e, fds[m])
<1> DEFINE i == fds[m].objIdx
           t == FindIndex(d, fds[m].fe.sctBegin, i)
<1>1. i \in Nat \union {End}
  BY Numbers DEF Chains, Descriptors, FileDesc
<1>2. i # End => i < fds[m].fe.sctNum
  BY DEF CacheOK
<1> HIDE DEF i
<1>3. i # End => t \in Sector /\ t \notin Chain(d, d.root.sctBegin)
  BY <1>1, <1>2, CacheSector
<1>4. i # End => FindIndex(e, fds[m].fe.sctBegin, i) = t
  BY <1>1, IndexByMap DEF OnlyRoot
<1> HIDE DEF t
<1>5. i # End => e.sct[t] = d.sct[t]
  BY <1>3 DEF OnlyRoot
<1> QED
  BY <1>4, <1>5 DEF CacheOK, i, t

\* FlushFileEntry for an open file.
LEMMA EntryFlushed ==
    ASSUME NEW d, NEW fds, Chains(d, fds), NEW R, R = Recs(d, fds),
           NEW n \in Name, fds[n] # Closed, NEW fe, fe = fds[n].fe,
           NEW e, e = WithEntry(d, fe.inSctIdx, fe.inSctOff, fe)
    PROVE  /\ Chains(e, fds) /\ OnlyRoot(d, e) /\ FindInRoot(e, n) = fe
           /\ \A m \in Name : fds[m] # Closed /\ CacheOK(d, fds[m]) => CacheOK(e, fds[m])
<1>1. Directory(d) /\ fds \in Descriptors /\ \A m \in Name : fds[m] # Closed => Named(d, m, fds[m])
  BY DEF Chains
<1>2. /\ fe \in FileEntry /\ fe.name = n /\ FindInRoot(d, n) # Missing
      /\ SamePlace(fe, FindInRoot(d, n))
  BY <1>1 DEF Named, Descriptors, FileDesc
<1>3. OnlyRoot(d, e) /\ Renamed(d, e, n, n, fe)
  BY <1>1, <1>2, EntryWritten
<1>4. Directory(e) /\ FindInRoot(e, n) = fe /\ \A x : x # n => FindInRoot(e, x) = FindInRoot(d, x)
  BY <1>3 DEF Renamed
<1>5. fe # Missing
  BY <1>2, NameAssumption
<1>6. Recs(e, fds) = R
  <2>1. \A x : (FindInRoot(e, x) # Missing <=> FindInRoot(d, x) # Missing)
    BY <1>2, <1>4, <1>5
  <2>2. {x \in Name : FindInRoot(e, x) # Missing} = {x \in Name : FindInRoot(d, x) # Missing}
    BY <2>1
  <2>3. \A x \in Name : fds[x] = Closed => FindInRoot(e, x) = FindInRoot(d, x)
    BY <1>4
  <2>4. e.root = d.root
    BY <1>3 DEF OnlyRoot
  <2> QED
    BY <2>2, <2>3, <2>4 DEF Recs
<1>7. Shares(e, R) /\ \A o \in DOMAIN R : Proper(R[o])
  BY <1>3, SharesByMap DEF Chains, OnlyRoot
<1>8. ASSUME NEW m \in Name, fds[m] # Closed PROVE Named(e, m, fds[m])
  BY <1>1, <1>2, <1>4, <1>5, <1>8 DEF Named, SamePlace
<1>9. Chains(e, fds)
  BY <1>1, <1>4, <1>6, <1>7, <1>8 DEF Chains
<1> QED
  BY <1>3, <1>4, <1>9, CacheApart

-----------------------------------------------------------------------------
(* Sessions: what the functions on a descriptor keep *)

Started(fd) == fd.objIdx = End => fd.offset = SECT_SIZE /\ ~fd.changed

\* All is well with the disk and the descriptors but for the buffer of n.
Holds(fds, n, s) ==
    /\ s = [w |-> s.w, fd |-> s.fd, ok |-> s.ok] /\ s.ok \in BOOLEAN
    /\ History(s.w) /\ s.fd \in FileDesc /\ Started(s.fd)
    /\ Chains(Now(s.w), With(fds, n, s.fd))
    /\ Caches(Now(s.w), With(fds, n, s.fd), Name \ {n})

Fresh(s) == CacheOK(Now(s.w), s.fd)

\* What ToFlush leaves alone, and what it achieves for a buffer that is fresh.
Flushed(n, s, f) ==
    /\ f.ok = s.ok /\ f.fd.fe = s.fd.fe /\ f.fd.objIdx = s.fd.objIdx
    /\ f.fd.offset = s.fd.offset /\ f.fd.cache = s.fd.cache
    /\ f.fd.changed => s.fd.changed
    /\ Now(f.w).map = Now(s.w).map
    /\ Fresh(s) => Fresh(f) /\ ~f.fd.changed /\ FindInRoot(Now(f.w), n) = f.fd.fe

\* The entry is written, of a descriptor that may be marked as unchanged before.
LEMMA EntryWrites ==
    ASSUME NEW fds \in Descriptors, NEW n \in Name, NEW s, Holds(fds, n, s), NEW w,
           w = FlushFileEntry(s.w, s.fd.fe)
    PROVE  /\ History(w) /\ OnlyRoot(Now(s.w), Now(w)) /\ FindInRoot(Now(w), n) = s.fd.fe
           /\ Chains(Now(w), With(fds, n, s.fd))
           /\ Caches(Now(w), With(fds, n, s.fd), Name \ {n})
           /\ Fresh(s) => CacheOK(Now(w), s.fd)
<1> DEFINE d == Now(s.w)
           fe == s.fd.fe
           e == WithEntry(d, fe.inSctIdx, fe.inSctOff, fe)
           gds == With(fds, n, s.fd)
<1>1. /\ History(s.w) /\ s.fd \in FileDesc /\ Chains(d, gds) /\ Caches(d, gds, Name \ {n})
  BY DEF Holds
<1>2. gds[n] = s.fd /\ gds[n] # Closed
  BY <1>1, Withs
<1>3. w = Write(s.w, e)
  BY DEF FlushFileEntry
<1> HIDE DEF e
<1>4. History(w) /\ Now(w) = e
  BY <1>1, <1>3, Written
<1> HIDE DEF d, gds
<1>5. PICK R : R = Recs(d, gds)
  OBVIOUS
<1>6. fe = gds[n].fe /\ e = WithEntry(d, fe.inSctIdx, fe.inSctOff, fe)
  BY <1>2 DEF e
<1> HIDE DEF fe
<1>7. /\ Chains(e, gds) /\ OnlyRoot(d, e) /\ FindInRoot(e, n) = fe
      /\ \A m \in Name : gds[m] # Closed /\ CacheOK(d, gds[m]) => CacheOK(e, gds[m])
  BY <1>1, <1>2, <1>5, <1>6, EntryFlushed
<1>8. Caches(e, gds, Name \ {n})
  BY <1>1, <1>7 DEF Caches
<1>9. Fresh(s) => CacheOK(e, s.fd)
  BY <1>2, <1>7 DEF Fresh, d
<1> QED
  BY <1>4, <1>7, <1>8, <1>9 DEF d, gds, fe

LEMMA FlushKeeps ==
    ASSUME NEW fds \in Descriptors, NEW n \in Name, NEW s, Holds(fds, n, s), NEW f,
           f = ToFlush(s)
    PROVE  Holds(fds, n, f) /\ Flushed(n, s, f)
<1> DEFINE d == Now(s.w)
           gds == With(fds, n, s.fd)
           i == s.fd.objIdx
           si == FindIndex(d, s.fd.fe.sctBegin, i)
<1>1. /\ s = [w |-> s.w, fd |-> s.fd, ok |-> s.ok] /\ s.ok \in BOOLEAN
      /\ History(s.w) /\ s.fd \in FileDesc /\ Started(s.fd)
      /\ Chains(d, gds) /\ Caches(d, gds, Name \ {n})
  BY DEF Holds
<1>2. gds[n] = s.fd /\ gds[n] # Closed /\ s.fd # Closed
  BY <1>1, Withs
<1>3. CASE ~s.fd.changed
  <2> DEFINE w == FlushFileEntry(s.w, s.fd.fe)
  <2>1. f = [s EXCEPT !.w = w]
    BY <1>3 DEF ToFlush
  <2>2. /\ History(w) /\ OnlyRoot(Now(s.w), Now(w)) /\ FindInRoot(Now(w), n) = s.fd.fe
        /\ Chains(Now(w), With(fds, n, s.fd))
        /\ Caches(Now(w), With(fds, n, s.fd), Name \ {n})
        /\ (Fresh(s) => CacheOK(Now(w), s.fd))
    BY EntryWrites
  <2> HIDE DEF w
  <2> DEFINE v == s.w
             fd == s.fd
             ok == s.ok
  <2>3. s = [w |-> v, fd |-> fd, ok |-> ok]
    BY <1>1
  <2> HIDE DEF v, fd, ok
  <2>4. f = [w |-> w, fd |-> fd, ok |-> ok]
    BY <2>1, <2>3
  <2>5. f.w = w /\ f.fd = s.fd /\ f.ok = s.ok
    BY <2>4 DEF fd, ok
  <2>6. f = [w |-> f.w, fd |-> f.fd, ok |-> f.ok]
    BY <2>4, <2>5
  <2>7. Holds(fds, n, f)
    BY <1>1, <2>2, <2>5, <2>6 DEF Holds
  <2>8. Flushed(n, s, f)
    BY <1>3, <2>2, <2>5 DEF Flushed, Fresh, OnlyRoot
  <2> QED
    BY <2>7, <2>8
<1>4. CASE s.fd.changed /\ si = End
  <2>1. f = s
    BY <1>4 DEF ToFlush
  <2>2. ~Fresh(s)
    <3> SUFFICES ASSUME Fresh(s) PROVE FALSE
      OBVIOUS
    <3>1. i # End /\ i < s.fd.fe.sctNum
      BY <1>4 DEF Fresh, CacheOK
    <3>2. i \in Nat
      BY <1>1, <3>1, Numbers DEF FileDesc
    <3>3. si \in Sector
      BY <1>1, <1>2, <3>1, <3>2, CacheSector
    <3> QED
      BY <1>4, <3>3, Numbers
  <2> QED
    BY <2>1, <2>2 DEF Flushed
<1>5. CASE s.fd.changed /\ si # End
  <2> DEFINE cache == s.fd.cache
             x == WithBytes(d, si, cache)
             v == Write(s.w, x)
             w == FlushFileEntry(v, s.fd.fe)
             fd == [s.fd EXCEPT !.changed = FALSE]
             t == [w |-> v, fd |-> fd, ok |-> s.ok]
             hds == With(fds, n, fd)
  <2>1. f = [s EXCEPT !.w = w, !.fd.changed = FALSE]
    BY <1>5 DEF ToFlush, WithBytes
  <2>2. i # End /\ i \in Nat /\ cache \in [Offset -> Byte]
    BY <1>1, <1>5, Numbers DEF Started, FileDesc
  <2>3. Linked(d, s.fd.fe.sctBegin, s.fd.fe.sctNum)
    <3>1. PICK R : R = Recs(d, gds)
      OBVIOUS
    <3>2. Owners(d, gds, R)
      BY <1>1, <3>1, RecsAre
    <3>3. n \in DOMAIN R /\ R[n] = s.fd.fe /\ Shares(d, R)
      BY <1>2, <3>2 DEF Owners
    <3> QED
      BY <3>3 DEF Shares
  <2>4. i \in 0 .. s.fd.fe.sctNum - 1
    <3>1. s.fd.fe.sctNum \in Nat
      BY <2>3 DEF Linked
    <3>2. i < s.fd.fe.sctNum
      BY <1>5, <2>2, <2>3, <3>1, BehindEnd
    <3> QED
      BY <2>2, <3>1, <3>2
  <2>5. si \in Sector
    BY <2>3, <2>4 DEF Linked
  <2>6. d \in Disks
    BY <1>1 DEF Chains, Directory
  <2>7. fd \in FileDesc /\ fd.fe = s.fd.fe /\ fd.objIdx = i /\ fd.offset = s.fd.offset
        /\ fd.cache = cache /\ fd.changed = FALSE
    BY <1>1 DEF FileDesc
  <2>8. OnlyAt(d, x, si) /\ BytesIn(x.sct[si]) = cache
    BY <2>2, <2>5, <2>6, BytesWritten
  <2> HIDE DEF x, fd
  <2>9. /\ Chains(x, gds) /\ Caches(x, gds, Name \ {n})
    <3>1. PICK R : R = Recs(d, gds)
      OBVIOUS
    <3>2. /\ i \in 0 .. gds[n].fe.sctNum - 1 /\ si = FindIndex(d, gds[n].fe.sctBegin, i)
      BY <1>2, <2>4
    <3>3. Chains(d, gds) /\ gds[n] # Closed /\ OnlyAt(d, x, si) /\ Caches(d, gds, Name \ {n})
      BY <1>1, <1>2, <2>8
    <3> HIDE DEF d, gds, i, si
    <3>4. /\ Chains(x, gds) /\ SameDirectory(d, x) /\ si \in Sector
          /\ (Caches(d, gds, Name \ {n}) => Caches(x, gds, Name \ {n}))
      BY <3>1, <3>2, <3>3, FileWritten
    <3> QED
      BY <3>3, <3>4
  <2>10. /\ Chains(x, hds) /\ Caches(x, hds, Name \ {n})
    <3>1. SameRecord(gds[n].fe, fd.fe) /\ SameChain(gds[n].fe, fd.fe)
      BY <1>2, <2>7 DEF SameRecord, SameChain
    <3>2. Proper(fd.fe)
      <4>1. PICK R : R = Recs(d, gds)
        OBVIOUS
      <4>2. Owners(d, gds, R)
        BY <1>1, <4>1, RecsAre
      <4> QED
        BY <1>2, <2>7, <4>2 DEF Owners
    <3>3. hds = With(gds, n, fd)
      BY <1>1, Withs
    <3> HIDE DEF gds, hds
    <3> QED
      BY <1>2, <2>7, <2>9, <3>1, <3>2, <3>3, Refiled
  <2>11. History(v) /\ Now(v) = x
    BY <1>1, Written
  <2>12. t = [w |-> t.w, fd |-> t.fd, ok |-> t.ok] /\ t.w = v /\ t.fd = fd /\ t.ok = s.ok
    OBVIOUS
  <2>13. Started(fd)
    BY <2>2, <2>7 DEF Started
  <2>14. Holds(fds, n, t)
    <3> HIDE DEF t, v
    <3> QED
      BY <1>1, <2>7, <2>10, <2>11, <2>12, <2>13 DEF Holds
  <2>15. w = FlushFileEntry(t.w, t.fd.fe)
    BY <2>7, <2>12
  <2> HIDE DEF t, v, w
  <2>16. /\ History(w) /\ OnlyRoot(Now(t.w), Now(w)) /\ FindInRoot(Now(w), n) = t.fd.fe
         /\ Chains(Now(w), With(fds, n, t.fd))
         /\ Caches(Now(w), With(fds, n, t.fd), Name \ {n})
         /\ (Fresh(t) => CacheOK(Now(w), t.fd))
    BY <2>14, <2>15, EntryWrites
  <2>17. Fresh(t)
    <3>1. FindIndex(x, fd.fe.sctBegin, i) = si
      BY <2>2, <2>7, <2>8, IndexByMap DEF OnlyAt
    <3>2. i < fd.fe.sctNum
      BY <2>3, <2>4, <2>7 DEF Linked
    <3> QED
      BY <2>2, <2>7, <2>8, <2>11, <2>12, <3>1, <3>2 DEF Fresh, CacheOK
  <2>18. f = [w |-> w, fd |-> fd, ok |-> s.ok]
    <3> DEFINE v0 == s.w
               fd0 == s.fd
               ok0 == s.ok
    <3>1. s = [w |-> v0, fd |-> fd0, ok |-> ok0]
      BY <1>1
    <3> HIDE DEF v0, fd0, ok0
    <3>2. f = [w |-> w, fd |-> [fd0 EXCEPT !.changed = FALSE], ok |-> ok0]
      BY <2>1, <3>1
    <3> QED
      BY <3>2 DEF fd, fd0, ok0
  <2>19. f.w = w /\ f.fd = fd /\ f.ok = s.ok /\ f = [w |-> f.w, fd |-> f.fd, ok |-> f.ok]
    BY <2>18
  <2>20. Holds(fds, n, f)
    BY <1>1, <2>7, <2>12, <2>13, <2>16, <2>19 DEF Holds
  <2>21. Now(w).map = d.map
    BY <2>8, <2>11, <2>12, <2>16 DEF OnlyAt, OnlyRoot
  <2>22. Flushed(n, s, f)
    BY <2>7, <2>12, <2>16, <2>17, <2>19, <2>21 DEF Flushed, Fresh
  <2> QED
    BY <2>20, <2>22
<1> QED
  BY <1>3, <1>4, <1>5

LEMMA HoldsOwner ==
    ASSUME NEW fds \in Descriptors, NEW n \in Name, NEW s, Holds(fds, n, s),
           NEW d, d = Now(s.w), NEW gds, gds = With(fds, n, s.fd), NEW R, R = Recs(d, gds)
    PROVE  /\ d \in Disks /\ Chains(d, gds) /\ gds[n] = s.fd /\ s.fd # Closed
           /\ gds[n] # Closed
           /\ R = [p \in DOMAIN R |-> R[p]] /\ Shares(d, R)
           /\ n \in DOMAIN R /\ n # Missing /\ R[n] = s.fd.fe /\ s.fd.fe \in Records
           /\ s.fd.fe \in FileEntry /\ s.fd.fe.name = n
           /\ Proper(s.fd.fe) /\ Linked(d, s.fd.fe.sctBegin, s.fd.fe.sctNum)
<1>1. s.fd \in FileDesc /\ Chains(d, gds)
  BY DEF Holds
<1>2. gds[n] = s.fd /\ gds[n] # Closed
  BY <1>1, Withs
<1>3. Owners(d, gds, R)
  BY <1>1, RecsAre
<1>4. d \in Disks
  BY <1>1 DEF Chains, Directory
<1>5. /\ R = [p \in DOMAIN R |-> R[p]] /\ Shares(d, R)
      /\ n \in DOMAIN R /\ n # Missing /\ R[n] = gds[n].fe /\ R[n] \in Records
      /\ R[n] \in FileEntry /\ R[n].name = n /\ Proper(R[n])
  BY <1>2, <1>3 DEF Owners
<1>6. Linked(d, R[n].sctBegin, R[n].sctNum)
  BY <1>5 DEF Shares
<1> QED
  BY <1>1, <1>2, <1>4, <1>5, <1>6

\* The sectors of a session's file grow by CheckStorage.
StorageChecked(s) ==
    LET c == CheckStorage(s.w, s.fd.fe)
    IN  [s EXCEPT !.w = c[1], !.fd.fe = c[2]]

LEMMA StorageKeeps ==
    ASSUME NEW fds \in Descriptors, NEW n \in Name, NEW s, Holds(fds, n, s), Fresh(s),
           NEW t, t = StorageChecked(s)
    PROVE  /\ Holds(fds, n, t) /\ Fresh(t) /\ t.ok = s.ok
<1> DEFINE d == Now(s.w)
           gds == With(fds, n, s.fd)
           fe == s.fd.fe
           v == s.w
           fd == s.fd
           ok == s.ok
           c == CheckStorage(s.w, s.fd.fe)
           ge == c[2]
           w == c[1]
           e == Now(w)
           hd == [fd EXCEPT !.fe = ge]
           hds == With(fds, n, hd)
<1>1. /\ s = [w |-> v, fd |-> fd, ok |-> ok] /\ ok \in BOOLEAN
      /\ History(v) /\ fd \in FileDesc /\ Started(fd)
      /\ Chains(d, gds) /\ Caches(d, gds, Name \ {n})
  BY DEF Holds
<1>2. t = [s EXCEPT !.w = w, !.fd.fe = ge]
  BY DEF StorageChecked
<1>3. PICK R : R = Recs(d, gds)
  OBVIOUS
<1>4. /\ d \in Disks /\ gds[n] = fd /\ fd # Closed /\ gds[n] # Closed
      /\ R = [p \in DOMAIN R |-> R[p]] /\ Shares(d, R)
      /\ n \in DOMAIN R /\ n # Missing /\ R[n] = fe /\ fe \in Records
      /\ fe \in FileEntry
      /\ Linked(d, fe.sctBegin, fe.sctNum)
  BY <1>3, HoldsOwner
<1>5. CASE fe.lastBytes # SECT_SIZE \/ d.freeBegin = End
  <2>1. c = << v, fe >>
    BY <1>5 DEF CheckStorage
  <2>2. w = v /\ ge = fe
    BY <2>1
  <2>3. [fd EXCEPT !.fe = fe] = fd
    BY <1>1 DEF FileDesc
  <2>4. t = s
    <3> HIDE DEF v, fd, ok, w, ge, fe
    <3>1. t = [w |-> v, fd |-> [fd EXCEPT !.fe = fe], ok |-> ok]
      BY <1>1, <1>2, <2>2
    <3> QED
      BY <1>1, <2>3, <3>1
  <2> QED
    BY <2>4
<1>6. CASE fe.lastBytes = SECT_SIZE /\ d.freeBegin # End
  <2> HIDE DEF c
  <2>1. /\ History(w) /\ Moved(d, e, R, n, ge) /\ Grown(d, e, fe, ge)
        /\ \A i \in 0 .. fe.sctNum - 1 :
              FindIndex(e, ge.sctBegin, i) = FindIndex(d, fe.sctBegin, i)
    <3>1. History(s.w) /\ d = Now(s.w) /\ fe = R[n] /\ c = CheckStorage(s.w, fe)
      BY <1>1, <1>4 DEF c
    <3> HIDE DEF d, fe
    <3> QED
      BY <1>4, <1>6, <3>1, StorageGrows
  <2>2. ge.sctNum = fe.sctNum + 1 /\ Proper(ge) /\ fe.sctNum \in Nat
    BY <1>4, <2>1 DEF Grown, Proper, Linked
  <2>3. ge \in FileEntry
    <3>1. SameRecord(R[n], ge)
      BY <2>1 DEF Moved
    <3> QED
      BY <1>4, <3>1 DEF SameRecord
  <2> HIDE DEF ge, w, e
  <2>4. /\ hd \in FileDesc /\ hd.fe = ge /\ hd.objIdx = fd.objIdx /\ hd.offset = fd.offset
        /\ hd.changed = fd.changed /\ hd.cache = fd.cache
    BY <1>1, <2>3 DEF FileDesc
  <2>5. t = [w |-> w, fd |-> hd, ok |-> ok]
    <3> HIDE DEF v, fd, ok, fe
    <3> QED
      BY <1>1, <1>2
  <2> HIDE DEF hd
  <2>6. Chains(e, hds) /\ Caches(e, hds, Name \ {n})
    <3>1. hds = With(gds, n, hd)
      BY <1>1, Withs
    <3> HIDE DEF gds, hds, d
    <3> QED
      BY <1>1, <1>3, <1>4, <2>1, <2>2, <2>4, <3>1, FileMoved
  <2>7. t.w = w /\ t.fd = hd /\ t.ok = ok /\ t = [w |-> t.w, fd |-> t.fd, ok |-> t.ok]
    BY <2>5
  <2>8. Started(hd)
    BY <1>1, <2>4 DEF Started
  <2>9. Holds(fds, n, t)
    BY <1>1, <2>1, <2>4, <2>6, <2>7, <2>8 DEF Holds, e
  <2>10. CacheOK(e, hd)
    <3> DEFINE i == fd.objIdx
    <3>1. i # End => /\ i < fe.sctNum
                     /\ ~fd.changed =>
                          fd.cache = BytesIn(d.sct[FindIndex(d, fe.sctBegin, i)])
      BY DEF Fresh, CacheOK
    <3>2. i \in Nat \union {End}
      BY <1>1, Numbers DEF FileDesc
    <3>3. i # End => i \in 0 .. fe.sctNum - 1
      BY <2>2, <3>1, <3>2
    <3>4. e.sct = d.sct
      BY <2>1 DEF Moved
    <3>5. i # End => FindIndex(e, ge.sctBegin, i) = FindIndex(d, fe.sctBegin, i) /\ i < ge.sctNum
      BY <2>1, <2>2, <3>1, <3>2, <3>3
    <3>6. i = End => hd.offset = SECT_SIZE /\ ~hd.changed
      BY <1>1, <2>4 DEF Started
    <3> QED
      BY <2>4, <3>1, <3>4, <3>5, <3>6 DEF CacheOK
  <2> QED
    BY <2>7, <2>9, <2>10 DEF Fresh, e
<1> QED
  BY <1>4, <1>5, <1>6

Triple(s) == s = [w |-> s.w, fd |-> s.fd, ok |-> s.ok]

\* Another buffer and another length of the last sector.
LEMMA HoldsWith ==
    ASSUME NEW fds \in Descriptors, NEW n \in Name, NEW s, Holds(fds, n, s),
           NEW hd \in FileDesc, SameRecord(s.fd.fe, hd.fe), SameChain(s.fd.fe, hd.fe),
           Proper(hd.fe), Started(hd),
           NEW r, Triple(r), r.w = s.w, r.fd = hd, r.ok \in BOOLEAN
    PROVE  Holds(fds, n, r)
<1> DEFINE d == Now(s.w)
           gds == With(fds, n, s.fd)
           hds == With(fds, n, hd)
<1>1. /\ History(s.w) /\ s.fd \in FileDesc /\ Chains(d, gds) /\ Caches(d, gds, Name \ {n})
  BY DEF Holds
<1>2. gds[n] = s.fd /\ gds[n] # Closed /\ hds = With(gds, n, hd)
  BY <1>1, Withs
<1>3. SameRecord(gds[n].fe, hd.fe) /\ SameChain(gds[n].fe, hd.fe)
  BY <1>2
<1> HIDE DEF d, gds, hds
<1>4. Chains(d, hds) /\ (Caches(d, gds, Name \ {n}) => Caches(d, hds, Name \ {n}))
  BY <1>1, <1>2, <1>3, Refiled
<1>5. Caches(d, hds, Name \ {n})
  BY <1>1, <1>4
<1> QED
  BY <1>1, <1>4, <1>5 DEF Holds, Triple, d, hds

LEMMA SameFile ==
    ASSUME NEW fds \in Descriptors, NEW n \in Name, NEW s, Holds(fds, n, s),
           NEW hd \in FileDesc, hd.fe = s.fd.fe, Started(hd),
           NEW r, Triple(r), r.w = s.w, r.fd = hd, r.ok \in BOOLEAN
    PROVE  Holds(fds, n, r)
<1>1. PICK d : d = Now(s.w)
  OBVIOUS
<1>2. PICK gds : gds = With(fds, n, s.fd)
  OBVIOUS
<1>3. PICK R : R = Recs(d, gds)
  OBVIOUS
<1>4. Proper(s.fd.fe) /\ s.fd.fe \in FileEntry
  BY <1>1, <1>2, <1>3, HoldsOwner
<1>5. SameRecord(s.fd.fe, hd.fe) /\ SameChain(s.fd.fe, hd.fe) /\ Proper(hd.fe)
  BY <1>4 DEF SameRecord, SameChain
<1> QED
  BY <1>5, HoldsWith

\* A byte can be taken from the buffer or put into it.
Ready(fd) == fd.offset \in Offset /\ fd.objIdx # End

LEMMA ReadKeeps ==
    ASSUME NEW fds \in Descriptors, NEW n \in Name, NEW s, Holds(fds, n, s), Fresh(s),
           NEW idx \in Nat, NEW r, r = ReadToCache(s, idx)
    PROVE  Holds(fds, n, r) /\ Fresh(r) /\ (r.ok => Ready(r.fd))
<1> DEFINE d == Now(s.w)
           v == s.w
           fd == s.fd
           ok == s.ok
           si == FindIndex(d, fd.fe.sctBegin, idx)
           f == ToFlush(s)
<1>1. /\ s = [w |-> v, fd |-> fd, ok |-> ok] /\ ok \in BOOLEAN
      /\ History(v) /\ fd \in FileDesc /\ Started(fd)
  BY DEF Holds
<1>2. /\ Linked(d, fd.fe.sctBegin, fd.fe.sctNum) /\ fd.fe \in FileEntry
  <2>1. PICK gds : gds = With(fds, n, s.fd)
    OBVIOUS
  <2>2. PICK R : R = Recs(d, gds)
    OBVIOUS
  <2> QED
    BY <2>1, <2>2, HoldsOwner
<1>3. fd.fe.sctNum \in 0 .. dataSize /\ dataSize \in Nat
  BY <1>2, ChainLength, Numbers
<1>4. CASE idx >= fd.fe.sctNum
  <2>1. r = [s EXCEPT !.ok = FALSE]
    BY <1>4 DEF ReadToCache
  <2>2. r = [w |-> v, fd |-> fd, ok |-> FALSE]
    <3> HIDE DEF v, fd, ok
    <3> QED
      BY <1>1, <2>1
  <2>3. r.w = s.w /\ r.fd = s.fd /\ r.ok = FALSE /\ Triple(r)
    BY <2>2 DEF Triple
  <2>4. Holds(fds, n, r)
    BY <1>1, <2>3, SameFile
  <2> QED
    BY <2>3, <2>4 DEF Fresh
<1>5. CASE idx < fd.fe.sctNum
  <2>1. si \in Sector /\ si # End
    <3>1. idx \in 0 .. fd.fe.sctNum - 1
      BY <1>3, <1>5
    <3> QED
      BY <1>2, <3>1, Numbers DEF Linked
  <2>2. Holds(fds, n, f) /\ Flushed(n, s, f)
    BY FlushKeeps
  <2> DEFINE x == Now(f.w)
             cache == BytesIn(x.sct[si])
             fw == f.w
             ffd == f.fd
             fok == f.ok
             hd == [ffd EXCEPT !.objIdx = idx, !.offset = 0, !.changed = FALSE, !.cache = cache]
  <2>3. ~ (idx >= fd.fe.sctNum)
    BY <1>3, <1>5
  <2>4. r = [f EXCEPT !.fd.objIdx = idx, !.fd.offset = 0, !.fd.changed = FALSE,
                      !.fd.cache = cache]
    BY <2>1, <2>3 DEF ReadToCache
  <2> HIDE DEF f
  <2>5. /\ f = [w |-> fw, fd |-> ffd, ok |-> fok] /\ fok \in BOOLEAN
        /\ ffd \in FileDesc /\ ffd.fe = fd.fe /\ x.map = d.map /\ x \in Disks
    BY <2>2 DEF Holds, Flushed, Chains, Directory
  <2>6. cache \in [Offset -> Byte]
    <3>1. x.sct[si] \in EntrySector \union DataSector
      BY <2>1, <2>5, DiskFields
    <3> QED
      BY <3>1, EntriesKind
  <2> HIDE DEF cache
  <2>7. idx \in Sector /\ idx # End /\ 0 \in 0 .. SECT_SIZE /\ 0 \in Offset
    <3>1. idx \in 0 .. dataSize - 1
      BY <1>3, <1>5
    <3>2. 0 \in 0 .. SECT_SIZE /\ 0 \in 0 .. SECT_SIZE - 1
      BY Sizes
    <3> QED
      BY <3>1, <3>2, Numbers DEF Sector, Offset
  <2>8. /\ hd \in FileDesc /\ hd.fe = fd.fe /\ hd.objIdx = idx /\ hd.offset = 0
        /\ hd.changed = FALSE /\ hd.cache = cache
    BY <2>5, <2>6, <2>7 DEF FileDesc
  <2>9. r = [w |-> fw, fd |-> hd, ok |-> fok]
    <3> HIDE DEF fw, ffd, fok
    <3> QED
      BY <2>4, <2>5
  <2> HIDE DEF hd
  <2>10. r.w = f.w /\ r.fd = hd /\ r.ok \in BOOLEAN /\ Triple(r)
    BY <2>5, <2>9 DEF Triple
  <2>11. Started(hd)
    BY <2>7, <2>8 DEF Started
  <2>12. Holds(fds, n, r)
    BY <2>2, <2>5, <2>8, <2>10, <2>11, SameFile
  <2>13. FindIndex(x, hd.fe.sctBegin, idx) = si
    BY <2>5, <2>8, IndexByMap
  <2>14. Fresh(r)
    BY <1>5, <2>7, <2>8, <2>10, <2>13 DEF Fresh, CacheOK, cache
  <2> QED
    BY <2>7, <2>8, <2>10, <2>12, <2>14 DEF Ready
<1> QED
  BY <1>3, <1>4, <1>5

LEMMA PreparedKeeps ==
    ASSUME NEW fds \in Descriptors, NEW n \in Name, NEW s, Holds(fds, n, s), Fresh(s),
           NEW p, p = Prepared(s)
    PROVE  Holds(fds, n, p) /\ Fresh(p) /\ (p.ok => Ready(p.fd))
<1>1. s.fd \in FileDesc /\ Started(s.fd)
  BY DEF Holds
<1>2. CASE s.fd.offset = SECT_SIZE
  <2> DEFINE t == StorageChecked(s)
             idx == s.fd.objIdx + 1
  <2>1. p = ReadToCache(t, idx)
    BY <1>2 DEF Prepared, PrepareCache, StorageChecked
  <2>2. idx \in Nat
    <3>1. s.fd.objIdx \in Nat \union {-1}
      BY <1>1, Numbers DEF FileDesc, End
    <3> QED
      BY <3>1
  <2> HIDE DEF t, idx
  <2>3. Holds(fds, n, t) /\ Fresh(t)
    BY StorageKeeps DEF t
  <2> QED
    BY <2>1, <2>2, <2>3, ReadKeeps
<1>3. CASE s.fd.offset # SECT_SIZE
  <2>1. p = s
    BY <1>3 DEF Prepared
  <2>2. s.fd.offset \in 0 .. SECT_SIZE /\ s.fd.objIdx # End
    BY <1>1, <1>3 DEF FileDesc, Started
  <2>3. s.fd.offset \in Offset
    BY <1>3, <2>2, Sizes DEF Offset
  <2> QED
    BY <2>1, <2>2, <2>3 DEF Ready
<1> QED
  BY <1>2, <1>3

LEMMA CopyKeeps ==
    ASSUME NEW fds \in Descriptors, NEW n \in Name, NEW p, Holds(fds, n, p), Fresh(p),
           Ready(p.fd), NEW b \in Byte, NEW r, r = [p EXCEPT !.fd = CopyToCache(@, b)]
    PROVE  Holds(fds, n, r) /\ Fresh(r)
<1> DEFINE v == p.w
           fd == p.fd
           ok == p.ok
           k == fd.offset
           last == IF fd.objIdx = fd.fe.sctNum - 1 /\ fd.fe.lastBytes < k + 1
                   THEN k + 1 ELSE fd.fe.lastBytes
           fe == [fd.fe EXCEPT !.lastBytes = last]
           cache == [fd.cache EXCEPT ![k] = b]
           hd == [fd EXCEPT !.cache = cache, !.offset = k + 1, !.changed = TRUE, !.fe = fe]
<1>1. /\ p = [w |-> v, fd |-> fd, ok |-> ok] /\ ok \in BOOLEAN
      /\ History(v) /\ fd \in FileDesc /\ Started(fd)
  BY DEF Holds
<1>2. k \in Offset /\ fd.objIdx # End
  BY DEF Ready
<1>3. k + 1 \in 0 .. SECT_SIZE /\ k \in Nat
  BY <1>2, Sizes DEF Offset
<1>4. fd.fe \in FileEntry /\ fd.cache \in [Offset -> Byte] /\ fd.objIdx \in Sector
  BY <1>1, <1>2 DEF FileDesc
<1>5. last \in 0 .. SECT_SIZE
  BY <1>3, <1>4 DEF FileEntry
<1>6. fd.objIdx < fd.fe.sctNum
  BY <1>2 DEF Fresh, CacheOK
<1> HIDE DEF last
<1>7. /\ fe \in FileEntry /\ fe.lastBytes = last /\ SameRecord(fd.fe, fe) /\ SameChain(fd.fe, fe)
  BY <1>4, <1>5 DEF FileEntry, SameRecord, SameChain, Chained
<1>8. cache \in [Offset -> Byte]
  BY <1>2, <1>4
<1>9. Proper(fe)
  <2>1. fd.fe.sctNum \in 0 .. dataSize /\ fd.objIdx \in Nat
    BY <1>4, Numbers DEF FileEntry
  <2>2. fe.sctNum # 0
    BY <1>6, <1>7, <2>1, Numbers DEF SameChain
  <2> QED
    BY <2>2 DEF Proper
<1>10. CopyToCache(fd, b) = hd
  <2>1. fd \in [fe : FileEntry, objIdx : Sector \union {End}, offset : 0 .. SECT_SIZE,
                changed : BOOLEAN, cache : [Offset -> Byte]]
    BY <1>1 DEF FileDesc
  <2> DEFINE f == CopyToCache(fd, b)
  <2>2. f = [fd EXCEPT !.cache[fd.offset] = b, !.offset = @ + 1, !.changed = TRUE,
               !.fe.lastBytes = IF fd.objIdx = fd.fe.sctNum - 1 /\ @ < fd.offset + 1
                                THEN fd.offset + 1 ELSE @]
    BY DEF CopyToCache
  <2> HIDE DEF f
  <2>3. f = hd
    BY <2>1, <2>2 DEF last
  <2> QED
    BY <2>3 DEF f
<1> HIDE DEF fe, cache
<1>11. /\ hd \in FileDesc /\ hd.fe = fe /\ hd.objIdx = fd.objIdx /\ hd.offset = k + 1
       /\ hd.changed = TRUE
  BY <1>1, <1>3, <1>7, <1>8 DEF FileDesc
<1>12. r = [w |-> v, fd |-> hd, ok |-> ok]
  <2>1. r = [p EXCEPT !.fd = hd]
    BY <1>10
  <2> HIDE DEF v, fd, ok, hd
  <2> QED
    BY <1>1, <2>1
<1> HIDE DEF hd
<1>13. r.w = p.w /\ r.fd = hd /\ r.ok \in BOOLEAN /\ Triple(r)
  BY <1>1, <1>12 DEF Triple
<1>14. Started(hd)
  BY <1>2, <1>11 DEF Started
<1>15. SameRecord(p.fd.fe, hd.fe) /\ SameChain(p.fd.fe, hd.fe) /\ Proper(hd.fe)
  BY <1>7, <1>9, <1>11
<1>16. Holds(fds, n, r)
  BY <1>11, <1>13, <1>14, <1>15, HoldsWith
<1>17. Fresh(r)
  BY <1>2, <1>6, <1>7, <1>11, <1>13 DEF Fresh, CacheOK, SameChain
<1> QED
  BY <1>16, <1>17

LEMMA WriteByteKeeps ==
    ASSUME NEW fds \in Descriptors, NEW n \in Name, NEW s, Holds(fds, n, s), Fresh(s),
           NEW b \in Byte
    PROVE  Holds(fds, n, WriteByte(s, b)) /\ Fresh(WriteByte(s, b))
<1> DEFINE p == Prepared(s)
<1>1. Holds(fds, n, p) /\ Fresh(p) /\ (p.ok => Ready(p.fd))
  BY PreparedKeeps
<1> HIDE DEF p
<1>2. CASE ~s.ok
  BY <1>2 DEF WriteByte
<1>3. CASE s.ok /\ ~p.ok
  <2>1. WriteByte(s, b) = p
    BY <1>3 DEF WriteByte, p
  <2> QED
    BY <1>1, <2>1
<1>4. CASE s.ok /\ p.ok
  <2>1. WriteByte(s, b) = [p EXCEPT !.fd = CopyToCache(@, b)]
    BY <1>4 DEF WriteByte, p
  <2> DEFINE r == WriteByte(s, b)
  <2>2. r = [p EXCEPT !.fd = CopyToCache(@, b)]
    BY <2>1
  <2> HIDE DEF r
  <2>3. Holds(fds, n, r) /\ Fresh(r)
    BY <1>1, <1>4, <2>2, CopyKeeps
  <2> QED
    BY <2>3 DEF r
<1> QED
  BY <1>2, <1>3, <1>4

LEMMA ReadByteKeeps ==
    ASSUME NEW fds \in Descriptors, NEW n \in Name, NEW s, Holds(fds, n, s), Fresh(s)
    PROVE  Holds(fds, n, ReadByte(s)) /\ Fresh(ReadByte(s))
<1> DEFINE p == Prepared(s)
           v == p.w
           fd == p.fd
           ok == p.ok
           hd == [fd EXCEPT !.offset = fd.offset + 1]
           r == ReadByte(s)
<1>1. Holds(fds, n, p) /\ Fresh(p) /\ (p.ok => Ready(p.fd))
  BY PreparedKeeps
<1>2. CASE ~s.ok
  BY <1>2 DEF ReadByte
<1>3. CASE s.ok /\ ~p.ok
  BY <1>1, <1>3 DEF ReadByte
<1>4. CASE s.ok /\ p.ok
  <2>1. r = [p EXCEPT !.fd.offset = @ + 1]
    BY <1>4 DEF ReadByte
  <2> HIDE DEF p, r
  <2>2. p = [w |-> v, fd |-> fd, ok |-> ok] /\ fd \in FileDesc /\ ok \in BOOLEAN
    BY <1>1 DEF Holds
  <2>3. fd.offset + 1 \in 0 .. SECT_SIZE /\ fd.objIdx # End
    BY <1>1, <1>4, Sizes DEF Ready, Offset
  <2>4. /\ hd \in FileDesc /\ hd.fe = fd.fe /\ hd.objIdx = fd.objIdx
        /\ hd.changed = fd.changed /\ hd.cache = fd.cache
    BY <2>2, <2>3 DEF FileDesc
  <2>5. r = [w |-> v, fd |-> hd, ok |-> ok]
    <3> HIDE DEF v, fd, ok
    <3> QED
      BY <2>1, <2>2
  <2> HIDE DEF hd
  <2>6. r.w = p.w /\ r.fd = hd /\ r.ok \in BOOLEAN /\ Triple(r)
    BY <2>2, <2>5 DEF Triple
  <2>7. Started(hd)
    BY <2>3, <2>4 DEF Started
  <2>8. Holds(fds, n, r)
    BY <1>1, <2>4, <2>6, <2>7, SameFile
  <2>9. Fresh(r)
    BY <1>1, <2>3, <2>4, <2>6 DEF Fresh, CacheOK
  <2> QED
    BY <2>8, <2>9 DEF r
<1> QED
  BY <1>2, <1>3, <1>4

\* The loops of ToWrite and ToRead.
WriteLoop(s, data, n, f) ==
    f = [i \in 0 .. n |-> IF i = 0 THEN s ELSE WriteByte(f[i - 1], data[i])]

ReadLoop(s, n, f) == f = [i \in 0 .. n |-> IF i = 0 THEN s ELSE ReadByte(f[i - 1])]

LEMMA WriteLoopExists ==
    ASSUME NEW s, NEW data, NEW n \in Nat
    PROVE  \E f : WriteLoop(s, data, n, f)
<1> DEFINE S == {k \in Nat : ~ \E f : WriteLoop(s, data, k, f)}
<1> SUFFICES ASSUME S # {} PROVE FALSE
  OBVIOUS
<1>1. PICK k \in S : \A j \in S : k <= j
  BY Least
<1>2. k # 0
  <2>1. WriteLoop(s, data, 0, [i \in 0 .. 0 |-> s])
    BY DEF WriteLoop
  <2> QED
    BY <2>1
<1>3. k - 1 \in Nat /\ k - 1 \notin S
  BY <1>1, <1>2
<1>4. PICK f : WriteLoop(s, data, k - 1, f)
  BY <1>3
<1> DEFINE g == [i \in 0 .. k |-> IF i < k THEN f[i] ELSE WriteByte(f[k - 1], data[k])]
<1>5. WriteLoop(s, data, k, g)
  BY <1>2, <1>3, <1>4 DEF WriteLoop
<1> QED
  BY <1>1, <1>5

LEMMA ReadLoopExists ==
    ASSUME NEW s, NEW n \in Nat
    PROVE  \E f : ReadLoop(s, n, f)
<1> DEFINE S == {k \in Nat : ~ \E f : ReadLoop(s, k, f)}
<1> SUFFICES ASSUME S # {} PROVE FALSE
  OBVIOUS
<1>1. PICK k \in S : \A j \in S : k <= j
  BY Least
<1>2. k # 0
  <2>1. ReadLoop(s, 0, [i \in 0 .. 0 |-> s])
    BY DEF ReadLoop
  <2> QED
    BY <2>1
<1>3. k - 1 \in Nat /\ k - 1 \notin S
  BY <1>1, <1>2
<1>4. PICK f : ReadLoop(s, k - 1, f)
  BY <1>3
<1> DEFINE g == [i \in 0 .. k |-> IF i < k THEN f[i] ELSE ReadByte(f[k - 1])]
<1>5. ReadLoop(s, k, g)
  BY <1>2, <1>3, <1>4 DEF ReadLoop
<1> QED
  BY <1>1, <1>5

LEMMA ToWriteKeeps ==
    ASSUME NEW fds \in Descriptors, NEW n \in Name, NEW s, Holds(fds, n, s), Fresh(s),
           NEW data \in Seq(Byte), NEW r, r = ToWrite(s, data)
    PROVE  Holds(fds, n, r) /\ Fresh(r)
<1> DEFINE l == Len(data)
           at == CHOOSE f : WriteLoop(s, data, l, f)
<1>1. l \in Nat /\ \A i \in 1 .. l : data[i] \in Byte
  OBVIOUS
<1>2. WriteLoop(s, data, l, at)
  BY <1>1, WriteLoopExists
<1>3. r = at[l]
  BY DEF ToWrite, WriteLoop
<1> HIDE DEF at, l
<1> DEFINE S == {i \in Nat : i <= l /\ ~ (Holds(fds, n, at[i]) /\ Fresh(at[i]))}
<1>4. S = {}
  <2> SUFFICES ASSUME S # {} PROVE FALSE
    OBVIOUS
  <2>1. PICK k \in S : \A j \in S : k <= j
    <3>1. S \subseteq Nat
      OBVIOUS
    <3> QED
      BY <3>1, Least
  <2>2. k # 0
    BY <1>1, <1>2, <2>1 DEF WriteLoop
  <2>3. k - 1 \in Nat /\ k - 1 \notin S /\ k - 1 <= l /\ k \in 1 .. l
    BY <1>1, <2>1, <2>2
  <2>4. Holds(fds, n, at[k - 1]) /\ Fresh(at[k - 1])
    BY <2>3
  <2>5. at[k] = WriteByte(at[k - 1], data[k])
    BY <1>2, <2>2, <2>3 DEF WriteLoop
  <2>6. Holds(fds, n, at[k]) /\ Fresh(at[k])
    BY <1>1, <2>3, <2>4, <2>5, WriteByteKeeps
  <2> QED
    BY <2>1, <2>6
<1> QED
  BY <1>1, <1>3, <1>4

LEMMA ToReadKeeps ==
    ASSUME NEW fds \in Descriptors, NEW n \in Name, NEW s, Holds(fds, n, s), Fresh(s),
           NEW len \in Nat, NEW r, r = ToRead(s, len)
    PROVE  Holds(fds, n, r) /\ Fresh(r)
<1> DEFINE left == GetFileLen(s.fd) - GetFilePos(s.fd)
           l == IF left < 0 \/ len < left THEN len ELSE left
           at == CHOOSE f : ReadLoop(s, l, f)
<1>1. l \in Nat
  <2>1. s.fd \in FileDesc
    BY DEF Holds
  <2>2. /\ s.fd.fe.sctNum \in Nat /\ s.fd.fe.lastBytes \in Nat /\ SECT_SIZE \in Nat
        /\ s.fd.objIdx \in Int /\ s.fd.offset \in Nat
    <3>1. /\ s.fd.fe \in FileEntry /\ s.fd.objIdx \in Sector \union {End}
          /\ s.fd.offset \in 0 .. SECT_SIZE
      BY <2>1 DEF FileDesc
    <3>2. s.fd.fe.sctNum \in 0 .. dataSize /\ s.fd.fe.lastBytes \in 0 .. SECT_SIZE
      BY <3>1 DEF FileEntry
    <3>3. SECT_SIZE \in Nat /\ dataSize \in Nat /\ Sector \subseteq Nat /\ End \in Int
      BY Numbers, Sizes DEF End
    <3>4. s.fd.fe.sctNum \in Nat
      BY <3>2, <3>3
    <3>5. s.fd.fe.lastBytes \in Nat /\ s.fd.offset \in Nat
      BY <3>1, <3>2, <3>3
    <3>6. s.fd.objIdx \in Int
      <4>1. s.fd.objIdx \in Sector \/ s.fd.objIdx = End
        BY <3>1
      <4>2. \A x \in Sector : x \in Int
        BY <3>3
      <4> QED
        BY <3>3, <4>1, <4>2
    <3> QED
      BY <3>3, <3>4, <3>5, <3>6
  <2>3. (s.fd.fe.sctNum - 1) * SECT_SIZE \in Int /\ s.fd.objIdx * SECT_SIZE \in Int
    BY <2>2
  <2>4. GetFileLen(s.fd) \in Int /\ GetFilePos(s.fd) \in Int
    BY <2>2, <2>3 DEF GetFileLen, GetFilePos
  <2> QED
    BY <2>4
<1>2. ReadLoop(s, l, at)
  BY <1>1, ReadLoopExists
<1>3. r = at[l]
  BY DEF ToRead, ReadLoop
<1> HIDE DEF at, l
<1> DEFINE S == {i \in Nat : i <= l /\ ~ (Holds(fds, n, at[i]) /\ Fresh(at[i]))}
<1>4. S = {}
  <2> SUFFICES ASSUME S # {} PROVE FALSE
    OBVIOUS
  <2>1. PICK k \in S : \A j \in S : k <= j
    <3>1. S \subseteq Nat
      OBVIOUS
    <3> QED
      BY <3>1, Least
  <2>2. k # 0
    BY <1>1, <1>2, <2>1 DEF ReadLoop
  <2>3. k - 1 \in Nat /\ k - 1 \notin S /\ k - 1 <= l /\ k \in 1 .. l
    BY <1>1, <2>1, <2>2
  <2>4. Holds(fds, n, at[k - 1]) /\ Fresh(at[k - 1])
    BY <2>3
  <2>5. at[k] = ReadByte(at[k - 1])
    BY <1>2, <2>2, <2>3 DEF ReadLoop
  <2>6. Holds(fds, n, at[k]) /\ Fresh(at[k])
    BY <2>4, <2>5, ReadByteKeeps
  <2> QED
    BY <2>1, <2>6
<1> QED
  BY <1>1, <1>3, <1>4

-----------------------------------------------------------------------------
(* FSeek and FErase *)

LEMMA Times ==
    ASSUME NEW a \in Nat, NEW b \in Nat, NEW c \in Nat
    PROVE  a * (b - c) = a * b - a * c
  OBVIOUS

LEMMA Divided ==
    ASSUME NEW p \in Nat
    PROVE  /\ p \div SECT_SIZE \in Nat /\ p % SECT_SIZE \in Offset
           /\ p = SECT_SIZE * (p \div SECT_SIZE) + (p % SECT_SIZE)
<1>1. SECT_SIZE \in Nat \ {0}
  BY Sizes
<1> QED
  BY <1>1 DEF Offset

\* The record of an open file has as many bytes as GetFileLen says.
LEMMA LengthIs ==
    ASSUME NEW fds \in Descriptors, NEW n \in Name, NEW s, Holds(fds, n, s)
    PROVE  /\ GetFileLen(s.fd) = Bytes(s.fd.fe) /\ GetFileLen(s.fd) \in Nat
           /\ GetFilePos(s.fd) \in Nat
<1> DEFINE d == Now(s.w)
           gds == With(fds, n, s.fd)
           R == Recs(d, gds)
           fe == s.fd.fe
<1>1. /\ fe \in FileEntry /\ Proper(fe) /\ Linked(d, fe.sctBegin, fe.sctNum)
  BY HoldsOwner
<1>2. fe.sctNum \in Nat /\ SECT_SIZE \in Nat \ {0} /\ fe.lastBytes \in Nat
  BY <1>1, Sizes DEF Linked, FileEntry
<1>3. fe.sctBegin = End <=> fe.sctNum = 0
  BY <1>1, ChainLength
<1>4. s.fd \in FileDesc
  BY DEF Holds
<1>7. GetFilePos(s.fd) \in Nat
  <2>1. CASE s.fd.objIdx = End
    BY <2>1 DEF GetFilePos
  <2>2. CASE s.fd.objIdx # End
    <3>1. s.fd.objIdx \in Sector /\ s.fd.offset \in 0 .. SECT_SIZE
      BY <1>4, <2>2 DEF FileDesc
    <3>2. s.fd.objIdx \in Nat
      BY <3>1, Numbers
    <3>3. s.fd.offset \in Nat
      BY <1>2, <3>1
    <3>4. s.fd.objIdx * SECT_SIZE \in Nat
      BY <1>2, <3>2
    <3> QED
      BY <2>2, <3>3, <3>4 DEF GetFilePos
  <2> QED
    BY <2>1, <2>2
<1> SUFFICES /\ GetFileLen(s.fd) = Bytes(fe) /\ GetFileLen(s.fd) \in Nat
  BY <1>7
<1>5. CASE fe.sctNum = 0
  <2>1. GetFileLen(s.fd) = 0
    BY <1>3, <1>5 DEF GetFileLen
  <2>2. Bytes(fe) = 0
    BY <1>1, <1>2, <1>5 DEF Bytes, Proper
  <2> QED
    BY <2>1, <2>2
<1>6. CASE fe.sctNum > 0
  <2>1. GetFileLen(s.fd) = Bytes(fe)
    BY <1>2, <1>3, <1>6 DEF GetFileLen, Bytes
  <2>2. fe.sctNum - 1 \in Nat
    BY <1>2, <1>6
  <2>3. (fe.sctNum - 1) * SECT_SIZE \in Nat
    BY <1>2, <2>2
  <2> QED
    BY <1>2, <2>1, <2>3 DEF Bytes
<1> QED
  BY <1>2, <1>5, <1>6

\* The sector at a position, when there is one, is a sector of the file.
LEMMA LocateKeeps ==
    ASSUME NEW fds \in Descriptors, NEW n \in Name, NEW s, Holds(fds, n, s),
           NEW pos \in Nat, NEW r, r = ToLocate(s, pos)
    PROVE  /\ Holds(fds, n, r)
           /\ Fresh(s) => Fresh(r)
           /\ (pos < GetFileLen(s.fd) \/ GetFileLen(s.fd) % SECT_SIZE # 0) => Fresh(r)
<1> DEFINE d == Now(s.w)
           fe == s.fd.fe
           len == GetFileLen(s.fd)
           to  == IF pos < len THEN pos ELSE len
           idx == to \div SECT_SIZE
           off == to % SECT_SIZE
           si  == FindIndex(d, fe.sctBegin, idx)
           f   == ToFlush(s)
<1>1. len = Bytes(fe) /\ len \in Nat
  BY LengthIs
<1>2. /\ to \in Nat /\ idx \in Nat /\ off \in Offset
      /\ to = SECT_SIZE * idx + off
  BY <1>1, Divided
<1>3. Holds(fds, n, f) /\ Flushed(n, s, f)
  BY FlushKeeps
<1> DEFINE R == Recs(d, With(fds, n, s.fd))
<1>4. Linked(d, fe.sctBegin, fe.sctNum) /\ d \in Disks /\ Proper(fe) /\ fe \in FileEntry
  BY HoldsOwner
<1>5. idx < fe.sctNum => si \in Sector /\ si # End /\ idx \in Sector
  <2> SUFFICES ASSUME idx < fe.sctNum PROVE si \in Sector /\ si # End /\ idx \in Sector
    OBVIOUS
  <2>1. fe.sctNum \in Nat /\ fe.sctNum \in 0 .. dataSize
    BY <1>4, ChainLength DEF Linked
  <2>2. idx \in 0 .. fe.sctNum - 1
    BY <1>2, <2>1
  <2>3. dataSize \in Nat /\ Sector = 0 .. dataSize - 1
    BY Numbers DEF Sector
  <2> QED
    BY <1>4, <2>1, <2>2, <2>3, Numbers DEF Linked
<1>6. idx >= fe.sctNum => si = End
  BY <1>2, <1>4, BehindEnd
<1>7. (pos < len \/ len % SECT_SIZE # 0) => idx < fe.sctNum
  <2> SUFFICES ASSUME pos < len \/ len % SECT_SIZE # 0, idx >= fe.sctNum PROVE FALSE
    BY <1>2, <1>4 DEF Linked
  <2>1. fe.sctNum \in Nat /\ fe.lastBytes \in 0 .. SECT_SIZE /\ SECT_SIZE \in Nat \ {0}
    BY <1>4, Sizes DEF Linked, FileEntry
  <2>2. len <= SECT_SIZE * fe.sctNum
    <3>1. (fe.sctNum - 1) * SECT_SIZE = SECT_SIZE * fe.sctNum - SECT_SIZE
      BY <2>1
    <3>2. SECT_SIZE * fe.sctNum \in Nat
      BY <2>1
    <3> QED
      BY <1>1, <2>1, <3>1, <3>2 DEF Bytes
  <2>3. SECT_SIZE * fe.sctNum <= SECT_SIZE * idx
    <3>1. idx - fe.sctNum \in Nat
      BY <1>2, <2>1
    <3>2. SECT_SIZE * (idx - fe.sctNum) \in Nat
      BY <2>1, <3>1
    <3>3. SECT_SIZE * (idx - fe.sctNum) = SECT_SIZE * idx - SECT_SIZE * fe.sctNum
      BY <1>2, <2>1, Times
    <3>4. SECT_SIZE * idx \in Nat /\ SECT_SIZE * fe.sctNum \in Nat
      BY <1>2, <2>1
    <3> QED
      BY <3>2, <3>3, <3>4
  <2>4. SECT_SIZE * idx \in Nat /\ SECT_SIZE * fe.sctNum \in Nat /\ off \in Nat
    <3>1. SECT_SIZE * idx \in Nat
      BY <1>2, <2>1
    <3>2. SECT_SIZE * fe.sctNum \in Nat
      BY <2>1
    <3>3. off \in Nat
      BY <1>2, <2>1 DEF Offset
    <3> QED
      BY <3>1, <3>2, <3>3
  <2>5. to >= len /\ off = 0
    BY <1>1, <1>2, <2>2, <2>3, <2>4
  <2>6. to = len /\ ~ (pos < len)
    BY <1>1, <2>5
  <2> QED
    BY <2>5, <2>6
<1> DEFINE cache == BytesIn(Now(f.w).sct[si])
<1>8. r = IF si = End THEN f
          ELSE [f EXCEPT !.fd.objIdx = idx, !.fd.offset = off, !.fd.cache = cache]
  BY DEF ToLocate
<1> HIDE DEF to, idx, off, si, f, cache, len
<1>9. CASE si = End
  <2>1. r = f
    BY <1>8, <1>9
  <2>2. Fresh(s) => Fresh(f)
    BY <1>3 DEF Flushed
  <2> QED
    BY <1>2, <1>3, <1>4, <1>5, <1>7, <1>9, <2>1, <2>2 DEF len
<1>10. CASE si # End
  <2>1. idx < fe.sctNum /\ si \in Sector /\ idx \in Sector
    BY <1>2, <1>4, <1>5, <1>6, <1>10 DEF Linked
  <2> DEFINE v == f.w
             fd == f.fd
             ok == f.ok
             hd == [fd EXCEPT !.objIdx = idx, !.offset = off, !.cache = cache]
  <2>2. /\ f = [w |-> v, fd |-> fd, ok |-> ok] /\ ok \in BOOLEAN /\ fd \in FileDesc
        /\ Chains(Now(v), With(fds, n, fd))
    BY <1>3 DEF Holds
  <2>3. Now(v) \in Disks
    BY <2>2 DEF Chains, Directory
  <2>4. cache \in [Offset -> Byte]
    BY <2>1, <2>3, DiskFields, EntriesKind DEF cache
  <2>5. /\ hd \in FileDesc /\ hd.fe = fd.fe /\ hd.objIdx = idx /\ hd.offset = off
        /\ hd.changed = fd.changed /\ hd.cache = cache
    <3>1. off \in 0 .. SECT_SIZE
      BY <1>2, Sizes DEF Offset
    <3> QED
      BY <2>1, <2>2, <2>4, <3>1 DEF FileDesc
  <2>6. r = [w |-> v, fd |-> hd, ok |-> ok]
    <3> HIDE DEF v, fd, ok
    <3> QED
      BY <1>8, <1>10, <2>2
  <2> HIDE DEF hd
  <2>7. Triple(r) /\ r.w = f.w /\ r.fd = hd /\ r.ok \in BOOLEAN
    BY <2>2, <2>6 DEF Triple
  <2>8. Started(hd)
    BY <2>1, <2>5, Numbers DEF Started
  <2>9. Holds(fds, n, r)
    BY <1>3, <2>5, <2>7, <2>8, SameFile
  <2>10. Now(v).map = d.map /\ fd.fe = fe
    BY <1>3 DEF Flushed
  <2>11. FindIndex(Now(v), fe.sctBegin, idx) = si
    <3>1. FindIndex(Now(v), fe.sctBegin, idx) = FindIndex(d, fe.sctBegin, idx)
      BY <1>2, <2>10, IndexByMap
    <3> QED
      BY <3>1 DEF si
  <2>12. Fresh(r)
    <3>1. hd.objIdx # End
      BY <2>1, <2>5, Numbers
    <3>2. hd.objIdx < hd.fe.sctNum
      BY <2>1, <2>5, <2>10
    <3>3. hd.cache = BytesIn(Now(v).sct[FindIndex(Now(v), hd.fe.sctBegin, hd.objIdx)])
      BY <2>5, <2>10, <2>11 DEF cache
    <3> QED
      BY <2>7, <3>1, <3>2, <3>3 DEF Fresh, CacheOK
  <2> QED
    BY <2>9, <2>12
<1> QED
  BY <1>9, <1>10

\* A file whose last bytes were erased: the buffer is as before.
Cut(s, bytes) ==
    LET e == EraseLast(s.w, s.fd.fe, bytes)
    IN  [s EXCEPT !.w = e.w, !.fd.fe = e.fe]

LEMMA CutKeeps ==
    ASSUME NEW fds \in Descriptors, NEW n \in Name, NEW s, Holds(fds, n, s), Fresh(s),
           NEW bytes \in Nat, NEW e, e = EraseLast(s.w, s.fd.fe, bytes),
           NEW t, t = Cut(s, bytes)
    PROVE  /\ Holds(fds, n, t) /\ t.fd.fe = e.fe /\ t.fd.objIdx = s.fd.objIdx
           /\ e.left \in 0 .. bytes
           /\ GetFileLen(t.fd) = GetFileLen(s.fd) - (bytes - e.left)
           /\ bytes <= GetFileLen(s.fd) => e.left = 0
           /\ (s.fd.objIdx = End \/ s.fd.objIdx < t.fd.fe.sctNum) => Fresh(t)
<1> DEFINE d == Now(s.w)
           gds == With(fds, n, s.fd)
           fe == s.fd.fe
           v == s.w
           fd == s.fd
           ok == s.ok
           ge == e.fe
           w == e.w
           x == Now(w)
           hd == [fd EXCEPT !.fe = ge]
           hds == With(fds, n, hd)
<1>1. /\ s = [w |-> v, fd |-> fd, ok |-> ok] /\ ok \in BOOLEAN
      /\ History(v) /\ fd \in FileDesc /\ Started(fd)
      /\ Chains(d, gds) /\ Caches(d, gds, Name \ {n})
  BY DEF Holds
<1>2. t = [s EXCEPT !.w = w, !.fd.fe = ge]
  BY DEF Cut
<1>3. PICK R : R = Recs(d, gds)
  OBVIOUS
<1>4. /\ d \in Disks /\ gds[n] = fd /\ fd # Closed /\ gds[n] # Closed
      /\ R = [p \in DOMAIN R |-> R[p]] /\ Shares(d, R)
      /\ n \in DOMAIN R /\ n # Missing /\ R[n] = fe /\ fe \in Records
      /\ fe \in FileEntry /\ Proper(fe)
  BY <1>3, HoldsOwner
<1>5. Shortened(d, R, n, bytes, R[n].sctNum + 1, e)
  <2>1. d = Now(v) /\ fe = R[n]
    BY <1>4
  <2> HIDE DEF d, fe, v
  <2>2. Shortened(d, R, n, bytes, fe.sctNum + 1, EraseLast(v, fe, bytes))
    BY <1>1, <1>4, <2>1, LastErased
  <2>3. e = EraseLast(v, fe, bytes)
    BY DEF v, fe
  <2> QED
    BY <2>1, <2>2, <2>3
<1>6. /\ History(w) /\ Moved(d, x, R, n, ge) /\ Proper(ge)
      /\ e.left \in 0 .. bytes /\ Bytes(ge) - e.left = Bytes(fe) - bytes
      /\ \A j \in 0 .. ge.sctNum - 1 :
            FindIndex(x, ge.sctBegin, j) = FindIndex(d, fe.sctBegin, j)
  BY <1>4, <1>5 DEF Shortened
<1>7. Bytes(fe) >= bytes => e.left = 0
  <2> DEFINE k == fe.sctNum + 1
  <2>1. /\ Shortened(d, R, n, bytes, k, e) /\ k = fe.sctNum + 1
        /\ fe = R[n] /\ fe \in Records
    BY <1>4, <1>5
  <2> HIDE DEF d, k, fe
  <2>2. AllErased(fe, bytes, e)
    BY <2>1, AfterErasing
  <2> QED
    BY <2>2 DEF AllErased
<1>8. ge \in FileEntry
  BY <1>4, <1>6 DEF Moved, SameRecord
<1> HIDE DEF ge, w, x
<1>9. /\ hd \in FileDesc /\ hd.fe = ge /\ hd.objIdx = fd.objIdx /\ hd.offset = fd.offset
      /\ hd.changed = fd.changed /\ hd.cache = fd.cache
  BY <1>1, <1>8 DEF FileDesc
<1>10. t = [w |-> w, fd |-> hd, ok |-> ok]
  <2> HIDE DEF v, fd, ok, fe
  <2> QED
    BY <1>1, <1>2
<1> HIDE DEF hd
<1>11. Chains(x, hds) /\ Caches(x, hds, Name \ {n})
  <2>1. hds = With(gds, n, hd)
    BY <1>1, Withs
  <2> HIDE DEF gds, hds, d
  <2> QED
    BY <1>1, <1>3, <1>4, <1>6, <1>9, <2>1, FileMoved
<1>12. t.w = w /\ t.fd = hd /\ t.ok = ok /\ t = [w |-> t.w, fd |-> t.fd, ok |-> t.ok]
  BY <1>10
<1>13. Started(hd)
  BY <1>1, <1>9 DEF Started
<1>14. Holds(fds, n, t)
  BY <1>1, <1>6, <1>9, <1>11, <1>12, <1>13 DEF Holds, x
<1>15. GetFileLen(t.fd) = Bytes(ge) /\ GetFileLen(s.fd) = Bytes(fe)
  BY <1>9, <1>12, <1>14, LengthIs
<1>16. GetFileLen(t.fd) \in Nat /\ GetFileLen(s.fd) \in Nat
  BY <1>14, LengthIs
<1>17. (s.fd.objIdx = End \/ s.fd.objIdx < t.fd.fe.sctNum) => Fresh(t)
  <2> SUFFICES ASSUME s.fd.objIdx = End \/ s.fd.objIdx < t.fd.fe.sctNum
               PROVE  CacheOK(x, hd)
    BY <1>12 DEF Fresh, x
  <2> DEFINE i == fd.objIdx
  <2>1. CASE i = End
    <3>1. hd.offset = SECT_SIZE /\ ~hd.changed /\ hd.objIdx = End
      BY <1>1, <1>9, <2>1 DEF Started
    <3> QED
      BY <3>1 DEF CacheOK
  <2>2. CASE i # End
    <3>1. i < ge.sctNum
      BY <1>9, <1>12, <2>2
    <3>2. i \in Nat /\ ge.sctNum \in 0 .. dataSize
      BY <1>1, <1>8, <2>2, Numbers DEF FileDesc, FileEntry
    <3>3. i \in 0 .. ge.sctNum - 1
      BY <3>1, <3>2, Numbers
    <3>4. FindIndex(x, ge.sctBegin, i) = FindIndex(d, fe.sctBegin, i) /\ x.sct = d.sct
      BY <1>6, <3>3 DEF Moved
    <3>5. ~fd.changed => fd.cache = BytesIn(d.sct[FindIndex(d, fe.sctBegin, i)])
      BY <2>2 DEF Fresh, CacheOK
    <3> QED
      BY <1>9, <2>2, <3>1, <3>4, <3>5 DEF CacheOK
  <2> QED
    BY <2>1, <2>2
<1>18. GetFileLen(t.fd) = GetFileLen(s.fd) - (bytes - e.left)
  <2> DEFINE a == GetFileLen(t.fd)
             b == GetFileLen(s.fd)
  <2>1. a - e.left = b - bytes /\ a \in Nat /\ b \in Nat /\ e.left \in Nat
    BY <1>6, <1>15, <1>16
  <2> HIDE DEF a, b
  <2>2. a = b - (bytes - e.left)
    BY <2>1
  <2> QED
    BY <2>2 DEF a, b
<1>19. bytes <= GetFileLen(s.fd) => e.left = 0
  BY <1>7, <1>15, <1>16
<1> QED
  BY <1>6, <1>9, <1>12, <1>14, <1>17, <1>18, <1>19 DEF ge

\* Disciplined callers, for the descriptor fd.
Careful(fd, bytes) ==
    \/ fd.objIdx = End
    \/ GetFileLen(fd) - bytes > 0 /\ (GetFileLen(fd) - bytes) % SECT_SIZE # 0
    \/ GetFileLen(fd) - bytes > GetFilePos(fd)

LEMMA ErasedKeeps ==
    ASSUME NEW fds \in Descriptors, NEW n \in Name, NEW s, Holds(fds, n, s), Fresh(s),
           NEW bytes \in Nat \ {0}, Careful(s.fd, bytes), NEW r, r = Erased(s, bytes)
    PROVE  Holds(fds, n, r) /\ Fresh(r)
<1> DEFINE e == EraseLast(s.w, s.fd.fe, bytes)
           t == Cut(s, bytes)
           len == GetFileLen(s.fd)
           pos == GetFilePos(s.fd)
           to == len - (bytes - e.left)
<1>1. r = IF e.left < bytes /\ pos > to THEN ToLocate(t, to) ELSE t
  BY DEF Erased, Cut
<1>2. /\ Holds(fds, n, t) /\ t.fd.fe = e.fe /\ t.fd.objIdx = s.fd.objIdx
      /\ e.left \in 0 .. bytes /\ GetFileLen(t.fd) = to
      /\ (bytes <= len => e.left = 0)
      /\ (s.fd.objIdx = End \/ s.fd.objIdx < t.fd.fe.sctNum => Fresh(t))
  BY CutKeeps
<1> HIDE DEF e, t
<1>3. len \in Nat /\ pos \in Nat
  BY LengthIs
<1>4. to \in Nat /\ to = Bytes(t.fd.fe)
  BY <1>2, LengthIs
<1>5. /\ Holds(fds, n, ToLocate(t, to))
      /\ (Fresh(t) => Fresh(ToLocate(t, to)))
      /\ (to % SECT_SIZE # 0 => Fresh(ToLocate(t, to)))
  BY <1>2, <1>4, LocateKeeps
<1> DEFINE R == Recs(Now(t.w), With(fds, n, t.fd))
<1>6. /\ t.fd.fe \in FileEntry /\ Linked(Now(t.w), t.fd.fe.sctBegin, t.fd.fe.sctNum)
  BY <1>2, HoldsOwner
<1>7. t.fd.fe.sctNum \in Nat /\ t.fd.fe.lastBytes \in 0 .. SECT_SIZE
      /\ SECT_SIZE \in Nat \ {0}
  BY <1>6, Sizes DEF Linked, FileEntry
<1> HIDE DEF len, pos, to
<1>8. CASE s.fd.objIdx = End
  BY <1>1, <1>2, <1>5, <1>8
<1>9. ASSUME s.fd.objIdx # End, s.fd.objIdx >= t.fd.fe.sctNum
      PROVE  pos >= to /\ (pos = to => to % SECT_SIZE = 0)
  <2> DEFINE i == s.fd.objIdx
             o == s.fd.offset
             m == t.fd.fe.sctNum
  <2>1. i \in Nat /\ o \in Nat
    <3>1. i \in Sector /\ o \in 0 .. SECT_SIZE
      BY <1>9 DEF Holds, FileDesc
    <3>2. i \in Nat
      BY <3>1, Numbers
    <3>3. o \in Nat
      BY <1>7, <3>1
    <3> QED
      BY <3>2, <3>3
  <2>2. pos = SECT_SIZE * i + o
    BY <1>7, <1>9, <2>1 DEF GetFilePos, pos
  <2>3. to <= SECT_SIZE * m
    <3>1. (m - 1) * SECT_SIZE = SECT_SIZE * m - SECT_SIZE
      BY <1>7
    <3>2. SECT_SIZE * m \in Nat
      BY <1>7
    <3> QED
      BY <1>4, <1>7, <3>1, <3>2 DEF Bytes
  <2>4. SECT_SIZE * m <= SECT_SIZE * i
    <3>1. i - m \in Nat
      BY <1>7, <1>9, <2>1
    <3>2. SECT_SIZE * (i - m) \in Nat
      BY <1>7, <3>1
    <3>3. SECT_SIZE * (i - m) = SECT_SIZE * i - SECT_SIZE * m
      BY <1>7, <2>1, Times
    <3>4. SECT_SIZE * i \in Nat /\ SECT_SIZE * m \in Nat
      BY <1>7, <2>1
    <3> QED
      BY <3>2, <3>3, <3>4
  <2>5. SECT_SIZE * i \in Nat /\ SECT_SIZE * m \in Nat
    BY <1>7, <2>1
  <2> DEFINE a == SECT_SIZE * i
  <2>6. pos = a + o /\ to <= a /\ a \in Nat
    BY <1>4, <2>2, <2>3, <2>4, <2>5
  <2>7. a % SECT_SIZE = 0
    <3>1. a = SECT_SIZE * (a \div SECT_SIZE) + (a % SECT_SIZE)
          /\ a \div SECT_SIZE \in Nat /\ a % SECT_SIZE \in 0 .. SECT_SIZE - 1
      BY <2>5, Divided DEF Offset
    <3> DEFINE q == a \div SECT_SIZE
               x == a % SECT_SIZE
    <3>2. SECT_SIZE * i = SECT_SIZE * q + x
      BY <3>1
    <3> HIDE DEF q, x, i
    <3>3. q \in Nat /\ x \in 0 .. SECT_SIZE - 1 /\ i \in Nat
      BY <2>1, <3>1 DEF q, x, i
    <3>4. SECT_SIZE * (i - q) = x
      BY <1>7, <3>2, <3>3, Times
    <3>5. i - q < 1
      <4> SUFFICES ASSUME i - q >= 1 PROVE FALSE
        BY <3>3
      <4>1. i - q - 1 \in Nat
        BY <3>3
      <4>2. SECT_SIZE * (i - q - 1) \in Nat
        BY <1>7, <4>1
      <4>3. SECT_SIZE * (i - q - 1) = SECT_SIZE * (i - q) - SECT_SIZE
        BY <1>7, <3>3
      <4> QED
        BY <1>7, <3>3, <3>4, <4>2, <4>3
    <3>6. i - q > -1
      <4> SUFFICES ASSUME i - q <= -1 PROVE FALSE
        BY <3>3
      <4>1. q - i \in Nat /\ q - i >= 1
        BY <3>3
      <4>2. SECT_SIZE * (q - i) = - x
        BY <1>7, <3>2, <3>3, Times
      <4>3. SECT_SIZE * (q - i) > 0
        BY <1>7, <4>1
      <4> QED
        BY <1>7, <3>3, <4>2, <4>3
    <3>7. i = q
      BY <3>3, <3>5, <3>6
    <3>8. x = 0
      BY <1>7, <3>3, <3>4, <3>7
    <3> QED
      BY <3>8 DEF x
  <2> HIDE DEF a
  <2>8. pos >= to
    BY <1>4, <2>1, <2>6
  <2>9. pos = to => to = a
    BY <1>4, <2>1, <2>6
  <2> QED
    BY <2>7, <2>8, <2>9
<1>10. CASE len - bytes > 0 /\ (len - bytes) % SECT_SIZE # 0
  <2>1. e.left = 0 /\ to = len - bytes
    BY <1>2, <1>3, <1>10 DEF to
  <2>2. to % SECT_SIZE # 0
    BY <1>10, <2>1
  <2>3. CASE pos > to
    BY <1>1, <1>5, <2>1, <2>2, <2>3
  <2>4. CASE ~ (pos > to)
    <3>1. r = t
      BY <1>1, <2>4
    <3>2. s.fd.objIdx = End \/ s.fd.objIdx < t.fd.fe.sctNum
      <4> SUFFICES ASSUME s.fd.objIdx # End, ~ (s.fd.objIdx < t.fd.fe.sctNum) PROVE FALSE
        OBVIOUS
      <4>1. s.fd.objIdx \in Nat
        BY Numbers DEF Holds, FileDesc
      <4>2. s.fd.objIdx >= t.fd.fe.sctNum
        BY <1>7, <4>1
      <4> QED
        BY <1>3, <1>4, <1>9, <2>2, <2>4, <4>2
    <3> QED
      BY <1>2, <3>1, <3>2
  <2> QED
    BY <2>3, <2>4
<1>11. CASE len - bytes > pos
  <2>1. e.left = 0 /\ to = len - bytes
    BY <1>2, <1>3, <1>11 DEF to
  <2>2. r = t
    BY <1>1, <1>3, <1>4, <1>11, <2>1
  <2>3. s.fd.objIdx = End \/ s.fd.objIdx < t.fd.fe.sctNum
    <3> SUFFICES ASSUME s.fd.objIdx # End, ~ (s.fd.objIdx < t.fd.fe.sctNum) PROVE FALSE
      OBVIOUS
    <3>1. s.fd.objIdx \in Nat
      BY Numbers DEF Holds, FileDesc
    <3>2. s.fd.objIdx >= t.fd.fe.sctNum
      BY <1>7, <3>1
    <3> QED
      BY <1>3, <1>4, <1>9, <1>11, <2>1, <3>2
  <2> QED
    BY <1>2, <2>2, <2>3
<1> QED
  BY <1>8, <1>10, <1>11 DEF Careful, len, pos

-----------------------------------------------------------------------------
(* Operations on descriptors *)

LEMMA SessionBegins ==
    ASSUME NEW d, NEW fds, Sound(d, fds), NEW n \in Name, fds[n] # Closed, NEW s,
           s = [w |-> << d >>, fd |-> fds[n], ok |-> TRUE]
    PROVE  fds \in Descriptors /\ Holds(fds, n, s) /\ Fresh(s)
<1>1. Chains(d, fds) /\ Caches(d, fds, Name) /\ fds \in Descriptors
  BY DEF Sound, Chains
<1>2. s.w = << d >> /\ s.fd = fds[n] /\ s.ok = TRUE /\ s = [w |-> s.w, fd |-> s.fd, ok |-> s.ok]
  OBVIOUS
<1>3. History(s.w) /\ Now(s.w) = d
  BY <1>2, Begun
<1>4. s.fd \in FileDesc
  BY <1>1, <1>2 DEF Descriptors
<1>5. With(fds, n, s.fd) = fds
  BY <1>1, <1>2, WithSame
<1>6. CacheOK(d, s.fd)
  BY <1>1, <1>2 DEF Caches
<1>7. Started(s.fd)
  BY <1>6 DEF CacheOK, Started
<1>8. Caches(d, fds, Name \ {n})
  BY <1>1 DEF Caches
<1>9. s.ok \in BOOLEAN
  BY <1>2
<1> QED
  BY <1>1, <1>2, <1>3, <1>4, <1>5, <1>6, <1>7, <1>8, <1>9 DEF Holds, Fresh

LEMMA SessionEnds ==
    ASSUME NEW fds \in Descriptors, NEW n \in Name, NEW s, Holds(fds, n, s), Fresh(s)
    PROVE  Sound(Now(s.w), With(fds, n, s.fd))
<1> DEFINE d == Now(s.w)
           gds == With(fds, n, s.fd)
<1>1. Chains(d, gds) /\ Caches(d, gds, Name \ {n}) /\ CacheOK(d, s.fd) /\ s.fd \in FileDesc
  BY DEF Holds, Fresh
<1>2. gds[n] = s.fd
  BY <1>1, Withs
<1> HIDE DEF d, gds
<1>3. Caches(d, gds, Name)
  BY <1>1, <1>2 DEF Caches
<1> QED
  BY <1>1, <1>3 DEF Sound, d, gds

\* The entry of the file is as the descriptor has it.
Listed(d, n, fd) ==
    FindInRoot(d, n) # Missing /\ (fd # Closed => fd.fe = FindInRoot(d, n) /\ CacheOK(d, fd))

LEMMA Reopened ==
    ASSUME NEW d, NEW fds, Sound(d, fds), NEW n \in Name, NEW hds \in Descriptors,
           \A m \in Name \ {n} : hds[m] = fds[m], Listed(d, n, fds[n]), Listed(d, n, hds[n])
    PROVE  Sound(d, hds)
<1>1. /\ Directory(d) /\ fds \in Descriptors /\ Shares(d, Recs(d, fds))
      /\ \A m \in Name : fds[m] # Closed => Named(d, m, fds[m]) /\ CacheOK(d, fds[m])
      /\ \A o \in DOMAIN Recs(d, fds) : Proper(Recs(d, fds)[o])
  BY DEF Sound, Chains, Caches
<1>2. Recs(d, hds) = Recs(d, fds)
  <2>1. \A m \in Name : FindInRoot(d, m) # Missing =>
            (IF hds[m] # Closed THEN hds[m].fe ELSE FindInRoot(d, m))
              = (IF fds[m] # Closed THEN fds[m].fe ELSE FindInRoot(d, m))
    BY DEF Listed
  <2>2. Missing \notin Name
    BY NameAssumption
  <2> QED
    BY <2>1, <2>2 DEF Recs
<1>3. hds[n] # Closed => Named(d, n, hds[n])
  <2> SUFFICES ASSUME hds[n] # Closed PROVE Named(d, n, hds[n])
    OBVIOUS
  <2>1. hds[n].fe = FindInRoot(d, n) /\ FindInRoot(d, n) # Missing
    BY DEF Listed
  <2>2. PICK k \in 0 .. RootLen(d) - 1 :
            FindInRoot(d, n) = RootEntry(d, k) /\ RootEntry(d, k).name = n
    BY <1>1, <2>1, Entry
  <2> QED
    BY <2>1, <2>2 DEF Named, SamePlace
<1>4. \A m \in Name : hds[m] # Closed => Named(d, m, hds[m]) /\ CacheOK(d, hds[m])
  BY <1>1, <1>3 DEF Listed
<1> QED
  BY <1>1, <1>2, <1>4 DEF Sound, Chains, Caches

\* An open file after one of the functions on its session.
LEMMA SessionSound ==
    ASSUME Sound(disk, opened), ~PowerFails, NEW n \in Open, NEW op, NEW r, Ends(op, n, r),
           Holds(opened, n, r), Fresh(r)
    PROVE  Sound(disk', opened') /\ UNCHANGED failed
<1>1. opened \in Descriptors /\ n \in Name
  BY DEF Sound, Chains, Open
<1>2. Sound(Now(r.w), With(opened, n, r.fd))
  BY <1>1, SessionEnds
<1>3. disk' = Now(r.w) /\ opened' = With(opened, n, r.fd) /\ UNCHANGED failed
  BY DEF Ends, Does, With
<1> QED
  BY <1>2, <1>3

LEMMA DescriptorsSound ==
    ASSUME Sound(disk, opened), ~PowerFails, Disciplined, NEW n \in Open
    PROVE  /\ FFlush(n) => Sound(disk', opened') /\ UNCHANGED failed
           /\ \A l \in Lengths :
                FErase(n, l) \/ FRead(n, l) => Sound(disk', opened') /\ UNCHANGED failed
           /\ \A p \in Positions : FSeek(n, p) => Sound(disk', opened') /\ UNCHANGED failed
           /\ \A data \in Seq(Byte) : FWrite(n, data) => Sound(disk', opened') /\ UNCHANGED failed
<1> DEFINE s == Session(n)
<1>1. n \in Name /\ opened[n] # Closed
  BY DEF Open
<1>2. opened \in Descriptors /\ Holds(opened, n, s) /\ Fresh(s)
  BY <1>1, SessionBegins DEF Session
<1>3. Lengths \subseteq Nat \ {0} /\ Positions \subseteq Nat
  BY OperationAssumption
<1>4. s.fd = opened[n]
  BY DEF Session
<1> HIDE DEF s
<1>5. ASSUME FFlush(n) PROVE Sound(disk', opened') /\ UNCHANGED failed
  <2> DEFINE r == ToFlush(s)
  <2>1. Ends("flush", n, r)
    BY <1>5 DEF FFlush, s
  <2>2. Holds(opened, n, r) /\ Fresh(r)
    BY <1>1, <1>2, FlushKeeps DEF Flushed
  <2> HIDE DEF r
  <2> QED
    BY <2>1, <2>2, SessionSound
<1>6. ASSUME NEW l \in Lengths, FErase(n, l) PROVE Sound(disk', opened') /\ UNCHANGED failed
  <2> DEFINE r == Erased(s, l)
  <2>1. Ends("erase", n, r) /\ Careful(s.fd, l)
    BY <1>4, <1>6 DEF FErase, Careful, s
  <2>2. Holds(opened, n, r) /\ Fresh(r)
    BY <1>1, <1>2, <1>3, <2>1, ErasedKeeps
  <2> HIDE DEF r
  <2> QED
    BY <2>1, <2>2, SessionSound
<1>7. ASSUME NEW l \in Lengths, FRead(n, l) PROVE Sound(disk', opened') /\ UNCHANGED failed
  <2> DEFINE r == ToRead(s, l)
  <2>1. Ends("read", n, r)
    BY <1>7 DEF FRead, s
  <2>2. Holds(opened, n, r) /\ Fresh(r)
    BY <1>1, <1>2, <1>3, ToReadKeeps
  <2> HIDE DEF r
  <2> QED
    BY <2>1, <2>2, SessionSound
<1>8. ASSUME NEW p \in Positions, FSeek(n, p) PROVE Sound(disk', opened') /\ UNCHANGED failed
  <2> DEFINE r == ToLocate(s, p)
  <2>1. Ends("seek", n, r)
    BY <1>8 DEF FSeek, s
  <2>2. Holds(opened, n, r) /\ Fresh(r)
    BY <1>1, <1>2, <1>3, LocateKeeps
  <2> HIDE DEF r
  <2> QED
    BY <2>1, <2>2, SessionSound
<1>9. ASSUME NEW data \in Seq(Byte), FWrite(n, data)
      PROVE  Sound(disk', opened') /\ UNCHANGED failed
  <2> DEFINE r == ToWrite(s, data)
  <2>1. Ends("write", n, r)
    BY <1>9 DEF FWrite, s
  <2>2. Holds(opened, n, r) /\ Fresh(r)
    BY <1>1, <1>2, ToWriteKeeps
  <2> HIDE DEF r
  <2> QED
    BY <2>1, <2>2, SessionSound
<1> QED
  BY <1>5, <1>6, <1>7, <1>8, <1>9

\* A file is closed when its entry was written, and opened with the entry found.
LEMMA CloseSound ==
    ASSUME Sound(disk, opened), ~PowerFails, NEW n \in Open, FClose(n)
    PROVE  Sound(disk', opened') /\ UNCHANGED failed
<1> DEFINE s == Session(n)
           f == ToFlush(s)
           e == Now(f.w)
           gds == With(opened, n, f.fd)
           hds == [opened EXCEPT ![n] = Closed]
<1>1. n \in Name /\ opened[n] # Closed
  BY DEF Open
<1>2. opened \in Descriptors /\ Holds(opened, n, s) /\ Fresh(s)
  BY <1>1, SessionBegins DEF Session
<1>3. disk' = e /\ opened' = hds /\ UNCHANGED failed
  BY DEF FClose, Does
<1> HIDE DEF s
<1>4. Holds(opened, n, f) /\ Fresh(f) /\ FindInRoot(e, n) = f.fd.fe
  BY <1>1, <1>2, FlushKeeps DEF Flushed
<1>5. Sound(e, gds)
  BY <1>1, <1>2, <1>4, SessionEnds
<1>6. f.fd \in FileDesc /\ CacheOK(e, f.fd)
  BY <1>4 DEF Holds, Fresh
<1>7. gds[n] = f.fd /\ gds[n] # Closed /\ \A m \in Name \ {n} : gds[m] = opened[m]
  BY <1>1, <1>2, <1>6, Withs
<1>8. hds \in Descriptors /\ hds[n] = Closed /\ \A m \in Name \ {n} : hds[m] = opened[m]
  BY <1>1, <1>2 DEF Descriptors
<1> HIDE DEF f, e, gds, hds
<1>9. FindInRoot(e, n) # Missing
  BY <1>1, <1>5, <1>7 DEF Sound, Chains, Named
<1>10. Listed(e, n, gds[n]) /\ Listed(e, n, hds[n])
  BY <1>4, <1>6, <1>7, <1>8, <1>9 DEF Listed
<1>11. \A m \in Name \ {n} : hds[m] = gds[m]
  BY <1>7, <1>8
<1>12. Sound(e, hds)
  BY <1>1, <1>5, <1>8, <1>10, <1>11, Reopened
<1> QED
  BY <1>3, <1>12

LEMMA OpenSound ==
    ASSUME Sound(disk, opened), NEW n \in Name, FOpen(n)
    PROVE  Sound(disk', opened') /\ UNCHANGED failed
<1> DEFINE fe == FindInRoot(disk, n)
           fd == [fe |-> fe, objIdx |-> End, offset |-> SECT_SIZE, changed |-> FALSE,
                  cache |-> Blank.byte]
           hds == [opened EXCEPT ![n] = fd]
<1>1. disk' = disk /\ opened' = hds /\ UNCHANGED failed
  BY DEF FOpen
<1>2. opened[n] = Closed /\ fe # Missing /\ opened \in Descriptors /\ Directory(disk)
  BY DEF FOpen, Open, Sound, Chains
<1>3. fe \in FileEntry
  <2>1. PICK k \in 0 .. RootLen(disk) - 1 :
          fe = RootEntry(disk, k) /\ RootEntry(disk, k) \in FileEntry
    BY <1>2, Entry
  <2> QED
    BY <2>1
<1> HIDE DEF fe
<1>4. fd \in FileDesc
  <2>1. Blank.byte \in [Offset -> Byte]
    BY NameAssumption DEF Blank
  <2>2. SECT_SIZE \in 0 .. SECT_SIZE
    BY Sizes
  <2> QED
    BY <1>3, <2>1, <2>2 DEF FileDesc
<1>5. fd.fe = fe /\ fd.objIdx = End /\ fd.offset = SECT_SIZE /\ fd.changed = FALSE
  OBVIOUS
<1> HIDE DEF fd
<1>6. CacheOK(disk, fd)
  BY <1>5 DEF CacheOK
<1>7. hds \in Descriptors /\ hds[n] = fd /\ \A m \in Name \ {n} : hds[m] = opened[m]
  BY <1>2, <1>4 DEF Descriptors
<1> HIDE DEF hds
<1>8. Listed(disk, n, opened[n]) /\ Listed(disk, n, hds[n])
  BY <1>2, <1>5, <1>6, <1>7 DEF Listed, fe
<1>9. Sound(disk, hds)
  BY <1>7, <1>8, Reopened
<1> QED
  BY <1>1, <1>9

-----------------------------------------------------------------------------
(* FRename *)

LEMMA SharesRenamed ==
    ASSUME NEW d, NEW R, Shares(d, R), NEW o \in DOMAIN R, NEW p, p \notin DOMAIN R,
           NEW Q, DOMAIN Q = (DOMAIN R \ {o}) \union {p}, SameChain(R[o], Q[p]),
           \A x \in DOMAIN R \ {o} : SameChain(R[x], Q[x])
    PROVE  Shares(d, Q)
<1> DEFINE old(x) == IF x = p THEN o ELSE x
<1>1. \A x \in DOMAIN Q : old(x) \in DOMAIN R /\ SameChain(R[old(x)], Q[x])
  OBVIOUS
<1>2. \A x, y \in DOMAIN Q : x # y => old(x) # old(y)
  OBVIOUS
<1>3. \A x \in DOMAIN R : \E y \in DOMAIN Q : old(y) = x
  OBVIOUS
<1> HIDE DEF old
<1>4. \A x \in DOMAIN Q : Chain(d, Q[x].sctBegin) = Chain(d, R[old(x)].sctBegin)
  BY <1>1 DEF SameChain
<1>5. \A x \in DOMAIN Q : Linked(d, Q[x].sctBegin, Q[x].sctNum)
  <2> TAKE x \in DOMAIN Q
  <2>1. Linked(d, R[old(x)].sctBegin, R[old(x)].sctNum)
    BY <1>1 DEF Shares
  <2> QED
    BY <1>1, <2>1 DEF SameChain
<1>6. \A x \in DOMAIN Q : Chain(d, Q[x].sctBegin) \intersect Chain(d, d.freeBegin) = {}
  BY <1>1, <1>4 DEF Shares
<1>7. \A x, y \in DOMAIN Q : x # y =>
          Chain(d, Q[x].sctBegin) \intersect Chain(d, Q[y].sctBegin) = {}
  <2> SUFFICES ASSUME NEW x \in DOMAIN Q, NEW y \in DOMAIN Q, x # y
               PROVE  Chain(d, Q[x].sctBegin) \intersect Chain(d, Q[y].sctBegin) = {}
    OBVIOUS
  <2>1. old(x) \in DOMAIN R /\ old(y) \in DOMAIN R /\ old(x) # old(y)
    BY <1>1, <1>2
  <2>2. Chain(d, R[old(x)].sctBegin) \intersect Chain(d, R[old(y)].sctBegin) = {}
    BY <2>1 DEF Shares
  <2> QED
    BY <1>4, <2>2
<1>8. \A s \in Sector :
          s \in Chain(d, d.freeBegin) \/ \E x \in DOMAIN Q : s \in Chain(d, Q[x].sctBegin)
  <2> TAKE s \in Sector
  <2>1. CASE s \notin Chain(d, d.freeBegin)
    <3>1. PICK x \in DOMAIN R : s \in Chain(d, R[x].sctBegin)
      BY <2>1 DEF Shares
    <3>2. PICK y \in DOMAIN Q : old(y) = x
      BY <1>3
    <3> QED
      BY <1>4, <3>1, <3>2
  <2> QED
    BY <2>1
<1>9. Linked(d, d.freeBegin, d.freeNum)
  BY DEF Shares
<1> QED
  BY <1>5, <1>6, <1>7, <1>8, <1>9 DEF Shares

\* The entry with another name, everything else as it is.
NamedAs(fe, name) == [fe EXCEPT !.name = name]

LEMMA NamedAsIs ==
    ASSUME NEW fe \in FileEntry, NEW name \in Name, NEW ge, ge = NamedAs(fe, name)
    PROVE  /\ ge \in FileEntry /\ ge.name = name /\ SameChain(fe, ge) /\ SamePlace(ge, fe)
           /\ ge.lastBytes = fe.lastBytes
  BY DEF NamedAs, FileEntry, SameChain, SamePlace

LEMMA RenameSound ==
    ASSUME Sound(disk, opened), ~PowerFails, NEW old \in Name, NEW new \in Name,
           FRename(old, new)
    PROVE  /\ Sound(disk', opened') /\ UNCHANGED << opened, failed >>
           /\ FindInRoot(disk, old) \in FileEntry /\ OnlyRoot(disk, disk')
           /\ Renamed(disk, disk', old, new, NamedAs(FindInRoot(disk, old), new))
<1> DEFINE d == disk
           fds == opened
           fe == NamedAs(FindInRoot(d, old), new)
           e == WithEntry(d, fe.inSctIdx, fe.inSctOff, fe)
           R == Recs(d, fds)
           Q == Recs(e, fds)
<1>1. /\ FindInRoot(d, old) # Missing /\ FindInRoot(d, new) = Missing /\ fds[old] = Closed
      /\ old # new
  BY DEF FRename, Open
<1>2. disk' = e /\ opened' = fds /\ UNCHANGED failed
  <2> DEFINE w == FlushFileEntry(<< d >>, fe)
  <2>1. Does("rename", {old, new}, w, fds)
    BY DEF FRename, NamedAs
  <2>2. w = Write(<< d >>, e)
    BY Begun DEF FlushFileEntry
  <2> HIDE DEF w, e, fe
  <2>3. Now(w) = e
    BY <2>2, Begun, Written
  <2> QED
    BY <2>1, <2>3 DEF Does
<1>3. Chains(d, fds) /\ Caches(d, fds, Name) /\ Directory(d) /\ fds \in Descriptors
  BY DEF Sound, Chains
<1>4. FindInRoot(d, old) \in FileEntry
  <2>1. PICK k \in 0 .. RootLen(d) - 1 :
          FindInRoot(d, old) = RootEntry(d, k) /\ RootEntry(d, k) \in FileEntry
    BY <1>1, <1>3, Entry
  <2> QED
    BY <2>1
<1>5. /\ fe \in FileEntry /\ fe.name = new /\ SameChain(FindInRoot(d, old), fe)
      /\ SamePlace(fe, FindInRoot(d, old)) /\ fe.lastBytes = FindInRoot(d, old).lastBytes
  BY <1>4, NamedAsIs
<1> HIDE DEF fe
<1>6. OnlyRoot(d, e) /\ Renamed(d, e, old, new, fe)
  BY <1>1, <1>3, <1>5, EntryWritten
<1> HIDE DEF e
<1>7. /\ Directory(e) /\ FindInRoot(e, new) = fe /\ FindInRoot(e, old) = Missing
      /\ \A x : x # old /\ x # new => FindInRoot(e, x) = FindInRoot(d, x)
  BY <1>1, <1>6 DEF Renamed
<1>8. fe # Missing /\ Missing \notin Name
  BY <1>5, NameAssumption
<1>9. \A m \in Name : fds[m] # Closed => m # old /\ m # new /\ Named(d, m, fds[m])
  BY <1>1, <1>3 DEF Chains, Named
<1>10. Owners(d, fds, R)
  BY <1>3, RecsAre
<1>11. DOMAIN Q = (DOMAIN R \ {old}) \union {new} /\ old \in DOMAIN R /\ new \notin DOMAIN R
  BY <1>1, <1>7, <1>8 DEF Recs
<1>12. Q[new] = fe /\ R[old] = FindInRoot(d, old)
  BY <1>1, <1>7, <1>8, <1>9 DEF Recs
<1>13. \A x \in DOMAIN R \ {old} : Q[x] = R[x]
  <2>1. e.root = d.root
    BY <1>6 DEF OnlyRoot
  <2> QED
    BY <1>7, <1>11, <2>1 DEF Recs
<1> HIDE DEF R, Q
<1>14. Shares(d, R) /\ \A o \in DOMAIN R : Proper(R[o])
  BY <1>10 DEF Owners
<1>15. Shares(d, Q)
  <2>1. \A x \in DOMAIN R \ {old} : SameChain(R[x], Q[x])
    BY <1>13 DEF SameChain
  <2>2. SameChain(R[old], Q[new])
    BY <1>5, <1>12
  <2> QED
    BY <1>11, <1>14, <2>1, <2>2, SharesRenamed
<1>16. Shares(e, Q)
  BY <1>6, <1>15, SharesByMap DEF OnlyRoot
<1>17. \A o \in DOMAIN Q : Proper(Q[o])
  <2>1. Proper(fe)
    <3>1. Proper(FindInRoot(d, old))
      BY <1>11, <1>12, <1>14
    <3> QED
      BY <1>5, <3>1 DEF Proper, SameChain
  <2> QED
    BY <1>11, <1>12, <1>13, <1>14, <2>1
<1>18. Chains(e, fds)
  <2>1. \A m \in Name : fds[m] # Closed => Named(e, m, fds[m])
    BY <1>7, <1>9 DEF Named
  <2> QED
    BY <1>3, <1>7, <1>16, <1>17, <2>1 DEF Chains, Q
<1>19. Caches(e, fds, Name)
  <2> SUFFICES ASSUME NEW m \in Name, fds[m] # Closed PROVE CacheOK(e, fds[m])
    BY DEF Caches
  <2>1. CacheOK(d, fds[m])
    BY <1>3 DEF Caches
  <2> QED
    BY <1>3, <1>6, <2>1, CacheApart
<1> QED
  BY <1>2, <1>4, <1>6, <1>18, <1>19 DEF Sound, fe

-----------------------------------------------------------------------------
(* FCreate and FDelete: a longer and a shorter directory *)

\* The sectors of a record, and what is in them.
Same(d, x, fe) ==
    \A i \in 0 .. fe.sctNum - 1 :
        /\ FindIndex(x, fe.sctBegin, i) = FindIndex(d, fe.sctBegin, i)
        /\ x.sct[FindIndex(d, fe.sctBegin, i)] = d.sct[FindIndex(d, fe.sctBegin, i)]

\* The file that had the record fe has ge now, and is the same.
Remains(d, x, fe, ge) ==
    /\ fe = Missing => ge = Missing
    /\ fe # Missing => /\ ge # Missing /\ SameChain(fe, ge) /\ ge.lastBytes = fe.lastBytes
                       /\ Same(d, x, fe)

LEMMA NotListed ==
    ASSUME NEW d, Directory(d), NEW x, \A k \in 0 .. RootLen(d) - 1 : RootEntry(d, k).name # x
    PROVE  FindInRoot(d, x) = Missing
  BY LookupFails

LEMMA NotFound ==
    ASSUME NEW d, Directory(d), NEW x, FindInRoot(d, x) = Missing
    PROVE  \A k \in 0 .. RootLen(d) - 1 : RootEntry(d, k).name # x
<1> SUFFICES ASSUME NEW k \in 0 .. RootLen(d) - 1, RootEntry(d, k).name = x PROVE FALSE
  OBVIOUS
<1>1. RootEntry(d, k) = Missing
  BY Lookup
<1>2. RootEntry(d, k) \in FileEntry
  BY DEF Directory, InPlace
<1> QED
  BY <1>1, <1>2, NameAssumption

\* Two disks have the same sectors in the first n places of the directory.
Alike(d, y, n) ==
    /\ y.sct = d.sct
    /\ \A i \in 0 .. n - 1 : FindIndex(y, y.root.sctBegin, i) = FindIndex(d, d.root.sctBegin, i)

LEMMA AlikeEntries ==
    ASSUME NEW d, NEW y, NEW n, Alike(d, y, n), NEW k, k \div FE_ITEM_CNT \in 0 .. n - 1
    PROVE  RootEntry(y, k) = RootEntry(d, k) /\ \A s, i : At(y, k, s, i) <=> At(d, k, s, i)
<1>1. FindIndex(y, y.root.sctBegin, k \div FE_ITEM_CNT)
         = FindIndex(d, d.root.sctBegin, k \div FE_ITEM_CNT)
  BY DEF Alike
<1>2. y.sct = d.sct
  BY DEF Alike
<1>3. RootEntry(y, k) = RootEntry(d, k)
  BY <1>1, <1>2 DEF RootEntry, EntryAt
<1> QED
  BY <1>1, <1>3 DEF At

\* What is found when the entry fe was put behind the others.
Added(d, e, fe) ==
    /\ Directory(e) /\ FindInRoot(e, fe.name) = fe
    /\ \A x : x # fe.name => FindInRoot(e, x) = FindInRoot(d, x)

LEMMA EntryAdded ==
    ASSUME NEW d, Directory(d), NEW y \in Disks, RootProper(y), Alike(d, y, d.root.sctNum),
           NEW m, m = RootLen(d), RootLen(y) = m + 1, NEW s \in Sector, NEW i \in Slot,
           At(y, m, s, i), NEW fe \in FileEntry, fe.inSctIdx = s, fe.inSctOff = i,
           FindInRoot(d, fe.name) = Missing, NEW e, e = WithEntry(y, s, i, fe)
    PROVE  Added(d, e, fe)
<1>1. d \in Disks /\ RootProper(d) /\ NamedOnce(d) /\ \A k \in 0 .. m - 1 : InPlace(d, k)
  BY DEF Directory
<1>2. /\ e \in Disks /\ e.freeBegin = y.freeBegin /\ e.freeNum = y.freeNum
      /\ e.root = y.root /\ e.map = y.map
      /\ \A k \in Nat : RootEntry(e, k) = IF At(y, k, s, i) THEN fe ELSE RootEntry(y, k)
  BY EntryPut
<1>3. m \in Nat /\ \A k \in 0 .. m - 1 : k \in Nat /\ k \div FE_ITEM_CNT \in 0 .. d.root.sctNum - 1
  BY <1>1, RootSize
<1>4. \A k \in 0 .. m : k \in Nat /\ k \div FE_ITEM_CNT \in 0 .. y.root.sctNum - 1
  BY <1>3, RootSize
<1>5. RootLen(e) = m + 1
  BY <1>2 DEF RootLen
<1>6. RootEntry(e, m) = fe
  BY <1>2, <1>3
<1>7. ASSUME NEW k \in 0 .. m - 1
      PROVE  RootEntry(e, k) = RootEntry(d, k)
  <2>1. RootEntry(y, k) = RootEntry(d, k)
    BY <1>3, AlikeEntries
  <2>2. ~ At(y, k, s, i)
    <3> SUFFICES ASSUME At(y, k, s, i) PROVE FALSE
      OBVIOUS
    <3>1. k \in 0 .. RootLen(y) - 1 /\ m \in 0 .. RootLen(y) - 1
      BY <1>3
    <3>2. k = m
      BY <3>1, OnePlace
    <3> QED
      BY <1>3, <3>2
  <2> QED
    BY <1>2, <1>3, <2>1, <2>2
<1>8. \A k \in Nat : \A t, o : At(e, k, t, o) <=> At(y, k, t, o)
  <2> TAKE k \in Nat
  <2> TAKE t, o
  <2>1. k \div FE_ITEM_CNT \in Nat
    BY Places
  <2>2. FindIndex(e, y.root.sctBegin, k \div FE_ITEM_CNT)
          = FindIndex(y, y.root.sctBegin, k \div FE_ITEM_CNT)
    BY <1>2, <2>1, IndexByMap
  <2> QED
    BY <1>2, <2>2 DEF At
<1>9. RootProper(e)
  <2>1. Linked(e, y.root.sctBegin, y.root.sctNum)
    BY <1>2, ChainByMap DEF RootProper
  <2> QED
    BY <1>2, <2>1 DEF RootProper
<1>10. ASSUME NEW k \in 0 .. m PROVE InPlace(e, k)
  <2>1. CASE k = m
    BY <1>3, <1>6, <1>8, <2>1 DEF InPlace
  <2>2. CASE k # m
    <3>1. k \in 0 .. m - 1
      BY <1>3, <2>2
    <3>2. InPlace(d, k) /\ RootEntry(e, k) = RootEntry(d, k) /\ k \in Nat
      BY <1>1, <1>3, <1>7, <3>1
    <3>3. \A t, o : At(y, k, t, o) <=> At(d, k, t, o)
      BY <1>3, <3>1, AlikeEntries
    <3> QED
      BY <1>8, <3>2, <3>3 DEF InPlace
  <2> QED
    BY <2>1, <2>2
<1>11. \A k \in 0 .. m - 1 : RootEntry(d, k).name # fe.name
  BY NotFound
<1>12. NamedOnce(e)
  <2> SUFFICES ASSUME NEW j \in 0 .. m, NEW k \in 0 .. m,
                      RootEntry(e, j).name = RootEntry(e, k).name
               PROVE  j = k
    BY <1>5, <1>3 DEF NamedOnce
  <2>1. j = m \/ j \in 0 .. m - 1
    BY <1>3
  <2>2. k = m \/ k \in 0 .. m - 1
    BY <1>3
  <2>3. CASE j = m /\ k \in 0 .. m - 1
    BY <1>6, <1>7, <1>11, <2>3
  <2>4. CASE k = m /\ j \in 0 .. m - 1
    BY <1>6, <1>7, <1>11, <2>4
  <2>5. CASE j \in 0 .. m - 1 /\ k \in 0 .. m - 1
    BY <1>1, <1>7, <2>5 DEF NamedOnce
  <2> QED
    BY <2>1, <2>2, <2>3, <2>4, <2>5
<1>13. Directory(e)
  <2>1. \A k \in 0 .. RootLen(e) - 1 : InPlace(e, k)
    BY <1>3, <1>5, <1>10
  <2> QED
    BY <1>2, <1>9, <1>12, <2>1 DEF Directory
<1>14. FindInRoot(e, fe.name) = fe
  <2>1. m \in 0 .. RootLen(e) - 1
    BY <1>3, <1>5
  <2> QED
    BY <1>6, <1>13, <2>1, Lookup
<1>15. ASSUME NEW x, x # fe.name PROVE FindInRoot(e, x) = FindInRoot(d, x)
  <2>1. CASE FindInRoot(d, x) # Missing
    <3>1. PICK k \in 0 .. m - 1 : FindInRoot(d, x) = RootEntry(d, k) /\ RootEntry(d, k).name = x
      BY <2>1, Entry
    <3>2. k \in 0 .. RootLen(e) - 1
      BY <1>3, <1>5
    <3>3. RootEntry(e, k) = RootEntry(d, k)
      BY <1>7
    <3> QED
      BY <1>13, <3>1, <3>2, <3>3, Lookup
  <2>2. CASE FindInRoot(d, x) = Missing
    <3>1. ASSUME NEW k \in 0 .. RootLen(e) - 1 PROVE RootEntry(e, k).name # x
      <4>1. CASE k = m
        BY <1>6, <1>15, <4>1
      <4>2. CASE k # m
        <5>1. k \in 0 .. m - 1
          BY <1>3, <1>5, <4>2
        <5>2. RootEntry(d, k).name # x
          BY <2>2, <5>1, NotFound
        <5> QED
          BY <1>7, <5>1, <5>2
      <4> QED
        BY <4>1, <4>2
    <3> QED
      BY <1>13, <2>2, <3>1, NotListed
  <2> QED
    BY <2>1, <2>2
<1> QED
  BY <1>13, <1>14, <1>15 DEF Added

\* There is room for an entry behind the others: ge is the record of the directory.
Roomy(d, R, v, ge, off) ==
    /\ History(v) /\ Moved(d, Now(v), R, Missing, ge)
    /\ ge \in Chained /\ ge.sctNum > 0 /\ off \in Slot /\ ge.lastBytes = FE_BYTES * off
    /\ RootLen(d) = FE_ITEM_CNT * (ge.sctNum - 1) + off
    /\ \A i \in 0 .. d.root.sctNum - 1 :
          FindIndex(Now(v), ge.sctBegin, i) = FindIndex(d, d.root.sctBegin, i)

LEMMA RoomMade ==
    ASSUME NEW d, NEW fds, Chains(d, fds), NEW R, R = Recs(d, fds),
           d.root.lastBytes # SECT_SIZE \/ d.freeBegin # End,
           NEW c, c = CheckStorage(<< d >>, d.root), NEW off, off = c[2].lastBytes \div FE_BYTES
    PROVE  Roomy(d, R, c[1], c[2], off)
<1> DEFINE fe == d.root
           l == fe.lastBytes \div FE_BYTES
<1>1. /\ d \in Disks /\ RootProper(d)
      /\ Linked(d, fe.sctBegin, fe.sctNum)
      /\ Proper(fe) /\ fe.lastBytes > 0 /\ fe.lastBytes = FE_BYTES * l
  BY DEF Chains, Directory, RootProper
<1>2. Owners(d, fds, R)
  BY RecsAre
<1>3. /\ R = [p \in DOMAIN R |-> R[p]] /\ Shares(d, R) /\ Missing \in DOMAIN R
      /\ R[Missing] = fe /\ fe \in Records /\ fe \in Chained
  BY <1>1, <1>2, DiskFields DEF Owners
<1>4. fe.sctNum \in Nat /\ l \in 1 .. FE_ITEM_CNT /\ RootLen(d) = FE_ITEM_CNT * (fe.sctNum - 1) + l
  BY <1>1, RootSize
<1>5. /\ FE_ITEM_CNT \in Nat \ {0} /\ SECT_SIZE = FE_BYTES * FE_ITEM_CNT
      /\ SECT_SIZE \in Nat \ {0} /\ FE_BYTES \in Nat \ {0}
  BY Sizes
<1>6. History(<< d >>) /\ Now(<< d >>) = d
  BY Begun
<1> DEFINE w == << d >>
<1> HIDE DEF w
<1>7. CASE fe.lastBytes # SECT_SIZE
  <2>1. c[1] = w /\ c[2] = fe
    BY <1>7 DEF CheckStorage, w
  <2>2. fe.sctNum > 0
    BY <1>1, <1>4, <1>7 DEF Proper
  <2>3. off = l
    BY <2>1
  <2>4. l # FE_ITEM_CNT
    BY <1>1, <1>5, <1>7
  <2>5. l \in Slot
    BY <1>4, <1>5, <2>4 DEF Slot
  <2>6. Moved(d, d, R, Missing, fe)
    BY <1>1, <1>3, NotMoved
  <2>7. History(w) /\ Now(w) = d
    BY <1>6 DEF w
  <2> QED
    BY <1>1, <1>3, <1>4, <2>1, <2>2, <2>3, <2>5, <2>6, <2>7 DEF Roomy
<1>8. CASE fe.lastBytes = SECT_SIZE
  <2> DEFINE ge == c[2]
             v == c[1]
             x == Now(v)
  <2>1. /\ History(v) /\ Moved(d, x, R, Missing, ge) /\ Grown(d, x, fe, ge)
        /\ \A i \in 0 .. fe.sctNum - 1 :
              FindIndex(x, ge.sctBegin, i) = FindIndex(d, fe.sctBegin, i)
    <3>1. /\ History(w) /\ d = Now(w) /\ fe = R[Missing]
          /\ c = CheckStorage(w, fe) /\ d.freeBegin # End
      BY <1>3, <1>6, <1>8 DEF w
    <3> HIDE DEF fe
    <3> QED
      BY <1>1, <1>3, <1>8, <3>1, StorageGrows
  <2>2. ge.sctNum = fe.sctNum + 1 /\ ge.lastBytes = 0
    BY <2>1 DEF Grown
  <2>3. off = 0
    <3>1. 0 \div FE_BYTES = 0
      BY <1>5
    <3> QED
      BY <2>2, <3>1
  <2>4. l = FE_ITEM_CNT
    <3>1. l \in Nat
      BY <1>4
    <3>2. FE_BYTES * (l - FE_ITEM_CNT) = 0
      BY <1>1, <1>5, <1>8, <3>1, Times
    <3>3. l - FE_ITEM_CNT = 0
      BY <1>5, <3>1, <3>2
    <3> QED
      BY <1>5, <3>1, <3>3
  <2>5. RootLen(d) = FE_ITEM_CNT * (ge.sctNum - 1) + off
    <3>1. FE_ITEM_CNT * (fe.sctNum - 1) + FE_ITEM_CNT = FE_ITEM_CNT * fe.sctNum
      BY <1>4, <1>5
    <3>2. ge.sctNum - 1 = fe.sctNum
      BY <1>4, <2>2
    <3>3. RootLen(d) = FE_ITEM_CNT * fe.sctNum
      BY <1>4, <2>4, <3>1
    <3>4. FE_ITEM_CNT * fe.sctNum \in Nat
      BY <1>4, <1>5
    <3> QED
      BY <2>3, <3>2, <3>3, <3>4
  <2>6. ge \in Chained
    BY <1>3, <2>1 DEF Moved, SameRecord
  <2>7. off \in Slot /\ ge.lastBytes = FE_BYTES * off
    BY <1>5, <2>2, <2>3 DEF Slot
  <2>8. ge.sctNum > 0
    BY <1>4, <2>2
  <2> QED
    BY <2>1, <2>5, <2>6, <2>7, <2>8 DEF Roomy
<1> QED
  BY <1>7, <1>8

\* The directory's record when an entry was put behind the others.
OneMore(ge) == [ge EXCEPT !.lastBytes = @ + FE_BYTES]

\* The disk x of Roomy with that record in its header.
WithRoot(x, he) == [x EXCEPT !.root = he]

LEMMA WithRootIs ==
    ASSUME NEW x \in Disks, NEW he \in Chained, NEW y, y = WithRoot(x, he)
    PROVE  /\ y \in Disks /\ y.root = he /\ y.map = x.map /\ y.sct = x.sct
           /\ y.freeBegin = x.freeBegin /\ y.freeNum = x.freeNum
           /\ \A s, i, fe : WithRoot(WithEntry(x, s, i, fe), he) = WithEntry(y, s, i, fe)
<1>2. x = [freeBegin |-> x.freeBegin, freeNum |-> x.freeNum, root |-> x.root, map |-> x.map,
           sct |-> x.sct]
  BY DEF Disks, DiskState
<1>3. y = [freeBegin |-> x.freeBegin, freeNum |-> x.freeNum, root |-> he, map |-> x.map,
           sct |-> x.sct]
  BY <1>2 DEF WithRoot
<1>4. /\ y \in Disks /\ y.root = he /\ y.map = x.map /\ y.sct = x.sct
      /\ y.freeBegin = x.freeBegin /\ y.freeNum = x.freeNum
  BY <1>3, DiskFields DEF Disks, DiskState
<1>5. ASSUME NEW s, NEW i, NEW fe
      PROVE  WithRoot(WithEntry(x, s, i, fe), he) = WithEntry(y, s, i, fe)
  <2> DEFINE a == x.freeBegin
             b == x.freeNum
             r == x.root
             m == x.map
             t == x.sct
             u == [entry |-> [j \in Slot |-> IF j = i THEN fe ELSE EntriesIn(t[s])[j]]]
  <2>1. WithEntry(x, s, i, fe) = [x EXCEPT !.sct[s] = u]
    BY DEF WithEntry
  <2>2. WithEntry(y, s, i, fe) = [y EXCEPT !.sct[s] = u]
    BY <1>4 DEF WithEntry
  <2>3. x = [freeBegin |-> a, freeNum |-> b, root |-> r, map |-> m, sct |-> t]
    BY <1>2
  <2>4. y = [freeBegin |-> a, freeNum |-> b, root |-> he, map |-> m, sct |-> t]
    BY <1>3
  <2> HIDE DEF a, b, r, m, t, u
  <2>5. WithEntry(x, s, i, fe)
          = [freeBegin |-> a, freeNum |-> b, root |-> r, map |-> m, sct |-> [t EXCEPT ![s] = u]]
    BY <2>1, <2>3
  <2>6. WithEntry(y, s, i, fe)
          = [freeBegin |-> a, freeNum |-> b, root |-> he, map |-> m, sct |-> [t EXCEPT ![s] = u]]
    BY <2>2, <2>4
  <2> QED
    BY <2>5, <2>6 DEF WithRoot
<1> QED
  BY <1>4, <1>5

\* An owner of no sectors comes or goes.
LEMMA SharesWithEmpty ==
    ASSUME NEW d, NEW R, Shares(d, R), NEW p, p \notin DOMAIN R,
           NEW S, DOMAIN S = DOMAIN R \union {p}, S[p].sctBegin = End, S[p].sctNum = 0,
           \A x \in DOMAIN R : SameChain(R[x], S[x])
    PROVE  Shares(d, S)
<1>1. Linked(d, End, 0)
  <2>1. FindIndex(d, End, 0) = End
    BY IndexZero
  <2> QED
    BY <2>1 DEF Linked
<1>2. Chain(d, S[p].sctBegin) = {}
  <2>1. Chain(d, End) = {FindIndex(d, End, i) : i \in 0 .. 0 - 1}
    BY <1>1, ChainLength
  <2> QED
    BY <2>1
<1>3. \A x \in DOMAIN R : S[x].sctBegin = R[x].sctBegin /\ S[x].sctNum = R[x].sctNum
  BY DEF SameChain
<1>4. \A x \in DOMAIN S : x = p \/ x \in DOMAIN R
  OBVIOUS
<1>5. \A x \in DOMAIN S : Linked(d, S[x].sctBegin, S[x].sctNum)
  BY <1>1, <1>3, <1>4 DEF Shares
<1>6. \A x \in DOMAIN S : Chain(d, S[x].sctBegin) \intersect Chain(d, d.freeBegin) = {}
  BY <1>2, <1>3, <1>4 DEF Shares
<1>7. ASSUME NEW x \in DOMAIN S, NEW y \in DOMAIN S, x # y
      PROVE  Chain(d, S[x].sctBegin) \intersect Chain(d, S[y].sctBegin) = {}
  <2>1. CASE x = p \/ y = p
    BY <1>2, <2>1
  <2>2. CASE x # p /\ y # p
    <3>1. x \in DOMAIN R /\ y \in DOMAIN R
      BY <1>4, <2>2
    <3>2. Chain(d, R[x].sctBegin) \intersect Chain(d, R[y].sctBegin) = {}
      BY <1>7, <3>1 DEF Shares
    <3> QED
      BY <1>3, <3>1, <3>2
  <2> QED
    BY <2>1, <2>2
<1>8. \A s \in Sector :
          s \in Chain(d, d.freeBegin) \/ \E x \in DOMAIN S : s \in Chain(d, S[x].sctBegin)
  <2> TAKE s \in Sector
  <2>1. CASE s \notin Chain(d, d.freeBegin)
    <3>1. PICK x \in DOMAIN R : s \in Chain(d, R[x].sctBegin)
      BY <2>1 DEF Shares
    <3> QED
      BY <1>3, <3>1
  <2> QED
    BY <2>1
<1>9. Linked(d, d.freeBegin, d.freeNum)
  BY DEF Shares
<1> QED
  BY <1>5, <1>6, <1>7, <1>8, <1>9 DEF Shares

LEMMA SharesWithout ==
    ASSUME NEW d, NEW R, Shares(d, R), NEW p \in DOMAIN R, R[p].sctNum = 0,
           NEW S, DOMAIN S = DOMAIN R \ {p}, \A x \in DOMAIN S : SameChain(R[x], S[x])
    PROVE  Shares(d, S)
<1>1. Chain(d, R[p].sctBegin) = {}
  <2>1. Linked(d, R[p].sctBegin, 0)
    BY DEF Shares
  <2>2. Chain(d, R[p].sctBegin) = {FindIndex(d, R[p].sctBegin, i) : i \in 0 .. 0 - 1}
    BY <2>1, ChainLength
  <2> QED
    BY <2>2
<1>2. \A x \in DOMAIN S : /\ x \in DOMAIN R
                          /\ S[x].sctBegin = R[x].sctBegin /\ S[x].sctNum = R[x].sctNum
  BY DEF SameChain
<1>3. \A x \in DOMAIN S : Linked(d, S[x].sctBegin, S[x].sctNum)
  BY <1>2 DEF Shares
<1>4. \A x \in DOMAIN S : Chain(d, S[x].sctBegin) \intersect Chain(d, d.freeBegin) = {}
  BY <1>2 DEF Shares
<1>5. ASSUME NEW x \in DOMAIN S, NEW y \in DOMAIN S, x # y
      PROVE  Chain(d, S[x].sctBegin) \intersect Chain(d, S[y].sctBegin) = {}
  <2>1. Chain(d, R[x].sctBegin) \intersect Chain(d, R[y].sctBegin) = {}
    BY <1>2, <1>5 DEF Shares
  <2> QED
    BY <1>2, <2>1
<1>6. \A s \in Sector :
          s \in Chain(d, d.freeBegin) \/ \E x \in DOMAIN S : s \in Chain(d, S[x].sctBegin)
  <2> TAKE s \in Sector
  <2>1. CASE s \notin Chain(d, d.freeBegin)
    <3>1. PICK x \in DOMAIN R : s \in Chain(d, R[x].sctBegin)
      BY <2>1 DEF Shares
    <3>2. x # p
      BY <1>1, <3>1
    <3> QED
      BY <1>2, <3>1, <3>2
  <2> QED
    BY <2>1
<1>7. Linked(d, d.freeBegin, d.freeNum)
  BY DEF Shares
<1> QED
  BY <1>3, <1>4, <1>5, <1>6, <1>7 DEF Shares

\* The directory's header and the entry, on a disk with room for it.
LEMMA RootExtended ==
    ASSUME NEW d, Directory(d), NEW R, Missing \in DOMAIN R, R[Missing] = d.root, NEW v,
           NEW ge, NEW off, Roomy(d, R, v, ge, off), R = [p \in DOMAIN R |-> R[p]],
           NEW name \in Name, FindInRoot(d, name) = Missing,
           NEW s, s = FindLast(Now(v), ge.sctBegin),
           NEW fe, fe = NewEntry(name, s, off), NEW y, y = WithRoot(Now(v), OneMore(ge)),
           NEW e, e = WithEntry(y, s, off, fe)
    PROVE  /\ s = FindIndex(Now(v), ge.sctBegin, ge.sctNum - 1) /\ s \in Sector
           /\ Linked(Now(v), ge.sctBegin, ge.sctNum)
           /\ Added(d, e, fe) /\ fe \in FileEntry /\ fe.name = name
           /\ e.root = OneMore(ge) /\ SameChain(ge, e.root)
           /\ e.map = Now(v).map /\ e.freeBegin = Now(v).freeBegin /\ e.freeNum = Now(v).freeNum
           /\ \A t \in Sector \ {s} : e.sct[t] = d.sct[t]
           /\ WithRoot(WithEntry(Now(v), s, off, fe), OneMore(ge)) = e
<1> DEFINE x == Now(v)
           he == OneMore(ge)
           n == ge.sctNum
           m == RootLen(d)
<1>1. /\ Moved(d, x, R, Missing, ge) /\ ge \in Chained /\ n > 0 /\ off \in Slot
      /\ ge.lastBytes = FE_BYTES * off /\ m = FE_ITEM_CNT * (n - 1) + off
      /\ \A i \in 0 .. d.root.sctNum - 1 :
            FindIndex(x, ge.sctBegin, i) = FindIndex(d, d.root.sctBegin, i)
  BY DEF Roomy
<1>2. /\ FE_ITEM_CNT \in Nat \ {0} /\ SECT_SIZE = FE_BYTES * FE_ITEM_CNT
      /\ SECT_SIZE \in Nat \ {0} /\ FE_BYTES \in Nat \ {0}
  BY Sizes
<1>3. Linked(x, ge.sctBegin, n) /\ x \in Disks /\ x.sct = d.sct
  <2>1. Shares(x, [R EXCEPT ![Missing] = ge]) /\ x \in Disks /\ x.sct = d.sct
    BY <1>1 DEF Moved
  <2> DEFINE Q == [R EXCEPT ![Missing] = ge]
  <2>2. Missing \in DOMAIN Q /\ Q[Missing] = ge
    OBVIOUS
  <2> HIDE DEF Q, x
  <2>3. Linked(x, Q[Missing].sctBegin, Q[Missing].sctNum)
    BY <2>1, <2>2 DEF Shares, Q
  <2> QED
    BY <2>1, <2>2, <2>3
<1>4. n \in Nat /\ n - 1 \in Nat
  BY <1>1, <1>3 DEF Linked
<1>5. s = FindIndex(x, ge.sctBegin, n - 1) /\ s \in Sector
  <2>1. FindLast(x, ge.sctBegin) = FindIndex(x, ge.sctBegin, n - 1)
    BY <1>1, <1>3, LastOf
  <2>2. n - 1 \in 0 .. n - 1
    BY <1>4
  <2> QED
    BY <1>3, <2>1, <2>2 DEF Linked
<1>6. off + 1 \in Nat /\ FE_BYTES * (off + 1) = FE_BYTES * off + FE_BYTES
      /\ FE_BYTES * (off + 1) \in 0 .. SECT_SIZE /\ FE_BYTES * (off + 1) > 0
  <2>1. off \in Nat /\ off + 1 \in 1 .. FE_ITEM_CNT
    BY <1>1, <1>2 DEF Slot
  <2>2. FE_BYTES * (off + 1) = FE_BYTES * off + FE_BYTES /\ FE_BYTES * off \in Nat
    BY <1>2, <2>1
  <2>3. FE_ITEM_CNT - (off + 1) \in Nat
    BY <1>2, <2>1
  <2>4. FE_BYTES * (FE_ITEM_CNT - (off + 1)) \in Nat
    BY <1>2, <2>3
  <2>5. FE_BYTES * (FE_ITEM_CNT - (off + 1)) = FE_BYTES * FE_ITEM_CNT - FE_BYTES * (off + 1)
    BY <1>2, <2>1, Times
  <2> QED
    BY <1>2, <2>1, <2>2, <2>4, <2>5
<1>7. /\ he \in Chained /\ he.sctBegin = ge.sctBegin /\ he.sctNum = n
      /\ he.lastBytes = FE_BYTES * (off + 1)
  BY <1>1, <1>6 DEF OneMore, Chained
<1>8. /\ y \in Disks /\ y.root = he /\ y.map = x.map /\ y.sct = x.sct
      /\ y.freeBegin = x.freeBegin /\ y.freeNum = x.freeNum
      /\ WithRoot(WithEntry(x, s, off, fe), he) = WithEntry(y, s, off, fe)
  BY <1>3, <1>7, WithRootIs
<1> HIDE DEF x, he
<1>9. (FE_BYTES * (off + 1)) \div FE_BYTES = off + 1
  BY <1>6, WholeEntries
<1>10. RootProper(y)
  <2>1. Linked(y, ge.sctBegin, n)
    BY <1>3, <1>8, ChainByMap
  <2>2. Proper(he)
    BY <1>1, <1>7 DEF Proper
  <2> QED
    BY <1>6, <1>7, <1>8, <1>9, <2>1, <2>2 DEF RootProper
<1>11. RootLen(y) = m + 1
  <2>1. RootLen(y) = (n - 1) * FE_ITEM_CNT + (off + 1)
    BY <1>7, <1>8, <1>9 DEF RootLen
  <2>2. /\ (n - 1) * FE_ITEM_CNT = FE_ITEM_CNT * (n - 1) /\ FE_ITEM_CNT * (n - 1) \in Nat
        /\ off \in Nat
    BY <1>1, <1>2, <1>4 DEF Slot
  <2> QED
    BY <1>1, <2>1, <2>2
<1>12. Alike(d, y, d.root.sctNum)
  <2>1. d.root.sctNum \in Nat
    BY DEF Directory, RootProper, Linked
  <2>2. \A i \in 0 .. d.root.sctNum - 1 :
          FindIndex(y, ge.sctBegin, i) = FindIndex(x, ge.sctBegin, i)
    BY <1>8, <2>1, IndexByMap
  <2> QED
    BY <1>1, <1>3, <1>7, <1>8, <2>2 DEF Alike
<1>13. At(y, m, s, off)
  <2>1. m \div FE_ITEM_CNT = n - 1 /\ m % FE_ITEM_CNT = off
    BY <1>1, <1>4, PlaceOf
  <2>2. FindIndex(y, ge.sctBegin, n - 1) = s
    BY <1>4, <1>5, <1>8, IndexByMap
  <2> QED
    BY <1>7, <1>8, <2>1, <2>2 DEF At
<1>14. /\ fe \in FileEntry /\ fe.name = name /\ fe.inSctIdx = s /\ fe.inSctOff = off
  <2>1. 0 \in 0 .. dataSize /\ SECT_SIZE \in 0 .. SECT_SIZE
    BY <1>2, Numbers
  <2> QED
    BY <1>1, <1>5, <2>1 DEF NewEntry, FileEntry
<1> HIDE DEF m
<1>15. Added(d, e, fe)
  BY <1>1, <1>5, <1>8, <1>10, <1>11, <1>12, <1>13, <1>14, EntryAdded DEF m
<1>16. /\ e.root = y.root /\ e.map = y.map /\ e.freeBegin = y.freeBegin /\ e.freeNum = y.freeNum
       /\ \A t \in Sector \ {s} : e.sct[t] = y.sct[t]
  BY <1>1, <1>5, <1>8, <1>14, EntryPut
<1>17. SameChain(ge, e.root)
  BY <1>7, <1>8, <1>16 DEF SameChain
<1> QED
  BY <1>3, <1>5, <1>8, <1>14, <1>15, <1>16, <1>17 DEF x, he

\* A buffer stays right when the sectors of its file do.
LEMMA CacheStays ==
    ASSUME NEW d, NEW fd \in FileDesc, CacheOK(d, fd), NEW e,
           \A i \in 0 .. fd.fe.sctNum - 1 :
              /\ FindIndex(e, fd.fe.sctBegin, i) = FindIndex(d, fd.fe.sctBegin, i)
              /\ e.sct[FindIndex(d, fd.fe.sctBegin, i)] = d.sct[FindIndex(d, fd.fe.sctBegin, i)]
    PROVE  CacheOK(e, fd)
<1> DEFINE i == fd.objIdx
<1>1. CASE i = End
  BY <1>1 DEF CacheOK
<1>2. CASE i # End
  <2>1. i < fd.fe.sctNum
    BY <1>2 DEF CacheOK
  <2>2. i \in Nat /\ fd.fe.sctNum \in 0 .. dataSize
    BY <1>2, Numbers DEF FileDesc, FileEntry
  <2>3. i \in 0 .. fd.fe.sctNum - 1
    BY <2>1, <2>2, Numbers
  <2>4. /\ FindIndex(e, fd.fe.sctBegin, i) = FindIndex(d, fd.fe.sctBegin, i)
        /\ e.sct[FindIndex(d, fd.fe.sctBegin, i)] = d.sct[FindIndex(d, fd.fe.sctBegin, i)]
    BY <2>3
  <2> QED
    BY <1>2, <2>4 DEF CacheOK
<1> QED
  BY <1>1, <1>2

LEMMA FileCreated ==
    ASSUME NEW d, NEW fds, Sound(d, fds), NEW R, R = Recs(d, fds), NEW v, NEW ge, NEW off,
           Roomy(d, R, v, ge, off), NEW name \in Name, FindInRoot(d, name) = Missing,
           NEW s, s = FindLast(Now(v), ge.sctBegin),
           NEW fe, fe = NewEntry(name, s, off), NEW y, y = WithRoot(Now(v), OneMore(ge)),
           NEW e, e = WithEntry(y, s, off, fe)
    PROVE  /\ Sound(e, fds) /\ FindInRoot(e, name) = fe /\ fe # Missing
           /\ \A z : z # name => FindInRoot(e, z) = FindInRoot(d, z)
           /\ \A o \in DOMAIN R \ {Missing} : Same(d, e, R[o])
<1> DEFINE x == Now(v)
           Q == [R EXCEPT ![Missing] = ge]
           S == Recs(e, fds)
<1>1. Chains(d, fds) /\ Caches(d, fds, Name) /\ Directory(d) /\ fds \in Descriptors
  BY DEF Sound, Chains
<1>2. Owners(d, fds, R)
  BY <1>1, RecsAre
<1>3. /\ R = [p \in DOMAIN R |-> R[p]] /\ Missing \in DOMAIN R /\ R[Missing] = d.root
      /\ DOMAIN R = {Missing} \union {m \in Name : FindInRoot(d, m) # Missing}
      /\ Missing \notin Name /\ \A o \in DOMAIN R : Proper(R[o])
  BY <1>2 DEF Owners
<1>4. /\ s = FindIndex(x, ge.sctBegin, ge.sctNum - 1) /\ s \in Sector
      /\ Linked(x, ge.sctBegin, ge.sctNum)
      /\ Added(d, e, fe) /\ fe \in FileEntry /\ fe.name = name
      /\ e.root = OneMore(ge) /\ SameChain(ge, e.root)
      /\ e.map = x.map /\ e.freeBegin = x.freeBegin /\ e.freeNum = x.freeNum
      /\ \A t \in Sector \ {s} : e.sct[t] = d.sct[t]
  <2>1. Missing \in DOMAIN R /\ R[Missing] = d.root /\ R = [p \in DOMAIN R |-> R[p]]
    BY <1>3
  <2> HIDE DEF x
  <2> QED
    BY <1>1, <2>1, RootExtended DEF x
<1>5. /\ Directory(e) /\ FindInRoot(e, name) = fe
      /\ \A z : z # name => FindInRoot(e, z) = FindInRoot(d, z)
  BY <1>4 DEF Added
<1>6. Shares(x, Q) /\ Apart(d, x, R, Missing) /\ ge.sctNum > 0
  BY DEF Roomy, Moved
<1>7. DOMAIN Q = DOMAIN R /\ Q[Missing] = ge /\ \A o \in DOMAIN R \ {Missing} : Q[o] = R[o]
  BY <1>3
<1> HIDE DEF x, Q
<1>8. fe # Missing /\ name # Missing /\ name \notin DOMAIN R
  BY <1>3, <1>4, NameAssumption
<1>9. \A m \in Name : fds[m] # Closed => m # name /\ Named(d, m, fds[m])
  BY <1>1 DEF Chains, Named
<1>10. DOMAIN S = DOMAIN R \union {name}
  BY <1>3, <1>5, <1>8 DEF Recs
<1>11. S[name] = fe /\ S[Missing] = e.root
  BY <1>5, <1>8, <1>9 DEF Recs
<1>12. \A o \in DOMAIN R \ {Missing} : S[o] = R[o]
  BY <1>3, <1>5, <1>8 DEF Recs
<1> HIDE DEF S
<1>13. fe.sctBegin = End /\ fe.sctNum = 0 /\ fe.lastBytes = SECT_SIZE
  BY DEF NewEntry
<1>14. Shares(e, S)
  <2>1. \A o \in DOMAIN Q : SameChain(Q[o], S[o])
    BY <1>4, <1>7, <1>11, <1>12 DEF SameChain
  <2>2. Shares(x, S)
    BY <1>6, <1>7, <1>8, <1>10, <1>11, <1>13, <2>1, SharesWithEmpty
  <2> QED
    BY <1>4, <2>2, SharesByMap
<1>15. \A o \in DOMAIN S : Proper(S[o])
  <2>1. Proper(fe)
    BY <1>13 DEF Proper
  <2>2. Proper(e.root)
    BY <1>5 DEF Directory, RootProper
  <2> QED
    BY <1>3, <1>10, <1>11, <1>12, <2>1, <2>2
<1>16. Chains(e, fds)
  <2>1. \A m \in Name : fds[m] # Closed => Named(e, m, fds[m])
    BY <1>5, <1>9 DEF Named
  <2> QED
    BY <1>1, <1>5, <1>14, <1>15, <2>1 DEF Chains, S
<1>17. ASSUME NEW o \in DOMAIN R \ {Missing} PROVE Same(d, e, R[o])
  <2> DEFINE b == R[o].sctBegin
             n == R[o].sctNum
  <2>1. Linked(d, b, n)
    BY <1>2 DEF Owners, Shares
  <2>2. n \in Nat
    BY <2>1 DEF Linked
  <2>3. ASSUME NEW i \in 0 .. n - 1
        PROVE  /\ FindIndex(e, b, i) = FindIndex(d, b, i)
               /\ e.sct[FindIndex(d, b, i)] = d.sct[FindIndex(d, b, i)]
    <3>1. i \in Nat
      BY <2>2
    <3>2. FindIndex(x, b, i) = FindIndex(d, b, i)
      BY <1>6, <3>1 DEF Apart
    <3>3. FindIndex(e, b, i) = FindIndex(x, b, i)
      BY <1>4, <3>1, IndexByMap
    <3>4. FindIndex(x, b, i) \in Sector /\ FindIndex(x, b, i) # s
      <4>1. o \in DOMAIN Q /\ Missing \in DOMAIN Q /\ Q[o] = R[o] /\ Q[Missing] = ge
        BY <1>3, <1>7
      <4>2. ge.sctNum \in Nat
        BY <1>4 DEF Linked
      <4>3. ge.sctNum - 1 \in 0 .. ge.sctNum - 1
        BY <1>6, <4>2
      <4>4. i \in 0 .. Q[o].sctNum - 1 /\ ge.sctNum - 1 \in 0 .. Q[Missing].sctNum - 1
        BY <4>1, <4>3
      <4>5. /\ FindIndex(x, Q[o].sctBegin, i) \in Sector
            /\ FindIndex(x, Q[o].sctBegin, i) # FindIndex(x, Q[Missing].sctBegin, ge.sctNum - 1)
        BY <1>6, <4>1, <4>4, OwnSectors
      <4> QED
        BY <1>4, <4>1, <4>5
    <3> QED
      BY <1>4, <3>2, <3>3, <3>4
  <2> QED
    BY <2>3 DEF Same
<1>18. Caches(e, fds, Name)
  <2> SUFFICES ASSUME NEW m \in Name, fds[m] # Closed PROVE CacheOK(e, fds[m])
    BY DEF Caches
  <2>1. CacheOK(d, fds[m])
    BY <1>1 DEF Caches
  <2>2. m \in DOMAIN R \ {Missing} /\ fds[m] \in FileDesc /\ R[m] = fds[m].fe
    BY <1>2 DEF Owners
  <2>3. Same(d, e, fds[m].fe)
    BY <1>17, <2>2
  <2> QED
    BY <2>1, <2>2, <2>3, CacheStays DEF Same
<1> QED
  BY <1>5, <1>8, <1>16, <1>17, <1>18 DEF Sound

LEMMA CreateSound ==
    ASSUME Sound(disk, opened), ~PowerFails, Disciplined, NEW name \in Name, FCreate(name)
    PROVE  /\ Sound(disk', opened') /\ UNCHANGED << opened, failed >>
           /\ FindInRoot(disk, name) = Missing /\ FindInRoot(disk', name) # Missing
           /\ FindInRoot(disk', name).sctNum = 0 /\ FindInRoot(disk', name).sctBegin = End
           /\ \A z : z # name => FindInRoot(disk', z) = FindInRoot(disk, z)
           /\ LET R == Recs(disk, opened)
              IN  \A o \in DOMAIN R \ {Missing} : Same(disk, disk', R[o])
<1> DEFINE d == disk
           c == CheckStorage(<< d >>, d.root)
           v == c[1]
           ge == c[2]
           off == ge.lastBytes \div FE_BYTES
           s == FindLast(Now(v), ge.sctBegin)
           fe == NewEntry(name, s, off)
           y == WithRoot(Now(v), OneMore(ge))
           e == WithEntry(y, s, off, fe)
           R == Recs(d, opened)
           w == CreateInRoot(<< d >>, name)
<1>1. /\ FindInRoot(d, name) = Missing /\ (d.root.lastBytes # SECT_SIZE \/ d.freeBegin # End)
      /\ disk' = Now(w) /\ opened' = opened /\ UNCHANGED failed
  BY DEF FCreate, Does
<1>2. Chains(d, opened) /\ Directory(d)
  BY DEF Sound, Chains
<1>3. Roomy(d, R, v, ge, off)
  <2> HIDE DEF c
  <2> QED
    BY <1>1, <1>2, RoomMade DEF c
<1>4. Missing \in DOMAIN R /\ R[Missing] = d.root /\ R = [p \in DOMAIN R |-> R[p]]
  <2>1. R = Recs(d, opened)
    OBVIOUS
  <2> HIDE DEF R
  <2>2. Owners(d, opened, R)
    BY <1>2, <2>1, RecsAre
  <2> QED
    BY <2>2 DEF Owners
<1> DEFINE made == WithEntry(Now(v), s, off, fe)
           full == WithRoot(made, OneMore(ge))
<1>5. w = IF s = End THEN v ELSE v \o << made, full >>
  <2>1. Now(<< d >>) = d
    BY Begun
  <2> QED
    BY <2>1, Zenon DEF CreateInRoot, WithRoot, OneMore
<1> HIDE DEF v, ge, off, s, fe, y, e, w, made, R
<1>6. s \in Sector /\ full = e
  BY <1>1, <1>2, <1>3, <1>4, RootExtended DEF s, fe, y, e, made
<1>7. History(v)
  BY <1>3 DEF Roomy
<1> HIDE DEF full
<1>8. Now(w) = e
  BY <1>5, <1>6, <1>7, WrittenTwice, Numbers
<1>9. /\ Sound(e, opened) /\ FindInRoot(e, name) = fe /\ fe # Missing
      /\ \A z : z # name => FindInRoot(e, z) = FindInRoot(d, z)
      /\ \A o \in DOMAIN R \ {Missing} : Same(d, e, R[o])
  BY <1>1, <1>3, FileCreated DEF s, fe, y, e, R
<1>10. fe.sctNum = 0 /\ fe.sctBegin = End
  BY DEF fe, NewEntry
<1> QED
  BY <1>1, <1>8, <1>9, <1>10 DEF R

\* What is found when the entry t was removed and the last one, l, took its place.
Removed(d, e, t, l, fe) ==
    /\ Directory(e) /\ FindInRoot(e, t.name) = Missing
    /\ l.name # t.name => FindInRoot(e, l.name) = fe
    /\ \A x : x # t.name /\ x # l.name => FindInRoot(e, x) = FindInRoot(d, x)

LEMMA MovedEntry ==
    ASSUME NEW t \in FileEntry, NEW l \in FileEntry, NEW fe, fe = MoveFileEntry(t, l)
    PROVE  /\ fe \in FileEntry /\ fe.name = l.name /\ SamePlace(fe, t) /\ SameChain(l, fe)
           /\ fe.lastBytes = l.lastBytes
  BY DEF MoveFileEntry, FileEntry, SamePlace, SameChain

LEMMA EntryRemoved ==
    ASSUME NEW d, Directory(d), NEW y \in Disks, RootProper(y), Alike(d, y, y.root.sctNum),
           NEW m, m = RootLen(y), RootLen(d) = m + 1, NEW k \in 0 .. m,
           NEW t, t = RootEntry(d, k), NEW l, l = RootEntry(d, m),
           NEW fe, fe = MoveFileEntry(t, l), NEW e, e = WithEntry(y, t.inSctIdx, t.inSctOff, fe)
    PROVE  /\ Removed(d, e, t, l, fe)
           /\ e.root = y.root /\ e.map = y.map
           /\ e.freeBegin = y.freeBegin /\ e.freeNum = y.freeNum
           /\ t.inSctIdx = FindIndex(d, d.root.sctBegin, k \div FE_ITEM_CNT)
           /\ \A u \in Sector \ {t.inSctIdx} : e.sct[u] = d.sct[u]
<1> DEFINE s == t.inSctIdx
           i == t.inSctOff
           at(j) == IF j = k THEN m ELSE j
<1>1. d \in Disks /\ RootProper(d) /\ NamedOnce(d) /\ \A j \in 0 .. m : InPlace(d, j)
  <2>1. m \in Nat
    BY RootSize
  <2>2. RootLen(d) - 1 = m
    BY <2>1
  <2> QED
    BY <2>2 DEF Directory
<1>2. m \in Nat /\ \A j \in 0 .. m - 1 : j \in Nat /\ j \div FE_ITEM_CNT \in 0 .. y.root.sctNum - 1
  BY RootSize
<1>3. 0 .. RootLen(d) - 1 = 0 .. m
  BY <1>2
<1>4. t \in FileEntry /\ l \in FileEntry /\ At(d, k, s, i)
  <2>1. m \in 0 .. m
    BY <1>2
  <2> QED
    BY <1>1, <2>1 DEF InPlace
<1>5. s \in Sector /\ i \in Slot
  BY <1>4 DEF FileEntry
<1>6. /\ fe \in FileEntry /\ fe.name = l.name /\ fe.inSctIdx = s /\ fe.inSctOff = i
  BY <1>4, MovedEntry DEF SamePlace
<1>7. /\ e \in Disks /\ e.freeBegin = y.freeBegin /\ e.freeNum = y.freeNum
      /\ e.root = y.root /\ e.map = y.map
      /\ \A j \in Nat : RootEntry(e, j) = IF At(y, j, s, i) THEN fe ELSE RootEntry(y, j)
      /\ \A u \in Sector \ {s} : e.sct[u] = y.sct[u]
  BY <1>5, <1>6, EntryPut
<1>8. s = FindIndex(d, d.root.sctBegin, k \div FE_ITEM_CNT) /\ y.sct = d.sct
  BY <1>4 DEF At, Alike
<1> HIDE DEF s, i
<1>9. ASSUME NEW j \in 0 .. m - 1
      PROVE  /\ RootEntry(e, j) = IF j = k THEN fe ELSE RootEntry(d, j)
             /\ \A u, o : At(e, j, u, o) <=> At(d, j, u, o)
  <2>1. RootEntry(y, j) = RootEntry(d, j) /\ \A u, o : At(y, j, u, o) <=> At(d, j, u, o)
    BY <1>2, AlikeEntries
  <2>2. At(d, j, s, i) <=> j = k
    <3>1. j \in 0 .. RootLen(d) - 1 /\ k \in 0 .. RootLen(d) - 1
      BY <1>2, <1>3
    <3>2. At(d, j, s, i) => j = k
      BY <1>1, <1>4, <3>1, OnePlace
    <3> QED
      BY <1>4, <3>2
  <2>3. j \in Nat /\ j \div FE_ITEM_CNT \in Nat
    BY <1>2, Places
  <2>4. FindIndex(e, y.root.sctBegin, j \div FE_ITEM_CNT)
          = FindIndex(y, y.root.sctBegin, j \div FE_ITEM_CNT)
    BY <1>7, <2>3, IndexByMap
  <2>5. \A u, o : At(e, j, u, o) <=> At(y, j, u, o)
    BY <1>7, <2>4 DEF At
  <2> QED
    BY <1>7, <2>1, <2>2, <2>3, <2>5
<1>10. RootLen(e) = m
  BY <1>7 DEF RootLen
<1>11. RootProper(e)
  <2>1. Linked(e, y.root.sctBegin, y.root.sctNum)
    BY <1>7, ChainByMap DEF RootProper
  <2> QED
    BY <1>7, <2>1 DEF RootProper
<1>12. \A j \in 0 .. m - 1 : at(j) \in 0 .. m /\ RootEntry(e, j).name = RootEntry(d, at(j)).name
  BY <1>2, <1>6, <1>9
<1>13. \A j, p \in 0 .. m - 1 : at(j) = at(p) => j = p
  BY <1>2
<1>14. \A j \in 0 .. m - 1 : at(j) # k
  BY <1>2
<1>15. \A j, p \in 0 .. m : RootEntry(d, j).name = RootEntry(d, p).name => j = p
  BY <1>1, <1>3 DEF NamedOnce
<1>16. Directory(e)
  <2>1. ASSUME NEW j \in 0 .. m - 1 PROVE InPlace(e, j)
    <3>1. CASE j = k
      BY <1>4, <1>6, <1>9, <3>1 DEF InPlace
    <3>2. CASE j # k
      <4>1. InPlace(d, j)
        BY <1>1, <1>2
      <4> QED
        BY <1>9, <3>2, <4>1 DEF InPlace
    <3> QED
      BY <3>1, <3>2
  <2>2. NamedOnce(e)
    <3> SUFFICES ASSUME NEW j \in 0 .. m - 1, NEW p \in 0 .. m - 1,
                        RootEntry(e, j).name = RootEntry(e, p).name
                 PROVE  j = p
      BY <1>10 DEF NamedOnce
    <3> HIDE DEF at
    <3>1. at(j) = at(p)
      BY <1>12, <1>15
    <3> QED
      BY <1>13, <3>1
  <2> QED
    BY <1>7, <1>10, <1>11, <2>1, <2>2 DEF Directory
<1>17. FindInRoot(e, t.name) = Missing
  <2> HIDE DEF at
  <2>1. \A j \in 0 .. m - 1 : RootEntry(e, j).name # t.name
    BY <1>12, <1>14, <1>15
  <2> QED
    BY <1>10, <1>16, <2>1, NotListed
<1>18. ASSUME l.name # t.name PROVE FindInRoot(e, l.name) = fe
  <2>1. k # m
    BY <1>18
  <2>2. k \in 0 .. m - 1
    BY <1>2, <2>1
  <2>3. RootEntry(e, k) = fe
    BY <1>9, <2>2
  <2> QED
    BY <1>6, <1>10, <1>16, <2>2, <2>3, Lookup
<1>19. ASSUME NEW x, x # t.name, x # l.name PROVE FindInRoot(e, x) = FindInRoot(d, x)
  <2>1. CASE FindInRoot(d, x) # Missing
    <3>1. PICK j \in 0 .. m : FindInRoot(d, x) = RootEntry(d, j) /\ RootEntry(d, j).name = x
      BY <1>3, <2>1, Entry
    <3>2. j # k /\ j # m
      BY <1>19, <3>1
    <3>3. j \in 0 .. m - 1
      BY <1>2, <3>2
    <3>4. RootEntry(e, j) = RootEntry(d, j)
      BY <1>9, <3>2, <3>3
    <3> QED
      BY <1>10, <1>16, <3>1, <3>3, <3>4, Lookup
  <2>2. CASE FindInRoot(d, x) = Missing
    <3>1. \A j \in 0 .. m : RootEntry(d, j).name # x
      BY <1>3, <2>2, NotFound
    <3>2. \A j \in 0 .. m - 1 : RootEntry(e, j).name # x
      <4> HIDE DEF at
      <4> QED
        BY <1>12, <3>1
    <3> QED
      BY <1>10, <1>16, <2>2, <3>2, NotListed
  <2> QED
    BY <2>1, <2>2
<1> QED
  BY <1>7, <1>16, <1>17, <1>18, <1>19, <1>8 DEF Removed, s

\* One entry is erased from the end of the directory, whose record is ge then.
LEMMA RootCut ==
    ASSUME NEW d, Directory(d), d.root.sctNum > 0, NEW x \in Disks, NEW ge \in Chained,
           Linked(x, ge.sctBegin, ge.sctNum), Proper(ge), ge.lastBytes > 0, x.sct = d.sct,
           Bytes(ge) = Bytes(d.root) - FE_BYTES,
           \A j \in 0 .. ge.sctNum - 1 :
              FindIndex(x, ge.sctBegin, j) = FindIndex(d, d.root.sctBegin, j),
           NEW y, y = WithRoot(x, ge)
    PROVE  /\ RootProper(y) /\ RootLen(d) = RootLen(y) + 1 /\ Alike(d, y, y.root.sctNum)
           /\ y \in Disks /\ y.root = ge /\ y.map = x.map
           /\ y.freeBegin = x.freeBegin /\ y.freeNum = x.freeNum
<1> DEFINE n == d.root.sctNum
           l == d.root.lastBytes \div FE_BYTES
           p == ge.sctNum
           b == ge.lastBytes
           c == FE_ITEM_CNT
           f == FE_BYTES
           q == c * (n - p) + l - 1
<1>1. d \in Disks /\ RootProper(d)
  BY DEF Directory
<1>2. n \in Nat /\ l \in 1 .. c /\ RootLen(d) = c * (n - 1) + l /\ d.root.lastBytes = f * l
  BY <1>1, RootSize DEF RootProper
<1>3. c \in Nat \ {0} /\ f \in Nat \ {0} /\ SECT_SIZE = f * c
  BY Sizes
<1>4. p \in Nat /\ b \in Nat /\ b > 0
  BY <1>3 DEF Linked, Chained
<1>5. y \in Disks /\ y.root = ge /\ y.map = x.map /\ y.sct = x.sct
      /\ y.freeBegin = x.freeBegin /\ y.freeNum = x.freeNum
  BY WithRootIs
<1>6. (p - 1) * SECT_SIZE + b = (n - 1) * SECT_SIZE + f * l - f
  <2>1. Bytes(ge) = (p - 1) * SECT_SIZE + b
    BY DEF Bytes
  <2>2. Bytes(d.root) = (n - 1) * SECT_SIZE + d.root.lastBytes
    BY DEF Bytes
  <2>3. Bytes(d.root) = (n - 1) * SECT_SIZE + f * l
    BY <1>2, <2>2
  <2> DEFINE u == (p - 1) * SECT_SIZE
             v == (n - 1) * SECT_SIZE
             g == f * l
  <2>4. Bytes(ge) = u + b /\ Bytes(d.root) = v + g /\ Bytes(ge) = Bytes(d.root) - f
    BY <2>1, <2>3
  <2>5. u \in Int /\ v \in Int
    BY <1>2, <1>3, <1>4
  <2>6. g \in Int /\ b \in Int /\ f \in Int
    BY <1>2, <1>3, <1>4
  <2> HIDE DEF u, v, g, n, l, p, b, f
  <2>7. u + b = v + g - f
    BY <2>4, <2>5, <2>6
  <2> QED
    BY <2>7 DEF u, v, g
<1>7. RootLen(y) = (p - 1) * c + b \div f
  BY <1>5 DEF RootLen
<1> HIDE DEF n, l, p, b, c, f
<1>8. f * q = b
  <2> DEFINE z == SECT_SIZE
  <2>1. z \in Nat /\ l \in Nat
    BY <1>2, <1>3
  <2>2. f * q = f * (c * (n - p)) + f * l - f
    BY <1>2, <1>3, <1>4, <2>1
  <2>3. f * (c * (n - p)) = (f * c) * (n - p)
    BY <1>2, <1>3, <1>4
  <2>4. (f * c) * (n - p) = z * (n - p)
    BY <1>3
  <2> HIDE DEF z
  <2>5. z * (n - p) = z * n - z * p
    BY <1>2, <1>4, <2>1, Times
  <2>6. (p - 1) * z = z * p - z /\ (n - 1) * z = z * n - z
    BY <1>2, <1>4, <2>1
  <2>7. z * p \in Nat /\ z * n \in Nat /\ f * l \in Nat
    BY <1>2, <1>3, <1>4, <2>1
  <2>8. z * p - z + b = z * n - z + f * l - f
    BY <1>6, <2>6 DEF z
  <2>9. b = z * n - z * p + f * l - f
    BY <1>3, <1>4, <2>1, <2>7, <2>8
  <2> QED
    BY <2>2, <2>3, <2>4, <2>5, <2>9
<1>9. q \in Nat
  <2>1. q \in Int
    <3>1. l \in Nat
      BY <1>2, <1>3
    <3>2. c * (n - p) \in Int
      BY <1>2, <1>3, <1>4
    <3> QED
      BY <3>1, <3>2
  <2> SUFFICES ASSUME q < 0 PROVE FALSE
    BY <2>1
  <2> HIDE DEF q
  <2>2. f * q < 0
    BY <1>3, <2>1
  <2> QED
    BY <1>4, <1>8, <2>2
<1>10. b \div f = q
  <2> HIDE DEF q
  <2>1. (FE_BYTES * q) \div FE_BYTES = q
    BY <1>9, WholeEntries
  <2> QED
    BY <1>8, <2>1 DEF f
<1>11. RootProper(y)
  <2>1. Linked(y, ge.sctBegin, ge.sctNum)
    BY <1>5, ChainByMap
  <2>2. ge.lastBytes = FE_BYTES * (ge.lastBytes \div FE_BYTES)
    <3> HIDE DEF q
    <3> QED
      BY <1>8, <1>10 DEF b, f
  <2> QED
    BY <1>5, <2>1, <2>2 DEF RootProper
<1>12. RootLen(d) = RootLen(y) + 1
  <2>1. c * (n - p) = c * n - c * p
    BY <1>2, <1>3, <1>4, Times
  <2>2. (p - 1) * c = c * p - c /\ c * (n - 1) = c * n - c
    BY <1>2, <1>3, <1>4
  <2>3. c * p \in Nat /\ c * n \in Nat /\ l \in Nat
    BY <1>2, <1>3, <1>4
  <2>4. RootLen(y) = c * p - c + q
    BY <1>7, <1>10, <2>2
  <2>5. q = c * n - c * p + l - 1
    BY <2>1
  <2> HIDE DEF q
  <2> QED
    BY <1>2, <1>3, <2>2, <2>3, <2>4, <2>5
<1>13. Alike(d, y, y.root.sctNum)
  <2>1. \A j \in 0 .. p - 1 : FindIndex(y, ge.sctBegin, j) = FindIndex(x, ge.sctBegin, j)
    BY <1>4, <1>5, IndexByMap
  <2> QED
    BY <1>5, <2>1 DEF Alike, p
<1> QED
  BY <1>5, <1>11, <1>12, <1>13

\* The places of the deleted entry and of the last one.
LEMMA EntriesToMove ==
    ASSUME NEW d, Directory(d), NEW name, FindInRoot(d, name) # Missing,
           NEW t, t = FindInRoot(d, name), NEW m, m = RootLen(d) - 1
    PROVE  /\ d.root.sctNum > 0 /\ m \in Nat
           /\ \E k \in 0 .. m : t = RootEntry(d, k)
           /\ t.name = name /\ t \in FileEntry /\ name \in Name
           /\ EntryAt(d, t.inSctIdx, t.inSctOff) = t
           /\ EntryAt(d, FindLast(d, d.root.sctBegin), d.root.lastBytes \div FE_BYTES - 1)
                = RootEntry(d, m)
<1> DEFINE n == d.root.sctNum
           l == d.root.lastBytes \div FE_BYTES
<1>1. PICK k \in 0 .. m :
          /\ t = RootEntry(d, k) /\ t \in FileEntry /\ t.name = name /\ name \in Name
          /\ At(d, k, t.inSctIdx, t.inSctOff)
  BY Entry
<1>2. d \in Disks /\ RootProper(d) /\ Linked(d, d.root.sctBegin, n)
  BY DEF Directory, RootProper
<1>3. /\ n \in Nat /\ l \in 1 .. FE_ITEM_CNT /\ RootLen(d) = FE_ITEM_CNT * (n - 1) + l
      /\ RootLen(d) \in Nat /\ (n = 0 => RootLen(d) = 0)
  BY <1>2, RootSize
<1>4. m \in Nat /\ n > 0
  BY <1>1, <1>3
<1>5. EntryAt(d, t.inSctIdx, t.inSctOff) = t
  BY <1>1 DEF RootEntry, At
<1>6. FindLast(d, d.root.sctBegin) = FindIndex(d, d.root.sctBegin, n - 1)
  BY <1>2, <1>4, LastOf
<1>7. m \div FE_ITEM_CNT = n - 1 /\ m % FE_ITEM_CNT = l - 1
  <2>1. n - 1 \in Nat /\ l - 1 \in Slot
    BY <1>3, <1>4, Sizes DEF Slot
  <2>2. FE_ITEM_CNT * (n - 1) \in Nat
    BY <2>1, Sizes
  <2>3. m = FE_ITEM_CNT * (n - 1) + (l - 1)
    <3> DEFINE P == FE_ITEM_CNT * (n - 1)
    <3>1. RootLen(d) = P + l /\ P \in Nat /\ l \in Nat
      BY <1>3, <2>2
    <3>2. m = P + (l - 1)
      <4>1. m = RootLen(d) - 1
        OBVIOUS
      <4> HIDE DEF P, l
      <4> QED
        BY ONLY <3>1, <4>1
    <3> QED
      BY <3>2
  <2> QED
    BY <2>1, <2>3, PlaceOf
<1> QED
  BY <1>1, <1>4, <1>5, <1>6, <1>7 DEF RootEntry

\* The file is gone from the records, and its sectors are free.
LEMMA SectorsFreed ==
    ASSUME NEW d, NEW fds, Chains(d, fds), NEW R, R = Recs(d, fds), NEW name,
           name \in DOMAIN R, name # Missing, NEW fe, fe = R[name],
           NEW a, a = FreeFile(<< d >>, fe.sctBegin), d.root.sctNum > 0,
           NEW e, e = EraseLast(a, d.root, FE_BYTES), NEW x, x = Now(e.w),
           NEW ge, ge = e.fe, NEW Q, Q = [[R EXCEPT ![name] = Emptied(fe)] EXCEPT ![Missing] = ge]
    PROVE  /\ History(e.w) /\ Shares(x, Q) /\ x \in Disks /\ x.sct = d.sct
           /\ ge \in Chained /\ Proper(ge) /\ ge.lastBytes > 0
           /\ Bytes(ge) = Bytes(d.root) - FE_BYTES
           /\ \A j \in 0 .. ge.sctNum - 1 :
                 FindIndex(x, ge.sctBegin, j) = FindIndex(d, d.root.sctBegin, j)
           /\ \A o \in DOMAIN R \ {name, Missing} : \A i \in Nat :
                 FindIndex(x, R[o].sctBegin, i) = FindIndex(d, R[o].sctBegin, i)
<1> DEFINE w == << d >>
           u == Now(a)
           ce == Emptied(fe)
           P == [R EXCEPT ![name] = ce]
           root == d.root
<1>1. History(w) /\ Now(w) = d
  BY Begun
<1> HIDE DEF w
<1>2. Owners(d, fds, R)
  BY RecsAre
<1>3. /\ R = [p \in DOMAIN R |-> R[p]] /\ Missing \in DOMAIN R /\ R[Missing] = root
      /\ \A o \in DOMAIN R : R[o] \in Records /\ Proper(R[o])
      /\ Shares(d, R) /\ d \in Disks /\ RootProper(d) /\ root \in Chained
  BY <1>2, DiskFields DEF Owners, Chains, Directory
<1>4. History(a) /\ Moved(d, u, R, name, ce)
  <2>1. a = FreeFile(w, fe.sctBegin) /\ d = Now(w) /\ fe = R[name] /\ fe \in Records
    BY <1>1, <1>3 DEF w
  <2> QED
    BY <1>1, <1>3, <2>1, FileFreed
<1>5. /\ u \in Disks /\ u.sct = d.sct /\ u.root = root /\ Shares(u, P) /\ Apart(d, u, R, name)
  BY <1>4 DEF Moved
<1>6. /\ P = [p \in DOMAIN P |-> P[p]] /\ DOMAIN P = DOMAIN R /\ Missing \in DOMAIN P
      /\ P[Missing] = root /\ Q = [P EXCEPT ![Missing] = ge]
      /\ \A o \in DOMAIN R \ {name} : P[o] = R[o]
  BY <1>3
<1> HIDE DEF P, u, ce, root
<1>7. root \in Records /\ Proper(root)
  BY <1>3
<1>8. Shortened(u, P, Missing, FE_BYTES, root.sctNum + 1, e)
  <2>1. FE_BYTES \in Nat
    BY Sizes
  <2>2. e = EraseLast(a, root, FE_BYTES) /\ u = Now(a)
    BY DEF root, u
  <2> QED
    BY <1>4, <1>5, <1>6, <1>7, <2>1, <2>2, LastErased
<1>9. Bytes(root) >= FE_BYTES
  <2> DEFINE n == root.sctNum
             l == root.lastBytes \div FE_BYTES
  <2>1. n \in Nat /\ l \in 1 .. FE_ITEM_CNT /\ root.lastBytes = FE_BYTES * l /\ n > 0
    BY <1>3, RootSize DEF root, RootProper
  <2>2. FE_BYTES \in Nat \ {0} /\ SECT_SIZE \in Nat \ {0} /\ FE_ITEM_CNT \in Nat
    BY Sizes
  <2>3. Bytes(root) = (n - 1) * SECT_SIZE + FE_BYTES * l
    BY <2>1 DEF Bytes
  <2>4. n - 1 \in Nat /\ l - 1 \in Nat
    BY <2>1, <2>2
  <2> HIDE DEF n, l
  <2>5. (n - 1) * SECT_SIZE \in Nat
    BY <2>2, <2>4
  <2>6. FE_BYTES * (l - 1) \in Nat
    BY <2>2, <2>4
  <2>7. FE_BYTES * (l - 1) = FE_BYTES * l - FE_BYTES /\ FE_BYTES * l \in Int
    BY <2>1, <2>2
  <2> QED
    BY <2>2, <2>3, <2>5, <2>6, <2>7
<1>10. e.left = 0
  <2> DEFINE k == root.sctNum + 1
  <2>1. Shortened(u, P, Missing, FE_BYTES, k, e) /\ k = root.sctNum + 1 /\ root = P[Missing]
    BY <1>6, <1>8
  <2>2. FE_BYTES \in Nat
    BY Sizes
  <2> HIDE DEF k
  <2>3. AllErased(root, FE_BYTES, e)
    BY <1>7, <2>1, <2>2, AfterErasing
  <2> QED
    BY <1>9, <2>3 DEF AllErased
<1>11. /\ History(e.w) /\ Moved(u, x, P, Missing, ge) /\ Proper(ge)
       /\ Bytes(ge) - 0 = Bytes(root) - FE_BYTES
       /\ (root.lastBytes > 0 => ge.lastBytes > 0) /\ ge.sctNum <= root.sctNum
       /\ \A j \in 0 .. ge.sctNum - 1 :
             FindIndex(x, ge.sctBegin, j) = FindIndex(u, root.sctBegin, j)
  BY <1>6, <1>8, <1>10 DEF Shortened
<1>12. /\ x \in Disks /\ x.sct = u.sct /\ Shares(x, Q) /\ ge \in Chained
  BY <1>3, <1>6, <1>11 DEF Moved, SameRecord
<1>13. root.lastBytes > 0
  BY <1>3 DEF RootProper, root
<1>14. Bytes(ge) = Bytes(root) - FE_BYTES
  <2>1. Bytes(ge) \in Int
    <3>1. ge.sctNum \in Nat /\ ge.lastBytes \in Nat /\ SECT_SIZE \in Nat
      BY <1>12, Sizes, Numbers DEF Chained
    <3>2. (ge.sctNum - 1) * SECT_SIZE \in Int
      BY <3>1
    <3> QED
      BY <3>1, <3>2 DEF Bytes
  <2> QED
    BY <1>11, <2>1
<1>15. ASSUME NEW j \in 0 .. ge.sctNum - 1
       PROVE  FindIndex(x, ge.sctBegin, j) = FindIndex(d, root.sctBegin, j)
  <2>1. j \in Nat
    BY <1>12, Numbers DEF Chained
  <2>2. FindIndex(u, root.sctBegin, j) = FindIndex(d, root.sctBegin, j)
    BY <1>3, <1>5, <2>1 DEF Apart
  <2> QED
    BY <1>11, <2>2
<1>16. ASSUME NEW o \in DOMAIN R \ {name, Missing}, NEW i \in Nat
       PROVE  FindIndex(x, R[o].sctBegin, i) = FindIndex(d, R[o].sctBegin, i)
  <2>1. o \in DOMAIN P \ {Missing} /\ P[o] = R[o]
    BY <1>6
  <2>2. FindIndex(x, R[o].sctBegin, i) = FindIndex(u, R[o].sctBegin, i)
    BY <1>11, <2>1 DEF Moved, Apart
  <2> QED
    BY <1>5, <2>2 DEF Apart
<1> QED
  BY <1>5, <1>11, <1>12, <1>13, <1>14, <1>15, <1>16 DEF root

LEMMA DeleteSound ==
    ASSUME Sound(disk, opened), ~PowerFails, Disciplined, NEW name \in Name, FDelete(name)
    PROVE  /\ Sound(disk', opened') /\ UNCHANGED << opened, failed >>
           /\ FindInRoot(disk', name) = Missing
           /\ \A n \in Name \ {name} :
                 Remains(disk, disk', FindInRoot(disk, n), FindInRoot(disk', n))
<1> DEFINE d == disk
           fds == opened
           R == Recs(d, fds)
           t == FindInRoot(d, name)
           m == RootLen(d) - 1
           l == RootEntry(d, m)
           a == FreeFile(<< d >>, t.sctBegin)
           e0 == EraseLast(a, d.root, FE_BYTES)
           x == Now(e0.w)
           ge == e0.fe
           y == WithRoot(x, ge)
           fe == MoveFileEntry(t, l)
           e == WithEntry(y, t.inSctIdx, t.inSctOff, fe)
           Q == [[R EXCEPT ![name] = Emptied(t)] EXCEPT ![Missing] = ge]
           S == Recs(e, fds)
<1>1. /\ t # Missing /\ fds = opened /\ \A n \in Name : fds[n] = Closed
      /\ disk' = Now(DeleteInRoot(<< d >>, name)) /\ opened' = fds /\ UNCHANGED failed
  BY DEF FDelete, Does, Open
<1>2. Chains(d, fds) /\ Directory(d) /\ fds \in Descriptors
  BY DEF Sound, Chains
<1>3. /\ d.root.sctNum > 0 /\ m \in Nat /\ (\E k \in 0 .. m : t = RootEntry(d, k))
      /\ t.name = name /\ t \in FileEntry
      /\ EntryAt(d, t.inSctIdx, t.inSctOff) = t
      /\ EntryAt(d, FindLast(d, d.root.sctBegin), d.root.lastBytes \div FE_BYTES - 1) = l
  <2> HIDE DEF d, t, m
  <2> QED
    BY <1>1, <1>2, EntriesToMove DEF t, m
<1>4. DeleteInRoot(<< d >>, name) = e0.w \o << y, e >>
  <2>1. Now(<< d >>) = d
    BY Begun
  <2> QED
    BY <1>3, <2>1, Zenon DEF DeleteInRoot, WithRoot
<1>5. Owners(d, fds, R)
  BY <1>2, RecsAre
<1>6. /\ R = [p \in DOMAIN R |-> R[p]] /\ Missing \in DOMAIN R /\ R[Missing] = d.root
      /\ DOMAIN R = {Missing} \union {n \in Name : FindInRoot(d, n) # Missing}
      /\ Missing \notin Name /\ \A o \in DOMAIN R : Proper(R[o])
      /\ \A n \in DOMAIN R \ {Missing} : R[n] = FindInRoot(d, n) /\ R[n].name = n /\ n \in Name
  BY <1>1, <1>5 DEF Owners
<1>7. name \in DOMAIN R /\ name # Missing /\ R[name] = t
  BY <1>1, <1>6
<1>8. /\ History(e0.w) /\ Shares(x, Q) /\ x \in Disks /\ x.sct = d.sct
      /\ ge \in Chained /\ Proper(ge) /\ ge.lastBytes > 0
      /\ Bytes(ge) = Bytes(d.root) - FE_BYTES
      /\ \A j \in 0 .. ge.sctNum - 1 :
            FindIndex(x, ge.sctBegin, j) = FindIndex(d, d.root.sctBegin, j)
      /\ \A o \in DOMAIN R \ {name, Missing} : \A i \in Nat :
            FindIndex(x, R[o].sctBegin, i) = FindIndex(d, R[o].sctBegin, i)
  <2>1. R = Recs(d, fds)
    OBVIOUS
  <2> HIDE DEF d, R, t
  <2>2. R = Recs(d, fds)
    BY DEF R
  <2> QED
    BY <1>2, <1>3, <1>7, <2>2, SectorsFreed
<1>9. /\ DOMAIN Q = DOMAIN R /\ Q[Missing] = ge /\ Q[name] = Emptied(t)
      /\ \A o \in DOMAIN R \ {Missing, name} : Q[o] = R[o]
  BY <1>6, <1>7
<1> HIDE DEF R, Q, t, m, l, a, e0
<1>10. Linked(x, ge.sctBegin, ge.sctNum)
  BY <1>6, <1>8, <1>9 DEF Shares
<1>11. /\ RootProper(y) /\ RootLen(d) = RootLen(y) + 1 /\ Alike(d, y, y.root.sctNum)
       /\ y \in Disks /\ y.root = ge /\ y.map = x.map
       /\ y.freeBegin = x.freeBegin /\ y.freeNum = x.freeNum
  <2> HIDE DEF d, x, ge
  <2> QED
    BY <1>2, <1>3, <1>8, <1>10, RootCut
<1>12. m = RootLen(y)
  <2>1. RootLen(y) \in Nat
    BY <1>11, RootSize
  <2> QED
    BY <1>11, <2>1 DEF m
<1>13. PICK k \in 0 .. m : t = RootEntry(d, k)
  BY <1>3
<1> HIDE DEF d, x, y, ge, fe, e
<1>14. /\ Removed(d, e, t, l, fe)
       /\ e.root = y.root /\ e.map = y.map /\ e.freeBegin = y.freeBegin /\ e.freeNum = y.freeNum
       /\ t.inSctIdx = FindIndex(d, d.root.sctBegin, k \div FE_ITEM_CNT)
       /\ \A u \in Sector \ {t.inSctIdx} : e.sct[u] = d.sct[u]
  <2>1. RootLen(d) = m + 1
    BY <1>11, <1>12
  <2> QED
    BY <1>2, <1>11, <1>12, <1>13, <2>1, EntryRemoved DEF l, fe, e
<1>15. /\ Directory(e) /\ FindInRoot(e, name) = Missing
       /\ (l.name # name => FindInRoot(e, l.name) = fe)
       /\ \A z : z # name /\ z # l.name => FindInRoot(e, z) = FindInRoot(d, z)
  BY <1>3, <1>14 DEF Removed
<1>16. FindInRoot(d, l.name) = l /\ l \in FileEntry
  <2>1. m \in 0 .. RootLen(d) - 1
    BY <1>3 DEF m
  <2> QED
    BY <1>2, <2>1, Lookup DEF l, Directory, InPlace
<1>17. /\ fe \in FileEntry /\ fe.name = l.name /\ SameChain(l, fe) /\ fe.lastBytes = l.lastBytes
  BY <1>3, <1>16, MovedEntry DEF fe
<1>18. l.name \in DOMAIN R /\ l.name # Missing /\ R[l.name] = l
  BY <1>6, <1>16, NameAssumption DEF FileEntry
<1>19. fe # Missing
  BY <1>17, NameAssumption
<1>20. \A n \in Name : FindInRoot(e, n) # Missing <=> n # name /\ FindInRoot(d, n) # Missing
  <2> TAKE n \in Name
  <2>1. CASE n = name
    BY <1>15, <2>1
  <2>2. CASE n # name /\ n = l.name
    BY <1>15, <1>16, <1>19, <2>2, NameAssumption
  <2>3. CASE n # name /\ n # l.name
    BY <1>15, <2>3
  <2> QED
    BY <2>1, <2>2, <2>3
<1>21. DOMAIN S = DOMAIN R \ {name}
  BY <1>6, <1>7, <1>20 DEF Recs
<1>22. S[Missing] = ge /\ \A n \in DOMAIN S \ {Missing} : S[n] = FindInRoot(e, n)
  BY <1>1, <1>6, <1>11, <1>14, <1>20 DEF Recs
<1> HIDE DEF S
<1>23. \A o \in DOMAIN S \ {Missing} : SameChain(R[o], S[o]) /\ S[o].lastBytes = R[o].lastBytes
  <2> TAKE o \in DOMAIN S \ {Missing}
  <2>1. o \in DOMAIN R /\ o # name /\ S[o] = FindInRoot(e, o) /\ R[o] = FindInRoot(d, o)
    BY <1>6, <1>21, <1>22
  <2>2. CASE o = l.name
    BY <1>15, <1>17, <1>18, <2>1, <2>2
  <2>3. CASE o # l.name
    BY <1>15, <2>1, <2>3 DEF SameChain
  <2> QED
    BY <2>2, <2>3
<1>24. Shares(e, S)
  <2>1. \A o \in DOMAIN S : SameChain(Q[o], S[o])
    <3> TAKE o \in DOMAIN S
    <3>1. CASE o = Missing
      BY <1>9, <1>22, <3>1 DEF SameChain
    <3>2. CASE o # Missing
      <4>1. Q[o] = R[o]
        BY <1>9, <1>21, <3>2
      <4> QED
        BY <1>23, <3>2, <4>1
    <3> QED
      BY <3>1, <3>2
  <2>2. Q[name].sctNum = 0
    BY <1>3, <1>9 DEF Emptied, FileEntry
  <2>3. Shares(x, S)
    BY <1>7, <1>8, <1>9, <1>21, <2>1, <2>2, SharesWithout
  <2>4. e.map = x.map /\ e.freeBegin = x.freeBegin /\ e.freeNum = x.freeNum
    BY <1>11, <1>14
  <2> QED
    BY <2>3, <2>4, SharesByMap
<1>25. \A o \in DOMAIN S : Proper(S[o])
  <2> TAKE o \in DOMAIN S
  <2>1. CASE o = Missing
    BY <1>8, <1>22, <2>1
  <2>2. CASE o # Missing
    <3>1. Proper(R[o]) /\ SameChain(R[o], S[o]) /\ S[o].lastBytes = R[o].lastBytes
      BY <1>6, <1>21, <1>23, <2>2
    <3> QED
      BY <3>1 DEF Proper, SameChain
  <2> QED
    BY <2>1, <2>2
<1>26. Sound(e, fds)
  <2>1. Chains(e, fds)
    BY <1>1, <1>2, <1>15, <1>24, <1>25 DEF Chains, S
  <2>2. Caches(e, fds, Name)
    BY <1>1 DEF Caches
  <2> QED
    BY <2>1, <2>2 DEF Sound
<1>27. Now(e0.w \o << y, e >>) = e
  BY <1>8, WrittenTwice
<1>28. disk' = e /\ opened' = fds
  BY <1>1, <1>4, <1>27 DEF d
<1>29. ASSUME NEW o \in DOMAIN R \ {name, Missing} PROVE Same(d, e, R[o])
  <2> DEFINE b == R[o].sctBegin
             j == k \div FE_ITEM_CNT
  <2>1. Shares(d, R) /\ R[Missing] = d.root /\ Missing \in DOMAIN R
    BY <1>5 DEF Owners
  <2>2. Linked(d, b, R[o].sctNum)
    BY <2>1 DEF Shares
  <2>3. j \in 0 .. R[Missing].sctNum - 1
    <3>1. k \in 0 .. RootLen(d) - 1 /\ RootProper(d) /\ d \in Disks
      BY <1>2, <1>11, <1>12, <1>13 DEF m, Directory
    <3> QED
      BY <2>1, <3>1, RootSize
  <2> HIDE DEF j
  <2>4. ASSUME NEW i \in 0 .. R[o].sctNum - 1
        PROVE  /\ FindIndex(e, b, i) = FindIndex(d, b, i)
               /\ e.sct[FindIndex(d, b, i)] = d.sct[FindIndex(d, b, i)]
    <3>1. i \in Nat
      BY <2>2 DEF Linked
    <3>2. FindIndex(x, b, i) = FindIndex(d, b, i)
      BY <1>8, <3>1
    <3>3. FindIndex(e, b, i) = FindIndex(x, b, i)
      BY <1>11, <1>14, <3>1, IndexByMap
    <3>4. /\ FindIndex(d, b, i) \in Sector
          /\ FindIndex(d, b, i) # FindIndex(d, R[Missing].sctBegin, j)
      BY <2>1, <2>3, OwnSectors
    <3>5. t.inSctIdx = FindIndex(d, R[Missing].sctBegin, j)
      BY <1>14, <2>1 DEF j
    <3> QED
      BY <1>14, <3>2, <3>3, <3>4, <3>5
  <2> QED
    BY <2>4 DEF Same
<1>30. ASSUME NEW n \in Name \ {name}
       PROVE  Remains(d, e, FindInRoot(d, n), FindInRoot(e, n))
  <2>1. FindInRoot(d, n) = Missing => FindInRoot(e, n) = Missing
    BY <1>20
  <2>2. ASSUME FindInRoot(d, n) # Missing
        PROVE  /\ FindInRoot(e, n) # Missing /\ SameChain(FindInRoot(d, n), FindInRoot(e, n))
               /\ FindInRoot(e, n).lastBytes = FindInRoot(d, n).lastBytes
               /\ Same(d, e, FindInRoot(d, n))
    <3>1. n \in DOMAIN R \ {name, Missing} /\ R[n] = FindInRoot(d, n)
      BY <1>6, <2>2
    <3>2. n \in DOMAIN S \ {Missing} /\ S[n] = FindInRoot(e, n)
      BY <1>21, <1>22, <3>1
    <3> QED
      BY <1>20, <1>23, <1>29, <2>2, <3>1, <3>2
  <2> QED
    BY <2>1, <2>2 DEF Remains
<1> QED
  BY <1>1, <1>15, <1>26, <1>28, <1>30 DEF d, fds

-----------------------------------------------------------------------------
(* The invariant *)

LEMMA FormattedFree ==
    ASSUME NEW d, d = FSFormat(Blank)
    PROVE  /\ Linked(d, 0, dataSize) /\ Chain(d, 0) = Sector
<1> DEFINE q == [i \in 0 .. dataSize |-> IF i = dataSize THEN End ELSE i]
<1>1. dataSize \in Nat \ {0} /\ Sector = 0 .. dataSize - 1 /\ End \notin Sector
  BY Numbers DEF Sector
<1>2. d.map = [s \in Sector |-> IF s = dataSize - 1 THEN End ELSE s + 1]
  BY DEF FSFormat
<1>3. Lists(d, dataSize, q)
  <2>1. ASSUME NEW i \in 0 .. dataSize - 1
        PROVE  q[i] \in Sector /\ d.map[q[i]] = q[i + 1]
    <3>1. q[i] = i /\ i \in Sector
      BY <1>1
    <3>2. q[i + 1] = IF i = dataSize - 1 THEN End ELSE i + 1
      BY <1>1
    <3> QED
      BY <1>2, <3>1, <3>2
  <2>2. \A i, j \in 0 .. dataSize - 1 : q[i] = q[j] => i = j
    BY <1>1
  <2>3. q[dataSize] = End
    BY <1>1
  <2> QED
    BY <1>1, <2>1, <2>2, <2>3 DEF Lists
<1>4. q[0] = 0
  BY <1>1
<1>5. Linked(d, 0, dataSize) /\ \A i \in 0 .. dataSize : FindIndex(d, 0, i) = q[i]
  <2> HIDE DEF q
  <2> QED
    BY <1>3, <1>4, LinkedBy
<1>6. Chain(d, 0) = {FindIndex(d, 0, i) : i \in 0 .. dataSize - 1}
  BY <1>5, ChainLength
<1>7. \A i \in 0 .. dataSize - 1 : FindIndex(d, 0, i) = i
  BY <1>1, <1>5
<1>8. Chain(d, 0) = Sector
  <2>1. ASSUME NEW s \in Sector PROVE s \in Chain(d, 0)
    <3>1. s \in 0 .. dataSize - 1 /\ FindIndex(d, 0, s) = s
      BY <1>1, <1>7
    <3> QED
      BY <1>6, <3>1
  <2>2. Chain(d, 0) \subseteq Sector
    BY <1>5, ChainLength
  <2> QED
    BY <2>1, <2>2
<1> QED
  BY <1>5, <1>8

LEMMA FormattedSound ==
    ASSUME NEW d, d = FSFormat(Blank), NEW fds, fds = [n \in Name |-> Closed]
    PROVE  Sound(d, fds)
<1> DEFINE R == Recs(d, fds)
<1>1. dataSize \in Nat \ {0} /\ Sector = 0 .. dataSize - 1 /\ End \notin Sector /\ 0 \in Sector
  BY Numbers DEF Sector
<1>2. SECT_SIZE \in Nat \ {0} /\ FE_ITEM_CNT \in Nat \ {0} /\ SECT_SIZE = FE_BYTES * FE_ITEM_CNT
  BY Sizes
<1>3. /\ d.freeBegin = 0 /\ d.freeNum = dataSize /\ d.root = NewChain
      /\ d.map = [s \in Sector |-> IF s = dataSize - 1 THEN End ELSE s + 1]
      /\ d.sct = [s \in Sector |-> Blank]
      /\ d = [freeBegin |-> d.freeBegin, freeNum |-> d.freeNum, root |-> d.root,
              map |-> d.map, sct |-> d.sct]
  BY DEF FSFormat
<1>4. NewChain \in Chained /\ NewChain.sctBegin = End /\ NewChain.sctNum = 0
      /\ NewChain.lastBytes = SECT_SIZE
  BY <1>1, <1>2 DEF NewChain, Chained
<1>5. d \in Disks
  <2>1. Blank \in DataSector
    BY NameAssumption DEF Blank, DataSector
  <2>2. d.map \in [Sector -> Sector \union {End}]
    <3>1. \A s \in Sector : s # dataSize - 1 => s + 1 \in Sector
      BY <1>1
    <3> QED
      BY <1>3, <3>1
  <2>3. d.sct \in [Sector -> EntrySector \union DataSector]
    BY <1>3, <2>1
  <2>4. d.freeBegin \in Sector \union {End} /\ d.freeNum \in 0 .. dataSize
    BY <1>1, <1>3
  <2> QED
    BY <1>3, <1>4, <2>2, <2>3, <2>4 DEF Disks, DiskState
<1>6. Linked(d, End, 0)
  <2>1. FindIndex(d, End, 0) = End
    BY IndexZero
  <2> QED
    BY <2>1 DEF Linked
<1>7. Chain(d, End) = {}
  <2>1. Chain(d, End) = {FindIndex(d, End, i) : i \in 0 .. 0 - 1}
    BY <1>6, ChainLength
  <2> QED
    BY <2>1
<1>8. Proper(d.root)
  BY <1>3, <1>4 DEF Proper
<1>9. RootProper(d)
  <2>1. SECT_SIZE = FE_BYTES * (SECT_SIZE \div FE_BYTES)
    BY <1>2 DEF FE_ITEM_CNT
  <2> QED
    BY <1>2, <1>3, <1>4, <1>6, <1>8, <2>1 DEF RootProper
<1>10. RootLen(d) = 0
  BY <1>3, <1>4, <1>5, <1>9, RootSize
<1>11. Directory(d)
  <2>1. 0 .. RootLen(d) - 1 = {}
    BY <1>10
  <2> QED
    BY <1>5, <1>9, <2>1 DEF Directory, NamedOnce
<1>12. \A n : FindInRoot(d, n) = Missing
  BY <1>3, <1>4 DEF FindInRoot, Found
<1>13. DOMAIN R = {Missing} /\ R[Missing] = d.root
  BY <1>12 DEF Recs
<1>14. Shares(d, R)
  <2>1. Linked(d, 0, dataSize) /\ Chain(d, 0) = Sector
    BY FormattedFree
  <2> HIDE DEF R
  <2> QED
    BY <1>3, <1>4, <1>6, <1>7, <1>13, <2>1 DEF Shares
<1>15. fds \in Descriptors /\ \A n \in Name : fds[n] = Closed
  BY DEF Descriptors
<1>16. \A o \in DOMAIN R : Proper(R[o])
  <2> HIDE DEF R
  <2> QED
    BY <1>8, <1>13
<1> QED
  BY <1>11, <1>14, <1>15, <1>16 DEF Sound, Chains, Caches

\* No operation is cut off, and the disk and the descriptors are sound.
Quiet == failed = Running /\ Sound(disk, opened)

LEMMA QuietInit == FSInit => Quiet
<1> SUFFICES ASSUME FSInit PROVE Quiet
  OBVIOUS
<1>1. disk = FSFormat(Blank) /\ opened = [n \in Name |-> Closed] /\ failed = Running
  BY DEF FSInit
<1> QED
  BY <1>1, FormattedSound DEF Quiet

LEMMA QuietStep ==
    ASSUME Disciplined, ~PowerFails, Quiet, [FSNext]_fsVars
    PROVE  Quiet'
<1>1. failed = Running /\ Sound(disk, opened)
  BY DEF Quiet
<1> SUFFICES ASSUME FSNext PROVE Sound(disk', opened') /\ UNCHANGED failed
  BY <1>1 DEF Quiet, fsVars, Running
<1>2. FSOperation
  BY <1>1 DEF FSNext, Restart
<1>3. ASSUME NEW n \in Name, FCreate(n) PROVE Sound(disk', opened') /\ UNCHANGED failed
  BY <1>1, <1>3, CreateSound
<1>4. ASSUME NEW n \in Name, FDelete(n) PROVE Sound(disk', opened') /\ UNCHANGED failed
  BY <1>1, <1>4, DeleteSound
<1>5. ASSUME NEW n \in Name, FOpen(n) PROVE Sound(disk', opened') /\ UNCHANGED failed
  BY <1>1, <1>5, OpenSound
<1>6. ASSUME NEW n \in Name, NEW m \in Name, FRename(n, m)
      PROVE  Sound(disk', opened') /\ UNCHANGED failed
  BY <1>1, <1>6, RenameSound
<1>7. ASSUME NEW n \in Open, FClose(n) PROVE Sound(disk', opened') /\ UNCHANGED failed
  BY <1>1, <1>7, CloseSound
<1>8. ASSUME NEW n \in Open, FFlush(n) PROVE Sound(disk', opened') /\ UNCHANGED failed
  BY <1>1, <1>8, DescriptorsSound
<1>9. ASSUME NEW n \in Open, NEW l \in Lengths, FErase(n, l) \/ FRead(n, l)
      PROVE  Sound(disk', opened') /\ UNCHANGED failed
  BY <1>1, <1>9, DescriptorsSound
<1>10. ASSUME NEW n \in Open, NEW p \in Positions, FSeek(n, p)
       PROVE  Sound(disk', opened') /\ UNCHANGED failed
  BY <1>1, <1>10, DescriptorsSound
<1>11. ASSUME NEW n \in Open, NEW l \in Lengths, NEW b \in Byte, FWrite(n, [i \in 1 .. l |-> b])
       PROVE  Sound(disk', opened') /\ UNCHANGED failed
  <2>1. l \in Nat
    BY OperationAssumption
  <2>2. [i \in 1 .. l |-> b] \in Seq(Byte)
    BY <2>1
  <2> QED
    BY <1>1, <1>11, <2>2, DescriptorsSound
<1> QED
  BY <1>2, <1>3, <1>4, <1>5, <1>6, <1>7, <1>8, <1>9, <1>10, <1>11 DEF FSOperation

LEMMA AlwaysQuiet ==
    ASSUME Disciplined, ~PowerFails
    PROVE  FSSpec => []Quiet
<1>1. Quiet /\ [FSNext]_fsVars => Quiet'
  BY QuietStep
<1> QED
  BY <1>1, QuietInit, PTL DEF FSSpec

-----------------------------------------------------------------------------
(* What is always so while the power does not fail *)

LEMMA QuietTypes == Quiet => FSTypeOK
<1> SUFFICES ASSUME Quiet PROVE FSTypeOK
  OBVIOUS
<1>1. Chains(disk, opened) /\ failed = Running
  BY DEF Quiet, Sound
<1>2. disk \in DiskState(EntrySector \union DataSector) /\ opened \in Descriptors
  BY <1>1 DEF Chains, Directory, Disks
<1>3. failed \in [op : Operation, names : SUBSET Name]
  BY <1>1 DEF Running, Operation
<1> QED
  BY <1>2, <1>3 DEF FSTypeOK, Descriptors

\* What the records say of a file is what SectorsPartition says.
LEMMA OwnerOf ==
    ASSUME Chains(disk, opened), NEW R, R = Recs(disk, opened)
    PROVE  /\ Owners(disk, opened, R) /\ DOMAIN R = {Missing} \union Files
           /\ \A n \in Files : R[n] = EntryOf(n) /\ n # Missing
<1>1. Owners(disk, opened, R)
  BY RecsAre
<1>2. DOMAIN R = {Missing} \union Files
  BY <1>1 DEF Owners, Files
<1>3. ASSUME NEW n \in Files PROVE R[n] = EntryOf(n) /\ n # Missing
  <2>1. n \in Name /\ n # Missing /\ n \in DOMAIN R
    BY <1>1, <1>2 DEF Files, Owners
  <2>2. R[n] = IF opened[n] # Closed THEN opened[n].fe ELSE FindInRoot(disk, n)
    BY <1>1, <2>1 DEF Owners
  <2> QED
    BY <2>1, <2>2 DEF EntryOf, Open
<1> QED
  BY <1>1, <1>2, <1>3

LEMMA QuietPartition == Quiet => SectorsPartition
<1> SUFFICES ASSUME Quiet PROVE SectorsPartition
  OBVIOUS
<1> DEFINE d == disk
           free == Chain(d, d.freeBegin)
           root == Chain(d, d.root.sctBegin)
           R == Recs(d, opened)
<1>1. Chains(d, opened)
  BY DEF Quiet, Sound
<1>2. Owners(d, opened, R) /\ DOMAIN R = {Missing} \union Files
      /\ \A n \in Files : R[n] = EntryOf(n) /\ n # Missing
  BY <1>1, OwnerOf
<1>3. Shares(d, R) /\ R[Missing] = d.root
  BY <1>2 DEF Owners
<1> HIDE DEF R
<1>4. \A n \in Files : n \in DOMAIN R /\ Missing \in DOMAIN R /\ Owned(n) = Chain(d, R[n].sctBegin)
  BY <1>2 DEF Owned
<1>5. Cardinality(free) = d.freeNum /\ free \subseteq Sector
  BY <1>3, ChainLength DEF Shares
<1>6. Missing \in DOMAIN R /\ root = Chain(d, R[Missing].sctBegin)
  BY <1>2, <1>3
<1>7. Cardinality(root) = d.root.sctNum /\ root \subseteq Sector
  <2>1. Linked(d, d.root.sctBegin, d.root.sctNum)
    BY <1>3, <1>6 DEF Shares
  <2> QED
    BY <2>1, ChainLength
<1>8. free \intersect root = {}
  BY <1>3, <1>6 DEF Shares
<1>9. ASSUME NEW n \in Files
      PROVE  /\ Cardinality(Owned(n)) = EntryOf(n).sctNum /\ Owned(n) \subseteq Sector
             /\ Owned(n) \intersect (free \union root) = {}
             /\ \A m \in Files \ {n} : Owned(n) \intersect Owned(m) = {}
  <2>1. Linked(d, R[n].sctBegin, R[n].sctNum)
    BY <1>3, <1>4 DEF Shares
  <2>2. Cardinality(Owned(n)) = R[n].sctNum /\ Owned(n) \subseteq Sector
    BY <1>4, <2>1, ChainLength
  <2>3. Owned(n) \intersect free = {}
    BY <1>3, <1>4 DEF Shares
  <2>4. Owned(n) \intersect root = {}
    BY <1>2, <1>3, <1>4, <1>6 DEF Shares
  <2>5. \A m \in Files \ {n} : Owned(n) \intersect Owned(m) = {}
    BY <1>3, <1>4 DEF Shares
  <2> QED
    BY <1>2, <2>2, <2>3, <2>4, <2>5
<1>10. free \union root \union UNION {Owned(n) : n \in Files} = Sector
  <2>1. ASSUME NEW s \in Sector
        PROVE  s \in free \/ s \in root \/ \E n \in Files : s \in Owned(n)
    <3>1. s \in free \/ \E o \in DOMAIN R : s \in Chain(d, R[o].sctBegin)
      BY <1>3 DEF Shares
    <3>2. CASE s \notin free
      <4>1. PICK o \in DOMAIN R : s \in Chain(d, R[o].sctBegin)
        BY <3>1, <3>2
      <4>2. CASE o = Missing
        BY <1>6, <4>1, <4>2
      <4>3. CASE o # Missing
        BY <1>2, <1>4, <4>1, <4>3
      <4> QED
        BY <4>2, <4>3
    <3> QED
      BY <3>2
  <2>2. UNION {Owned(n) : n \in Files} \subseteq Sector
    BY <1>9
  <2> HIDE DEF free, root
  <2> QED
    BY <1>5, <1>7, <2>1, <2>2
<1> QED
  BY <1>5, <1>7, <1>8, <1>9, <1>10 DEF SectorsPartition

LEMMA QuietInPlace == Quiet => EntriesInPlace
<1> SUFFICES ASSUME Quiet PROVE EntriesInPlace
  OBVIOUS
<1> DEFINE d == disk
<1>1. Directory(d) /\ \A n \in Name : opened[n] # Closed => Named(d, n, opened[n])
  BY DEF Quiet, Sound, Chains
<1>2. ASSUME NEW k \in 0 .. RootLen(d) - 1
      PROVE  /\ RootEntry(d, k) # Missing
             /\ RootEntry(d, k).inSctIdx = FindIndex(d, d.root.sctBegin, k \div FE_ITEM_CNT)
             /\ RootEntry(d, k).inSctOff = k % FE_ITEM_CNT
  <2>1. InPlace(d, k)
    BY <1>1 DEF Directory
  <2> QED
    BY <2>1, NameAssumption DEF InPlace, At
<1>3. ASSUME NEW n \in Files PROVE Cardinality(Found(d, n)) = 1
  <2>1. PICK k \in 0 .. RootLen(d) - 1 : Found(d, n) = {k}
    BY <1>1, Entry DEF Files
  <2> QED
    BY <2>1, FS_Singleton
<1>4. \A n \in Open \intersect Files :
          /\ opened[n].fe.inSctIdx = FindInRoot(d, n).inSctIdx
          /\ opened[n].fe.inSctOff = FindInRoot(d, n).inSctOff
  BY <1>1 DEF Open, Named, SamePlace
<1> QED
  BY <1>2, <1>3, <1>4 DEF EntriesInPlace

LEMMA QuietFresh == Quiet => CacheFresh
<1> SUFFICES ASSUME Quiet PROVE CacheFresh
  OBVIOUS
<1>1. \A n \in Name : opened[n] # Closed => CacheOK(disk, opened[n])
  BY DEF Quiet, Sound, Caches
<1> QED
  BY <1>1 DEF CacheFresh, CacheOK, Open

-----------------------------------------------------------------------------
(* Power failures. Sectors may then be lost, chains be longer than their   *)
(* records say and entries stay behind the end of the directory; what is   *)
(* kept is that the chains of B, by the place of their entry, are apart.   *)

Owner   == (Sector \union {End}) \X Slot
TheRoot == << End, 0 >>

LEMMA OwnerIs ==
    /\ TheRoot \in Owner
    /\ \A s \in Sector, i \in Slot : << s, i >> \in Owner /\ << s, i >> # TheRoot
  BY Sizes, Numbers DEF Owner, TheRoot, Slot

Claims(d, B) ==
    /\ B \in [Owner -> Sector \union {End}]
    /\ Linked(d, d.freeBegin, d.freeNum)
    /\ \A o \in Owner : \E n \in Nat : Linked(d, B[o], n)
    /\ \A o \in Owner : Chain(d, B[o]) \intersect Chain(d, d.freeBegin) = {}
    /\ \A o, p \in Owner : o # p => Chain(d, B[o]) \intersect Chain(d, B[p]) = {}

\* A record has the whole chain that begins with b, the first part of it, or nothing.
Fits(d, b, fe) ==
    /\ fe.sctBegin \in {End, b} /\ (fe.sctBegin = End <=> fe.sctNum = 0)
    /\ \A i \in 0 .. fe.sctNum - 1 : FindIndex(d, fe.sctBegin, i) # End

RootShape(d) ==
    /\ Proper(d.root) /\ d.root.lastBytes > 0
    /\ d.root.lastBytes = FE_BYTES * (d.root.lastBytes \div FE_BYTES)

RootHeld(d, B) ==
    RootShape(d) /\ d.root.sctBegin = B[TheRoot] /\ Fits(d, B[TheRoot], d.root)

\* A sector with an entry is not used for anything but the directory.
Reserved(d, B, s) ==
    /\ s \notin Chain(d, d.freeBegin)
    /\ \A o \in Owner \ {TheRoot} : s \notin Chain(d, B[o])

EntryHeld(d, B, s, i) ==
    LET fe == EntriesIn(d.sct[s])[i]
    IN  fe # Missing =>
          /\ Reserved(d, B, s) /\ fe.inSctIdx = s /\ fe.inSctOff = i
          /\ Fits(d, B[<< s, i >>], fe)

\* A place that FindFileEntry looks at.
Seen(d, s, i) == \E k \in 0 .. RootLen(d) - 1 : At(d, k, s, i)

\* The file n is found at the place (s, i).
Placed(d, n, s, i) ==
    /\ s \in Sector /\ i \in Slot /\ Seen(d, s, i)
    /\ EntriesIn(d.sct[s])[i] # Missing /\ EntriesIn(d.sct[s])[i].name = n

FileHeld(d, B, n, fd) ==
    LET s == fd.fe.inSctIdx
        i == fd.fe.inSctOff
    IN  /\ fd.fe.name = n /\ Placed(d, n, s, i)
        /\ fd.fe.sctBegin = B[<< s, i >>] /\ Fits(d, B[<< s, i >>], fd.fe)
        /\ Started(fd)

Held(d, fds, B) ==
    /\ d \in Disks /\ fds \in Descriptors /\ Claims(d, B) /\ RootHeld(d, B)
    /\ \A s \in Sector, i \in Slot : EntryHeld(d, B, s, i)
    /\ \A n \in Name : fds[n] # Closed => FileHeld(d, B, n, fds[n])

\* The chains of B keep their sectors, and at most get more of the free ones.
Kept(d, x, B) ==
    /\ x \in Disks /\ x.sct = d.sct /\ x.root = d.root /\ Claims(x, B)
    /\ Chain(x, x.freeBegin) \subseteq Chain(d, d.freeBegin)
    /\ \A o \in Owner : Chain(x, B[o]) \subseteq Chain(d, B[o]) \union Chain(d, d.freeBegin)
    /\ \A o \in Owner : \A i \in Nat : FindIndex(d, B[o], i) # End =>
          FindIndex(x, B[o], i) = FindIndex(d, B[o], i)

LEMMA KeptSelf ==
    ASSUME NEW d \in Disks, NEW B, Claims(d, B)
    PROVE  Kept(d, d, B)
  BY DEF Kept

LEMMA KeptTwice ==
    ASSUME NEW d, NEW x, NEW y, NEW B, Kept(d, x, B), Kept(x, y, B)
    PROVE  Kept(d, y, B)
<1>1. /\ y \in Disks /\ y.sct = d.sct /\ y.root = d.root /\ Claims(y, B)
      /\ Chain(y, y.freeBegin) \subseteq Chain(d, d.freeBegin)
  BY DEF Kept
<1>2. \A o \in Owner : Chain(y, B[o]) \subseteq Chain(d, B[o]) \union Chain(d, d.freeBegin)
  <2>1. Chain(x, x.freeBegin) \subseteq Chain(d, d.freeBegin)
    BY DEF Kept
  <2>2. \A o \in Owner : /\ Chain(x, B[o]) \subseteq Chain(d, B[o]) \union Chain(d, d.freeBegin)
                         /\ Chain(y, B[o]) \subseteq Chain(x, B[o]) \union Chain(x, x.freeBegin)
    BY DEF Kept
  <2> QED
    BY <2>1, <2>2
<1>3. \A o \in Owner : \A i \in Nat : FindIndex(d, B[o], i) # End =>
          FindIndex(y, B[o], i) = FindIndex(d, B[o], i)
  <2>1. \A o \in Owner : \A i \in Nat :
          /\ FindIndex(d, B[o], i) # End => FindIndex(x, B[o], i) = FindIndex(d, B[o], i)
          /\ FindIndex(x, B[o], i) # End => FindIndex(y, B[o], i) = FindIndex(x, B[o], i)
    BY DEF Kept
  <2> QED
    BY <2>1
<1> QED
  BY <1>1, <1>2, <1>3 DEF Kept

\* Records still fit.
LEMMA FitsKept ==
    ASSUME NEW d, NEW x, NEW B, Kept(d, x, B), NEW o \in Owner, NEW b, b = B[o],
           NEW fe, fe.sctNum \in Nat, Fits(d, b, fe)
    PROVE  Fits(x, b, fe)
<1>1. fe.sctBegin \in {End, b} /\ (fe.sctBegin = End <=> fe.sctNum = 0)
  BY DEF Fits
<1>2. ASSUME NEW i \in 0 .. fe.sctNum - 1
      PROVE  FindIndex(x, fe.sctBegin, i) # End
  <2>1. fe.sctBegin = B[o] /\ i \in Nat
    BY <1>1, <1>2
  <2>2. FindIndex(d, B[o], i) # End
    BY <2>1 DEF Fits
  <2> QED
    BY <2>1, <2>2 DEF Kept
<1> QED
  BY <1>1, <1>2 DEF Fits

LEMMA RootSized ==
    ASSUME NEW d \in Disks, RootShape(d)
    PROVE  /\ d.root.sctNum \in Nat /\ d.root.lastBytes \div FE_BYTES \in 1 .. FE_ITEM_CNT
           /\ RootLen(d) = FE_ITEM_CNT * (d.root.sctNum - 1) + d.root.lastBytes \div FE_BYTES
           /\ RootLen(d) \in Nat
           /\ d.root.sctNum = 0 => RootLen(d) = 0
           /\ \A k \in 0 .. RootLen(d) - 1 :
                k \in Nat /\ k \div FE_ITEM_CNT \in 0 .. d.root.sctNum - 1
<1> DEFINE n == d.root.sctNum
           b == d.root.lastBytes
           l == b \div FE_BYTES
           c == FE_ITEM_CNT
           f == FE_BYTES
<1>1. /\ n \in Nat /\ b \in 0 .. SECT_SIZE /\ b > 0 /\ b = f * l
      /\ (n = 0 => b = SECT_SIZE)
  BY DiskFields, Numbers DEF RootShape, Proper, Chained
<1>2. c \in Nat \ {0} /\ f \in Nat \ {0} /\ SECT_SIZE = f * c
  BY Sizes
<1>3. l \in Nat
  BY <1>1, <1>2
<1>4. RootLen(d) = (n - 1) * c + l
  BY DEF RootLen
<1>5. n = 0 => l = c
  BY <1>1, <1>2, WholeEntries
<1> HIDE DEF n, b, l, c, f
<1>6. l >= 1
  <2> SUFFICES ASSUME l = 0 PROVE FALSE
    BY <1>3
  <2> QED
    BY <1>1, <1>2
<1>7. l <= c
  <2> SUFFICES ASSUME l >= c + 1 PROVE FALSE
    BY <1>2, <1>3
  <2>1. f * l >= f * (c + 1)
    BY <1>2, <1>3
  <2>2. f * (c + 1) = f * c + f
    BY <1>2
  <2> QED
    BY <1>1, <1>2, <2>1, <2>2
<1>8. (n - 1) * c = c * (n - 1) /\ c * (n - 1) = c * n - c /\ c * n \in Nat
  BY <1>1, <1>2
<1>9. n = 0 => RootLen(d) = 0
  BY <1>2, <1>3, <1>4, <1>5, <1>8
<1>10. n # 0 => (n - 1) * c \in Nat
  BY <1>1, <1>2
<1>11. RootLen(d) \in Nat
  BY <1>1, <1>3, <1>4, <1>9, <1>10
<1>12. ASSUME NEW k \in 0 .. RootLen(d) - 1
       PROVE  k \in Nat /\ k \div c \in 0 .. n - 1
  <2> DEFINE q == k \div c
             r == k % c
  <2>1. k \in Nat
    BY <1>11
  <2>2. q \in Nat /\ r \in 0 .. c - 1 /\ k = c * q + r
    BY <2>1, Places DEF c, Slot
  <2>3. k < c * n
    BY <1>2, <1>3, <1>4, <1>7, <1>8, <1>11, <2>1
  <2> HIDE DEF q, r
  <2>4. q < n
    <3> SUFFICES ASSUME q >= n PROVE FALSE
      BY <1>1, <2>2
    <3>1. c * q >= c * n
      BY <1>1, <1>2, <2>2
    <3> QED
      BY <1>1, <1>2, <1>8, <2>1, <2>2, <2>3, <3>1
  <2> QED
    BY <1>1, <2>1, <2>2, <2>4 DEF q
<1> QED
  BY <1>1, <1>3, <1>4, <1>6, <1>7, <1>8, <1>9, <1>11, <1>12 DEF n, b, l, c, f

LEMMA RootFits ==
    ASSUME NEW d \in Disks, NEW B, RootHeld(d, B)
    PROVE  /\ d.root \in Chained /\ d.root.sctNum \in Nat /\ RootLen(d) \in Nat
           /\ \A k \in 0 .. RootLen(d) - 1 :
                /\ k \in Nat /\ k \div FE_ITEM_CNT \in 0 .. d.root.sctNum - 1
                /\ FindIndex(d, d.root.sctBegin, k \div FE_ITEM_CNT) \in Sector
<1>1. d.root \in Chained /\ d.root.sctNum \in Nat /\ d.root.sctBegin \in Sector \union {End}
  BY DiskFields, Numbers DEF Chained
<1>2. /\ RootLen(d) \in Nat
      /\ \A k \in 0 .. RootLen(d) - 1 : k \in Nat /\ k \div FE_ITEM_CNT \in 0 .. d.root.sctNum - 1
  BY RootSized DEF RootHeld
<1>3. ASSUME NEW k \in 0 .. RootLen(d) - 1
      PROVE  FindIndex(d, d.root.sctBegin, k \div FE_ITEM_CNT) \in Sector
  <2> DEFINE j == k \div FE_ITEM_CNT
  <2>1. j \in 0 .. d.root.sctNum - 1 /\ j \in Nat
    BY <1>1, <1>2
  <2> HIDE DEF j
  <2>2. FindIndex(d, d.root.sctBegin, j) # End
    BY <2>1 DEF RootHeld, Fits
  <2>3. FindIndex(d, d.root.sctBegin, j) \in Sector \union {End}
    BY <1>1, <2>1, IndexTyped
  <2> QED
    BY <2>2, <2>3 DEF j
<1> QED
  BY <1>1, <1>2, <1>3

\* The directory is found where it was.
LEMMA SeenKept ==
    ASSUME NEW d \in Disks, NEW B, RootHeld(d, B), NEW x, Kept(d, x, B)
    PROVE  /\ RootHeld(x, B) /\ RootLen(x) = RootLen(d)
           /\ \A s, i : Seen(x, s, i) <=> Seen(d, s, i)
           /\ \A k \in 0 .. RootLen(d) - 1 : RootEntry(x, k) = RootEntry(d, k)
<1>1. x.root = d.root /\ RootLen(x) = RootLen(d) /\ x.sct = d.sct
  BY DEF Kept, RootLen
<1>2. RootHeld(x, B)
  <2>1. d.root.sctNum \in Nat /\ TheRoot \in Owner
    BY RootFits, OwnerIs
  <2> DEFINE b == B[TheRoot]
             fe == d.root
  <2>2. Fits(d, b, fe) /\ b = B[TheRoot] /\ fe.sctNum \in Nat
    BY <2>1 DEF RootHeld
  <2> HIDE DEF b, fe
  <2>3. Fits(x, b, fe)
    BY <2>1, <2>2, FitsKept
  <2> QED
    BY <1>1, <2>3 DEF RootHeld, RootShape, b, fe
<1>3. ASSUME NEW k \in 0 .. RootLen(d) - 1
      PROVE  FindIndex(x, d.root.sctBegin, k \div FE_ITEM_CNT)
               = FindIndex(d, d.root.sctBegin, k \div FE_ITEM_CNT)
  <2> DEFINE j == k \div FE_ITEM_CNT
  <2>1. j \in Nat /\ FindIndex(d, d.root.sctBegin, j) # End
    BY RootFits, Numbers
  <2> HIDE DEF j
  <2>2. d.root.sctBegin = B[TheRoot] /\ TheRoot \in Owner
    BY OwnerIs DEF RootHeld
  <2>3. FindIndex(x, d.root.sctBegin, j) = FindIndex(d, d.root.sctBegin, j)
    BY <2>1, <2>2 DEF Kept
  <2> QED
    BY <2>3 DEF j
<1>4. ASSUME NEW s, NEW i PROVE Seen(x, s, i) <=> Seen(d, s, i)
  BY <1>1, <1>3 DEF Seen, At
<1>5. ASSUME NEW k \in 0 .. RootLen(d) - 1 PROVE RootEntry(x, k) = RootEntry(d, k)
  BY <1>1, <1>3, <1>5 DEF RootEntry, EntryAt
<1> QED
  BY <1>1, <1>2, <1>4, <1>5

LEMMA ReservedKept ==
    ASSUME NEW d, NEW x, NEW B, Kept(d, x, B), NEW s, Reserved(d, B, s)
    PROVE  Reserved(x, B, s)
  BY DEF Kept, Reserved

LEMMA EntryTyped ==
    ASSUME NEW d \in Disks, NEW s \in Sector, NEW i \in Slot
    PROVE  EntriesIn(d.sct[s])[i] \in FileEntry \union {Missing}
<1>1. d.sct[s] \in EntrySector \union DataSector
  BY DiskFields
<1> QED
  BY <1>1, EntriesKind

LEMMA EntryFields ==
    ASSUME NEW fe \in FileEntry
    PROVE  /\ fe \in Records /\ fe.name \in Name /\ fe.sctNum \in Nat
           /\ fe.sctNum \in 0 .. dataSize /\ fe.lastBytes \in 0 .. SECT_SIZE
           /\ fe.sctBegin \in Sector \union {End}
           /\ fe.inSctIdx \in Sector /\ fe.inSctOff \in Slot
           /\ << fe.inSctIdx, fe.inSctOff >> \in Owner
           /\ << fe.inSctIdx, fe.inSctOff >> # TheRoot
<1>1. /\ fe.name \in Name /\ fe.sctNum \in 0 .. dataSize /\ fe.lastBytes \in 0 .. SECT_SIZE
      /\ fe.sctBegin \in Sector \union {End} /\ fe.inSctIdx \in Sector /\ fe.inSctOff \in Slot
  BY DEF FileEntry
<1>2. fe \in Records /\ fe.sctNum \in Nat
  BY <1>1, Numbers DEF Records
<1> QED
  BY <1>1, <1>2, OwnerIs, Zenon

LEMMA DescFields ==
    ASSUME NEW fds \in Descriptors, NEW n \in Name, fds[n] # Closed
    PROVE  fds[n] \in FileDesc /\ fds[n].fe \in FileEntry
  BY DEF Descriptors, FileDesc

LEMMA FileKept ==
    ASSUME NEW d \in Disks, NEW B, RootHeld(d, B), NEW x, Kept(d, x, B), NEW n, NEW fd,
           fd.fe \in FileEntry, FileHeld(d, B, n, fd)
    PROVE  FileHeld(x, B, n, fd)
<1> DEFINE s == fd.fe.inSctIdx
           i == fd.fe.inSctOff
           b == B[<< s, i >>]
           fe == fd.fe
<1>1. /\ fe.name = n /\ Placed(d, n, s, i) /\ fe.sctBegin = b /\ Fits(d, b, fe) /\ Started(fd)
  BY DEF FileHeld
<1>2. fe.sctNum \in Nat /\ << s, i >> \in Owner
  BY EntryFields
<1>3. Fits(x, b, fe)
  <2> DEFINE o == << s, i >>
  <2>1. o \in Owner /\ b = B[o]
    BY <1>2
  <2> HIDE DEF o, b, fe
  <2> QED
    BY <1>1, <1>2, <2>1, FitsKept
<1>4. Placed(x, n, s, i)
  <2>1. Seen(x, s, i) <=> Seen(d, s, i)
    BY SeenKept
  <2>2. x.sct = d.sct
    BY DEF Kept
  <2> QED
    BY <1>1, <2>1, <2>2 DEF Placed
<1> QED
  BY <1>1, <1>3, <1>4 DEF FileHeld

LEMMA HeldKept ==
    ASSUME NEW d, NEW fds, NEW B, Held(d, fds, B), NEW x, Kept(d, x, B)
    PROVE  Held(x, fds, B)
<1>1. /\ d \in Disks /\ fds \in Descriptors /\ RootHeld(d, B)
      /\ x \in Disks /\ Claims(x, B) /\ x.sct = d.sct
  BY DEF Held, Kept
<1>2. RootHeld(x, B)
  BY <1>1, SeenKept
<1>3. ASSUME NEW s \in Sector, NEW i \in Slot PROVE EntryHeld(x, B, s, i)
  <2> DEFINE fe == EntriesIn(d.sct[s])[i]
             o == << s, i >>
             b == B[o]
  <2>1. fe \in FileEntry \union {Missing} /\ o \in Owner
    BY <1>1, EntryTyped, OwnerIs
  <2>2. fe # Missing => /\ Reserved(d, B, s) /\ fe.inSctIdx = s /\ fe.inSctOff = i
                        /\ Fits(d, b, fe)
    BY DEF Held, EntryHeld
  <2>3. b = B[o]
    OBVIOUS
  <2>4. EntryHeld(x, B, s, i) <=>
          (fe # Missing => /\ Reserved(x, B, s) /\ fe.inSctIdx = s /\ fe.inSctOff = i
                           /\ Fits(x, b, fe))
    BY <1>1 DEF EntryHeld
  <2> HIDE DEF fe, o, b
  <2>5. fe # Missing => fe \in FileEntry /\ fe.sctNum \in Nat
    BY <2>1, EntryFields
  <2>6. fe # Missing => Fits(x, b, fe)
    BY <2>1, <2>2, <2>3, <2>5, FitsKept
  <2>7. fe # Missing => Reserved(x, B, s)
    BY <2>2, ReservedKept
  <2> QED
    BY <2>2, <2>4, <2>6, <2>7
<1>4. ASSUME NEW n \in Name, fds[n] # Closed PROVE FileHeld(x, B, n, fds[n])
  <2>1. fds[n].fe \in FileEntry /\ FileHeld(d, B, n, fds[n])
    BY <1>1, <1>4, DescFields DEF Held
  <2> QED
    BY <1>1, <2>1, FileKept
<1> QED
  BY <1>1, <1>2, <1>3, <1>4 DEF Held

-----------------------------------------------------------------------------
(* What every disk of a history satisfies: to be in X. *)

Past(w, X) == History(w) /\ \A i \in 1 .. Len(w) : w[i] \in X

LEMMA PastNow ==
    ASSUME NEW w, NEW X, Past(w, X)
    PROVE  Now(w) \in X
<1>1. PICK S : w \in Seq(S) /\ w # << >>
  BY DEF Past, History
<1>2. Len(w) \in 1 .. Len(w)
  BY <1>1
<1> QED
  BY <1>2 DEF Past, Now

LEMMA PastOne ==
    ASSUME NEW X, NEW d \in X
    PROVE  Past(<< d >>, X) /\ Now(<< d >>) = d
<1>1. Len(<< d >>) = 1 /\ << d >>[1] = d
  OBVIOUS
<1> QED
  BY <1>1, Begun DEF Past

LEMMA PastWrite ==
    ASSUME NEW w, NEW X, Past(w, X), NEW d \in X
    PROVE  Past(Write(w, d), X) /\ Now(Write(w, d)) = d
<1>1. PICK S : w \in Seq(S)
  BY DEF Past, History
<1>2. w \in Seq(S \union {d}) /\ d \in S \union {d}
  BY <1>1
<1>3. Len(Append(w, d)) = Len(w) + 1 /\ Len(w) \in Nat
  BY <1>2
<1>4. \A i \in 1 .. Len(w) + 1 : Append(w, d)[i] = IF i = Len(w) + 1 THEN d ELSE w[i]
  BY <1>2
<1>5. \A i \in 1 .. Len(w) + 1 : Append(w, d)[i] \in X
  <2> TAKE i \in 1 .. Len(w) + 1
  <2>1. CASE i = Len(w) + 1
    BY <1>4, <2>1
  <2>2. CASE i # Len(w) + 1
    <3>1. i \in 1 .. Len(w)
      BY <1>3, <2>2
    <3> QED
      BY <1>4, <2>2, <3>1 DEF Past
  <2> QED
    BY <2>1, <2>2
<1> QED
  BY <1>3, <1>5, Written DEF Past, Write

LEMMA PastTwice ==
    ASSUME NEW w, NEW X, Past(w, X), NEW d \in X, NEW e \in X
    PROVE  Past(w \o << d, e >>, X) /\ Now(w \o << d, e >>) = e
<1>1. PICK S : w \in Seq(S)
  BY DEF Past, History
<1> DEFINE T == S \union {d, e}
<1>2. w \in Seq(T) /\ << d, e >> \in Seq(T)
  BY <1>1
<1>3. Len(w \o << d, e >>) = Len(w) + 2 /\ Len(w) \in Nat
  BY <1>2
<1>4. \A i \in 1 .. Len(w) + 2 :
         (w \o << d, e >>)[i] = IF i <= Len(w) THEN w[i] ELSE << d, e >>[i - Len(w)]
  BY <1>2
<1>5. \A i \in 1 .. Len(w) + 2 : (w \o << d, e >>)[i] \in X
  <2> TAKE i \in 1 .. Len(w) + 2
  <2>1. CASE i <= Len(w)
    <3>1. i \in 1 .. Len(w)
      BY <1>3, <2>1
    <3> QED
      BY <1>4, <2>1, <3>1 DEF Past
  <2>2. CASE i = Len(w) + 1
    BY <1>3, <1>4, <2>2
  <2>3. CASE i = Len(w) + 2
    BY <1>3, <1>4, <2>3
  <2> QED
    BY <1>3, <2>1, <2>2, <2>3
<1> QED
  BY <1>3, <1>5, WrittenTwice DEF Past

-----------------------------------------------------------------------------
(* The writes of CheckStorage *)

\* A sector that nobody has.
Spare(d, B, s) ==
    /\ s \in Sector /\ s \notin Chain(d, d.freeBegin)
    /\ \A o \in Owner : s \notin Chain(d, B[o])

\* As Kept, but that one sector may be used.
Moves(d, x, B, s) ==
    /\ x \in Disks /\ x.sct = d.sct /\ x.root = d.root /\ Claims(x, B)
    /\ Chain(x, x.freeBegin) \subseteq Chain(d, d.freeBegin)
    /\ \A o \in Owner : Chain(x, B[o]) \subseteq Chain(d, B[o]) \union {s}
    /\ \A o \in Owner : \A i \in Nat : FindIndex(d, B[o], i) # End =>
          FindIndex(x, B[o], i) = FindIndex(d, B[o], i)

LEMMA KeptMoves ==
    ASSUME NEW d, NEW x, NEW y, NEW B, Kept(d, x, B), NEW s \in Chain(d, d.freeBegin),
           Moves(x, y, B, s)
    PROVE  Kept(d, y, B)
<1>1. /\ y \in Disks /\ y.sct = d.sct /\ y.root = d.root /\ Claims(y, B)
      /\ Chain(y, y.freeBegin) \subseteq Chain(d, d.freeBegin)
  BY DEF Kept, Moves
<1>2. \A o \in Owner : Chain(y, B[o]) \subseteq Chain(d, B[o]) \union Chain(d, d.freeBegin)
  <2>1. \A o \in Owner : /\ Chain(x, B[o]) \subseteq Chain(d, B[o]) \union Chain(d, d.freeBegin)
                         /\ Chain(y, B[o]) \subseteq Chain(x, B[o]) \union {s}
    BY DEF Kept, Moves
  <2> QED
    BY <2>1
<1>3. \A o \in Owner : \A i \in Nat : FindIndex(d, B[o], i) # End =>
          FindIndex(y, B[o], i) = FindIndex(d, B[o], i)
  <2>1. \A o \in Owner : \A i \in Nat :
          /\ FindIndex(d, B[o], i) # End => FindIndex(x, B[o], i) = FindIndex(d, B[o], i)
          /\ FindIndex(x, B[o], i) # End => FindIndex(y, B[o], i) = FindIndex(x, B[o], i)
    BY DEF Kept, Moves
  <2> QED
    BY <2>1
<1> QED
  BY <1>1, <1>2, <1>3 DEF Kept

\* The header is written: the first free sector is nobody's then.
WithHeader(d) == [d EXCEPT !.freeBegin = d.map[d.freeBegin], !.freeNum = d.freeNum - 1]

LEMMA HeaderKept ==
    ASSUME NEW d \in Disks, NEW B, Claims(d, B), NEW s, s = d.freeBegin, s # End
    PROVE  LET e == WithHeader(d)
           IN  /\ s \in Chain(d, d.freeBegin) /\ Moves(d, e, B, s) /\ Spare(e, B, s)
               /\ e.freeBegin = d.map[s] /\ e.freeNum = d.freeNum - 1 /\ e.map = d.map
<1> DEFINE b == d.map[s]
           n == d.freeNum - 1
           e == [d EXCEPT !.freeBegin = b, !.freeNum = n]
<1>1. Linked(d, d.freeBegin, d.freeNum)
  BY DEF Claims
<1>2. /\ d.freeNum \in 0 .. dataSize /\ d.freeNum # 0 /\ s \in Sector
      /\ s \in Chain(d, d.freeBegin)
  <2>1. d.freeNum \in 0 .. dataSize /\ d.freeNum # 0 /\ s \in Sector
    BY <1>1, ChainLength, DiskFields
  <2> QED
    BY <1>1, <2>1, ChainLength, Numbers
<1>3. b \in Sector \union {End} /\ n \in 0 .. dataSize
  BY <1>2, DiskFields, Numbers
<1>4. /\ Linked(d, b, n) /\ Chain(d, b) = Chain(d, d.freeBegin) \ {s}
  BY <1>1, <1>2, ChainRest, Numbers
<1> HIDE DEF b, n
<1>5. /\ e \in Disks /\ e.freeBegin = b /\ e.freeNum = n
      /\ e.root = d.root /\ e.map = d.map /\ e.sct = d.sct
  BY <1>3 DEF Disks, DiskState
<1>6. WithHeader(d) = e
  BY DEF WithHeader, b, n
<1> HIDE DEF e
<1>7. /\ \A c : Chain(e, c) = Chain(d, c)
      /\ \A c, k : Linked(d, c, k) => Linked(e, c, k)
      /\ \A c : \A i \in Nat : FindIndex(e, c, i) = FindIndex(d, c, i)
  BY <1>5, ChainByMap, IndexByMap
<1>8. Chain(e, e.freeBegin) = Chain(d, d.freeBegin) \ {s}
  BY <1>4, <1>5, <1>7
<1>9. Claims(e, B)
  <2>1. Linked(e, e.freeBegin, e.freeNum)
    BY <1>4, <1>5, <1>7
  <2>2. \A o \in Owner : \E k \in Nat : Linked(e, B[o], k)
    BY <1>7 DEF Claims
  <2>3. \A o \in Owner : Chain(e, B[o]) \intersect Chain(e, e.freeBegin) = {}
    BY <1>7, <1>8 DEF Claims
  <2>4. \A o, p \in Owner : o # p => Chain(e, B[o]) \intersect Chain(e, B[p]) = {}
    BY <1>7 DEF Claims
  <2> QED
    BY <2>1, <2>2, <2>3, <2>4 DEF Claims
<1>10. Spare(e, B, s)
  BY <1>2, <1>7, <1>8 DEF Spare, Claims
<1>11. Moves(d, e, B, s)
  BY <1>5, <1>7, <1>8, <1>9 DEF Moves
<1> QED
  BY <1>2, <1>5, <1>6, <1>10, <1>11 DEF b, n

\* The map changes for a sector that nobody has.
OnlyMap(d, e, s) ==
    /\ e \in Disks /\ e.freeBegin = d.freeBegin /\ e.freeNum = d.freeNum
    /\ e.root = d.root /\ e.sct = d.sct
    /\ \A t \in Sector : t # s => e.map[t] = d.map[t]

LEMMA MarkKept ==
    ASSUME NEW d \in Disks, NEW B, Claims(d, B), NEW s, Spare(d, B, s), NEW e, OnlyMap(d, e, s)
    PROVE  Moves(d, e, B, s) /\ Spare(e, B, s)
<1>1. ASSUME NEW b, NEW n, Linked(d, b, n), s \notin Chain(d, b)
      PROVE  /\ Linked(e, b, n) /\ Chain(e, b) = Chain(d, b)
             /\ \A i \in Nat : FindIndex(e, b, i) = FindIndex(d, b, i)
  <2>1. Chain(d, b) \subseteq Sector
    BY <1>1, ChainLength
  <2>2. SameMap(d, e, b)
    BY <1>1, <2>1 DEF SameMap, OnlyMap
  <2> QED
    BY <1>1, <2>2, ChainKept
<1>2. /\ Linked(e, e.freeBegin, e.freeNum) /\ Chain(e, e.freeBegin) = Chain(d, d.freeBegin)
  <2>1. Linked(d, d.freeBegin, d.freeNum) /\ s \notin Chain(d, d.freeBegin)
    BY DEF Claims, Spare
  <2> QED
    BY <1>1, <2>1 DEF OnlyMap
<1>3. ASSUME NEW o \in Owner
      PROVE  /\ \E k \in Nat : Linked(e, B[o], k)
             /\ Chain(e, B[o]) = Chain(d, B[o])
             /\ \A i \in Nat : FindIndex(e, B[o], i) = FindIndex(d, B[o], i)
  <2>1. PICK k \in Nat : Linked(d, B[o], k)
    BY DEF Claims
  <2>2. s \notin Chain(d, B[o])
    BY DEF Spare
  <2> QED
    BY <1>1, <2>1, <2>2
<1>4. Claims(e, B)
  BY <1>2, <1>3 DEF Claims
<1> QED
  BY <1>2, <1>3, <1>4 DEF Moves, Spare, OnlyMap

\* A chain gets the sector, at its end or as its first one.
LEMMA LinkKept ==
    ASSUME NEW d \in Disks, NEW B, Claims(d, B), NEW s, Spare(d, B, s), d.map[s] = End,
           NEW o \in Owner, NEW b, b = B[o], NEW n, Linked(d, b, n), n > 0,
           NEW last, last = FindIndex(d, b, n - 1),
           NEW e, OnlyMap(d, e, last), e.map[last] = s
    PROVE  /\ Moves(d, e, B, s) /\ e.map[s] = End /\ last \in Sector
           /\ Linked(e, b, n + 1)
<1>1. /\ n \in Nat /\ last \in Chain(d, b) /\ Chain(d, b) \subseteq Sector
      /\ s \in Sector /\ s \notin Chain(d, b) /\ last \in Sector
  <2>1. /\ n \in Nat /\ Chain(d, b) = {FindIndex(d, b, i) : i \in 0 .. n - 1}
        /\ Chain(d, b) \subseteq Sector
    BY ChainLength DEF Linked
  <2>2. n - 1 \in 0 .. n - 1
    BY <2>1
  <2> QED
    BY <2>1, <2>2 DEF Spare
<1>2. e.map[s] = End
  BY <1>1 DEF OnlyMap
<1>3. /\ Linked(e, b, n + 1) /\ Chain(e, b) = Chain(d, b) \union {s}
      /\ \A i \in 0 .. n - 1 : FindIndex(e, b, i) = FindIndex(d, b, i)
  <2>1. Extends(d, e, b, n, s)
    BY <1>1, <1>2 DEF Extends, OnlyMap
  <2>2. b = IF n = 0 THEN s ELSE b
    BY <1>1
  <2>3. Longer(d, e, b, b, n, s)
    BY <2>1, <2>2, ChainExtended
  <2> QED
    BY <2>3 DEF Longer
<1>4. ASSUME NEW c, NEW k, Linked(d, c, k), last \notin Chain(d, c)
      PROVE  /\ Linked(e, c, k) /\ Chain(e, c) = Chain(d, c)
             /\ \A i \in Nat : FindIndex(e, c, i) = FindIndex(d, c, i)
  <2>1. Chain(d, c) \subseteq Sector
    BY <1>4, ChainLength
  <2>2. SameMap(d, e, c)
    BY <1>4, <2>1 DEF SameMap, OnlyMap
  <2>3. Linked(e, c, k) /\ Chain(e, c) = Chain(d, c)
    BY <1>4, <2>2, ChainKept
  <2>4. \A i \in Nat : FindIndex(e, c, i) = FindIndex(d, c, i)
    BY <1>4, <2>2, ChainKept
  <2> QED
    BY <2>3, <2>4
<1>5. /\ Linked(e, e.freeBegin, e.freeNum) /\ Chain(e, e.freeBegin) = Chain(d, d.freeBegin)
  <2>1. Linked(d, d.freeBegin, d.freeNum) /\ last \notin Chain(d, d.freeBegin)
    BY <1>1 DEF Claims
  <2> QED
    BY <1>4, <2>1 DEF OnlyMap
<1>6. ASSUME NEW p \in Owner, p # o
      PROVE  /\ \E k \in Nat : Linked(e, B[p], k)
             /\ Chain(e, B[p]) = Chain(d, B[p])
             /\ \A i \in Nat : FindIndex(e, B[p], i) = FindIndex(d, B[p], i)
  <2>1. PICK k \in Nat : Linked(d, B[p], k)
    BY DEF Claims
  <2>2. last \notin Chain(d, B[p])
    BY <1>1, <1>6 DEF Claims
  <2> QED
    BY <1>4, <2>1, <2>2
<1>7. \A i \in Nat : FindIndex(d, b, i) # End => FindIndex(e, b, i) = FindIndex(d, b, i)
  <2> SUFFICES ASSUME NEW i \in Nat, FindIndex(d, b, i) # End
               PROVE  FindIndex(e, b, i) = FindIndex(d, b, i)
    OBVIOUS
  <2>1. i < n
    BY <1>1, BehindEnd
  <2> QED
    BY <1>1, <1>3, <2>1
<1> DEFINE C(p) == Chain(d, B[p])
           D(p) == Chain(e, B[p])
           F == Chain(d, d.freeBegin)
<1>8. /\ D(o) = C(o) \union {s} /\ \A p \in Owner : p # o => D(p) = C(p)
      /\ s \notin F /\ Chain(e, e.freeBegin) = F
      /\ \A p \in Owner : s \notin C(p) /\ C(p) \intersect F = {}
      /\ \A p, q \in Owner : p # q => C(p) \intersect C(q) = {}
  BY <1>3, <1>5, <1>6 DEF Spare, Claims
<1> HIDE DEF C, D, F
<1>9. /\ \A p \in Owner : D(p) \intersect F = {}
      /\ \A p, q \in Owner : p # q => D(p) \intersect D(q) = {}
  BY <1>8
<1>10. n + 1 \in Nat
  BY <1>1
<1>11. Claims(e, B)
  <2>1. \A p \in Owner : \E k \in Nat : Linked(e, B[p], k)
    BY <1>3, <1>6, <1>10
  <2> QED
    BY <1>5, <1>8, <1>9, <2>1 DEF Claims, D
<1>12. \A p \in Owner : \A i \in Nat : FindIndex(d, B[p], i) # End =>
          FindIndex(e, B[p], i) = FindIndex(d, B[p], i)
  BY <1>6, <1>7
<1>13. \A p \in Owner : Chain(e, B[p]) \subseteq Chain(d, B[p]) \union {s}
  BY <1>8 DEF C, D
<1> QED
  BY <1>1, <1>2, <1>3, <1>5, <1>11, <1>12, <1>13 DEF Moves, OnlyMap

Gets(B, o, s) == [B EXCEPT ![o] = s]

LEMMA BeginKept ==
    ASSUME NEW d \in Disks, NEW B, Claims(d, B), NEW s, Spare(d, B, s), d.map[s] = End,
           NEW o \in Owner, B[o] = End, NEW A, A = Gets(B, o, s)
    PROVE  /\ Claims(d, A) /\ Linked(d, s, 1) /\ FindIndex(d, s, 0) = s
           /\ Chain(d, s) = {s}
<1>0. s \in Sector
  BY DEF Spare
<1>1. Linked(d, End, 0) /\ FindIndex(d, End, 0) = End /\ Chain(d, End) = {}
  <2>1. FindIndex(d, End, 0) = End
    BY IndexZero
  <2>2. Linked(d, End, 0)
    BY <2>1 DEF Linked
  <2> QED
    BY <2>1, <2>2, ChainLength
<1>2. /\ Linked(d, s, 1) /\ Chain(d, s) = {s} /\ FindIndex(d, s, 0) = s
  <2>1. Extends(d, d, End, 0, s)
    BY <1>0, <1>1 DEF Extends
  <2> DEFINE n == 0
  <2>2. s = IF n = 0 THEN s ELSE End
    OBVIOUS
  <2>3. Linked(d, End, n) /\ Extends(d, d, End, n, s)
    BY <1>1, <2>1
  <2> HIDE DEF n
  <2>4. Longer(d, d, End, s, n, s)
    BY <2>2, <2>3, ChainExtended
  <2>5. n = 0
    BY DEF n
  <2> QED
    BY <1>1, <2>4, <2>5, IndexZero DEF Longer
<1>3. /\ A \in [Owner -> Sector \union {End}] /\ A[o] = s
      /\ \A p \in Owner : p # o => A[p] = B[p]
  BY <1>0 DEF Claims, Gets
<1> DEFINE C(p) == Chain(d, B[p])
           D(p) == Chain(d, A[p])
           F == Chain(d, d.freeBegin)
<1>4. /\ D(o) = {s} /\ \A p \in Owner : p # o => D(p) = C(p)
      /\ s \notin F
      /\ \A p \in Owner : s \notin C(p) /\ C(p) \intersect F = {}
      /\ \A p, q \in Owner : p # q => C(p) \intersect C(q) = {}
  BY <1>2, <1>3 DEF Spare, Claims
<1> HIDE DEF C, D, F
<1>5. /\ \A p \in Owner : D(p) \intersect F = {}
      /\ \A p, q \in Owner : p # q => D(p) \intersect D(q) = {}
  BY <1>4
<1>6. \A p \in Owner : \E k \in Nat : Linked(d, A[p], k)
  BY <1>2, <1>3 DEF Claims
<1>7. Linked(d, d.freeBegin, d.freeNum)
  BY DEF Claims
<1> QED
  BY <1>2, <1>3, <1>5, <1>6, <1>7 DEF Claims, D, F

Allows(d, B, X) == \A x : Kept(d, x, B) => x \in X

\* The chain and its record after CheckStorage.
Stored(d, e, B, A, fe, ge) ==
    /\ Claims(e, A) /\ ge \in Records /\ SameRecord(fe, ge)
    /\ ge.lastBytes = 0 /\ ge.sctNum = fe.sctNum + 1
    /\ ge.sctBegin \in Sector /\ fe.sctBegin \in {End, ge.sctBegin}
    /\ Fits(e, ge.sctBegin, ge)
    /\ \A p \in Owner : Chain(e, A[p]) \subseteq Chain(d, B[p]) \union Chain(d, d.freeBegin)

OneLonger(fe, b, k) == [fe EXCEPT !.sctBegin = b, !.sctNum = k, !.lastBytes = 0]

LEMMA GrownRecord ==
    ASSUME NEW e, NEW b \in Sector \union {End}, NEW m, NEW fe \in Records, Linked(e, b, m),
           NEW k, k = fe.sctNum + 1, k <= m,
           NEW ge, ge = OneLonger(fe, b, k)
    PROVE  /\ ge \in Records /\ SameRecord(fe, ge)
           /\ ge.lastBytes = 0 /\ ge.sctNum = k /\ ge.sctBegin = b
           /\ b \in Sector /\ Fits(e, b, ge)
<1>1. /\ fe.sctNum \in Nat /\ m \in 0 .. dataSize /\ (b = End <=> m = 0)
      /\ \A i \in 0 .. m - 1 : FindIndex(e, b, i) \in Sector
  BY RecordFields, ChainLength, Numbers DEF Linked
<1>2. k \in 0 .. dataSize /\ k # 0 /\ k <= m /\ 0 \in 0 .. SECT_SIZE /\ b \in Sector
  BY <1>1, DiskAssumption, Numbers
<1>3. /\ ge \in Records /\ SameRecord(fe, ge)
      /\ ge.lastBytes = 0 /\ ge.sctNum = k /\ ge.sctBegin = b
  BY <1>2 DEF Records, Chained, FileEntry, SameRecord, OneLonger
<1>4. Fits(e, b, ge)
  <2>1. ge.sctBegin \in {End, b} /\ (ge.sctBegin = End <=> ge.sctNum = 0)
    BY <1>2, <1>3, Numbers
  <2>2. ASSUME NEW i \in 0 .. ge.sctNum - 1 PROVE FindIndex(e, ge.sctBegin, i) # End
    <3>1. i \in 0 .. m - 1
      BY <1>1, <1>2, <1>3
    <3> QED
      BY <1>1, <1>3, <3>1, Numbers
  <2> QED
    BY <2>1, <2>2 DEF Fits
<1> QED
  BY <1>2, <1>3, <1>4

\* A record is not longer than its chain.
LEMMA FitsLength ==
    ASSUME NEW d, NEW b, NEW n, Linked(d, b, n), NEW fe, fe.sctNum \in Nat, fe.sctBegin = b,
           Fits(d, b, fe)
    PROVE  fe.sctNum <= n
<1> DEFINE m == fe.sctNum - 1
<1>1. n \in Nat
  BY DEF Linked
<1> SUFFICES ASSUME fe.sctNum > n PROVE FALSE
  BY <1>1
<1>2. m \in Nat /\ m >= n /\ m \in 0 .. fe.sctNum - 1
  BY <1>1
<1> HIDE DEF m
<1>3. FindIndex(d, b, m) = End
  BY <1>2, BehindEnd
<1> QED
  BY <1>2, <1>3 DEF Fits

LEMMA StorageTorn ==
    ASSUME NEW w, NEW X, Past(w, X), NEW d, d = Now(w), d \in Disks, NEW B, Claims(d, B),
           Allows(d, B, X), NEW o \in Owner, NEW fe \in Records, NEW b, b = B[o],
           fe.sctBegin = b, Fits(d, b, fe),
           fe.lastBytes = SECT_SIZE, d.freeBegin # End
    PROVE  LET c == CheckStorage(w, fe)
               e == Now(c[1])
               A == Gets(B, o, c[2].sctBegin)
           IN  Past(c[1], X) /\ Kept(d, e, B) /\ Stored(d, e, B, A, fe, c[2])
<1> DEFINE si == d.freeBegin
           h == WithHeader(d)
           x == [h EXCEPT !.map[si] = End]
           a == AllocSector(w)
           F == Chain(d, d.freeBegin)
<1>1. /\ si \in F /\ Moves(d, h, B, si) /\ Spare(h, B, si) /\ h.map = d.map
  BY HeaderKept
<1>2. a = w \o << h, x >>
  BY DEF AllocSector, WithHeader
<1>3. /\ h \in Disks /\ Claims(h, B) /\ si \in Sector
  BY <1>1 DEF Moves, Spare
<1> HIDE DEF h
<1>4. /\ x \in Disks /\ x.freeBegin = h.freeBegin /\ x.freeNum = h.freeNum
      /\ x.root = h.root /\ x.map = [h.map EXCEPT ![si] = End] /\ x.sct = h.sct
  BY <1>3 DEF Disks, DiskState
<1> HIDE DEF x
<1>5. OnlyMap(h, x, si) /\ x.map[si] = End
  BY <1>3, <1>4, DiskFields DEF OnlyMap
<1> HIDE DEF si
<1>6. Moves(h, x, B, si) /\ Spare(x, B, si)
  BY <1>1, <1>3, <1>5, MarkKept
<1>7. Kept(d, h, B) /\ Kept(d, x, B)
  <2>1. Kept(d, d, B)
    BY KeptSelf
  <2>2. Kept(d, h, B)
    BY <1>1, <2>1, KeptMoves DEF F
  <2> QED
    BY <1>1, <1>6, <2>2, KeptMoves DEF F
<1>8. Past(a, X) /\ Now(a) = x
  <2>1. h \in X /\ x \in X
    BY <1>7 DEF Allows
  <2> QED
    BY <1>2, <2>1, PastTwice
<1>9. /\ x \in Disks /\ Claims(x, B) /\ x.sct = d.sct /\ x.root = d.root
      /\ fe.sctNum \in Nat /\ b \in Sector \union {End} /\ (b = End <=> fe.sctNum = 0)
  BY <1>7, RecordFields, Numbers DEF Kept, Claims, Fits
<1> DEFINE v == IF b = End THEN a ELSE AddToLast(a, b, si)
           begin == IF b = End THEN si ELSE b
           ge == [fe EXCEPT !.sctBegin = begin, !.sctNum = fe.sctNum + 1, !.lastBytes = 0]
           A == Gets(B, o, begin)
<1>10. CheckStorage(w, fe) = << v, ge >>
  BY DEF CheckStorage, si
<1> HIDE DEF a
<1>11. CASE b = End
  <2>1. v = a /\ begin = si /\ A = Gets(B, o, si)
    BY <1>11
  <2> HIDE DEF v, begin, A
  <2>2. Claims(x, A) /\ Linked(x, si, 1) /\ Chain(x, si) = {si}
    <3>1. B[o] = End /\ A = Gets(B, o, si) /\ x.map[si] = End /\ Spare(x, B, si)
      BY <1>5, <1>6, <1>11, <2>1
    <3> QED
      BY <1>9, <3>1, BeginKept
  <2>3. /\ ge \in Records /\ SameRecord(fe, ge)
        /\ ge.lastBytes = 0 /\ ge.sctNum = fe.sctNum + 1 /\ ge.sctBegin = si
        /\ Fits(x, si, ge)
    <3> DEFINE m == 1
               k == fe.sctNum + 1
    <3>1. /\ Linked(x, si, m) /\ k = fe.sctNum + 1 /\ k <= m /\ si \in Sector \union {End}
          /\ ge = OneLonger(fe, si, k)
      BY <1>3, <1>9, <1>11, <2>1, <2>2 DEF OneLonger
    <3> HIDE DEF m, k, ge
    <3> QED
      BY <3>1, GrownRecord
  <2>4. \A p \in Owner : Chain(x, A[p]) \subseteq Chain(d, B[p]) \union F
    <3>1. /\ A[o] = si /\ \A p \in Owner : p # o => A[p] = B[p]
      BY <2>1 DEF Claims, Gets
    <3>2. \A p \in Owner : Chain(x, B[p]) \subseteq Chain(d, B[p]) \union F
      BY <1>7 DEF Kept
    <3> QED
      BY <1>1, <2>2, <3>1, <3>2
  <2> HIDE DEF ge
  <2>5. Stored(d, x, B, A, fe, ge)
    BY <1>3, <1>11, <2>2, <2>3, <2>4 DEF Stored, F
  <2>6. A = Gets(B, o, ge.sctBegin)
    BY <2>1, <2>3 DEF A
  <2> QED
    <3> DEFINE c == CheckStorage(w, fe)
    <3>1. c[1] = v /\ c[2] = ge
      BY <1>10
    <3> HIDE DEF c
    <3>2. Past(c[1], X) /\ Now(c[1]) = x /\ A = Gets(B, o, c[2].sctBegin)
      BY <1>8, <2>1, <2>6, <3>1
    <3> QED
      BY <1>7, <2>5, <3>1, <3>2 DEF c
<1>12. CASE b # End
  <2>1. v = AddToLast(a, b, si) /\ begin = b /\ A = B
    BY <1>12 DEF Claims, Gets
  <2>2. PICK n \in Nat : Linked(x, b, n)
    BY <1>9 DEF Claims
  <2>3. n > 0 /\ fe.sctNum <= n
    <3>1. n # 0
      BY <1>12, <2>2, ChainLength
    <3>2. Fits(x, b, fe)
      BY <1>7, <1>9, FitsKept
    <3> QED
      BY <1>9, <2>2, <3>1, <3>2, FitsLength
  <2> DEFINE last == FindIndex(x, b, n - 1)
             linked == [x EXCEPT !.map[last] = si]
             ended == [linked EXCEPT !.map[si] = End]
  <2>4. FindLast(x, b) = last /\ last \in Sector /\ last # si
    <3>1. FindLast(x, b) = last
      BY <2>2, <2>3, LastOf
    <3>2. last \in Chain(x, b) /\ Chain(x, b) \subseteq Sector
      <4>1. /\ Chain(x, b) = {FindIndex(x, b, i) : i \in 0 .. n - 1}
            /\ Chain(x, b) \subseteq Sector
        BY <2>2, ChainLength
      <4>2. n - 1 \in 0 .. n - 1
        BY <2>2, <2>3
      <4> QED
        BY <4>1, <4>2
    <3>3. si \notin Chain(x, b)
      BY <1>6 DEF Spare
    <3> QED
      BY <3>1, <3>2, <3>3
  <2>5. v = Write(a, ended) \/ v = a \o << linked, ended >>
    BY <1>8, <2>1, <2>4, Zenon DEF AddToLast
  <2>6. OnlyMap(x, linked, last) /\ linked.map[last] = si /\ linked \in Disks
    <3>1. /\ linked \in Disks /\ linked.freeBegin = x.freeBegin /\ linked.freeNum = x.freeNum
          /\ linked.root = x.root /\ linked.map = [x.map EXCEPT ![last] = si]
          /\ linked.sct = x.sct
      BY <1>3, <1>9, <2>4, MapPart
    <3> QED
      BY <1>9, <2>4, <3>1, DiskFields DEF OnlyMap
  <2>7. OnlyMap(x, ended, last) /\ ended.map[last] = si
    <3> HIDE DEF linked
    <3>1. /\ ended \in Disks /\ ended.freeBegin = linked.freeBegin
          /\ ended.freeNum = linked.freeNum
          /\ ended.root = linked.root /\ ended.map = [linked.map EXCEPT ![si] = End]
          /\ ended.sct = linked.sct
      BY <1>3, <2>6, MapPart
    <3>2. linked.map \in [Sector -> Sector \union {End}]
      BY <2>6, DiskFields
    <3> QED
      BY <1>3, <1>5, <2>4, <2>6, <3>1, <3>2 DEF OnlyMap
  <2> HIDE DEF linked, ended
  <2>8. \A e : OnlyMap(x, e, last) /\ e.map[last] = si =>
            Moves(x, e, B, si) /\ Linked(e, b, n + 1)
    <3> TAKE e
    <3> HAVE OnlyMap(x, e, last) /\ e.map[last] = si
    <3> HIDE DEF v, begin, ge, A, last
    <3>1. b = B[o] /\ last = FindIndex(x, b, n - 1) /\ Spare(x, B, si) /\ x.map[si] = End
      BY <1>5, <1>6 DEF last
    <3> QED
      BY <1>9, <2>2, <2>3, <3>1, LinkKept
  <2>9. Kept(d, linked, B) /\ Kept(d, ended, B) /\ Linked(ended, b, n + 1)
    BY <1>1, <1>7, <2>6, <2>7, <2>8, KeptMoves DEF F
  <2>10. Past(v, X) /\ Now(v) = ended
    <3>1. linked \in X /\ ended \in X
      BY <2>9 DEF Allows
    <3>2. CASE v = Write(a, ended)
      BY <1>8, <3>1, <3>2, PastWrite
    <3>3. CASE v = a \o << linked, ended >>
      <4> HIDE DEF v
      <4> QED
        BY <1>8, <3>1, <3>3, PastTwice
    <3> QED
      BY <2>5, <3>2, <3>3
  <2>11. /\ ge \in Records /\ SameRecord(fe, ge)
        /\ ge.lastBytes = 0 /\ ge.sctNum = fe.sctNum + 1 /\ ge.sctBegin = b
        /\ b \in Sector /\ Fits(ended, b, ge)
    <3> DEFINE m == n + 1
               k == fe.sctNum + 1
    <3> HIDE DEF begin
    <3>1. ge = OneLonger(fe, b, k)
      BY <2>1 DEF OneLonger
    <3>2. Linked(ended, b, m) /\ k = fe.sctNum + 1
      BY <2>9
    <3>3. k <= m
      BY <1>9, <2>2, <2>3
    <3> HIDE DEF m, k, ge
    <3> QED
      BY <1>9, <3>1, <3>2, <3>3, GrownRecord
  <2> HIDE DEF v, begin, ge, A
  <2>12. Stored(d, ended, B, A, fe, ge)
    BY <2>1, <2>9, <2>11 DEF Stored, Kept
  <2>13. A = Gets(B, o, ge.sctBegin)
    BY <2>1, <2>11 DEF A
  <2> QED
    <3> DEFINE c == CheckStorage(w, fe)
    <3>1. c[1] = v /\ c[2] = ge
      BY <1>10
    <3> HIDE DEF c
    <3>2. Past(c[1], X) /\ Now(c[1]) = ended /\ A = Gets(B, o, c[2].sctBegin)
      BY <2>10, <2>13, <3>1
    <3> QED
      BY <2>9, <2>12, <3>1, <3>2 DEF c
<1> QED
  BY <1>11, <1>12

-----------------------------------------------------------------------------
(* What is found, and what is left alone *)

\* FindFileEntry looks at the first place with the name.
LEMMA WhereFound ==
    ASSUME NEW d, NEW fds, NEW B, Held(d, fds, B), NEW m, NEW fe, fe = FindInRoot(d, m),
           fe # Missing
    PROVE  /\ fe \in FileEntry /\ m \in Name /\ fe.name = m
           /\ Placed(d, m, fe.inSctIdx, fe.inSctOff)
           /\ EntriesIn(d.sct[fe.inSctIdx])[fe.inSctOff] = fe
           /\ Fits(d, B[<< fe.inSctIdx, fe.inSctOff >>], fe)
<1>1. d \in Disks /\ RootHeld(d, B)
  BY DEF Held
<1>2. /\ RootLen(d) \in Nat
      /\ \A k \in 0 .. RootLen(d) - 1 :
           k \in Nat /\ FindIndex(d, d.root.sctBegin, k \div FE_ITEM_CNT) \in Sector
  BY <1>1, RootFits
<1>3. Found(d, m) # {} /\ Found(d, m) \subseteq 0 .. RootLen(d) - 1
  BY DEF FindInRoot, Found
<1>4. \E k \in Found(d, m) : \A j \in Found(d, m) : k <= j
  <2>1. Found(d, m) \subseteq Nat
    BY <1>2, <1>3
  <2> QED
    BY <1>3, <2>1, Least
<1> DEFINE k == CHOOSE k \in Found(d, m) : \A j \in Found(d, m) : k <= j
<1>5. k \in Found(d, m) /\ fe = RootEntry(d, k)
  BY <1>3, <1>4 DEF FindInRoot
<1> HIDE DEF k
<1>6. k \in 0 .. RootLen(d) - 1 /\ k \in Nat /\ fe.name = m
  BY <1>2, <1>3, <1>5 DEF Found
<1> DEFINE s == FindIndex(d, d.root.sctBegin, k \div FE_ITEM_CNT)
           i == k % FE_ITEM_CNT
<1>7. s \in Sector /\ i \in Slot
  BY <1>2, <1>6, Places
<1>8. fe = EntriesIn(d.sct[s])[i] /\ Seen(d, s, i)
  <2>1. fe = EntryAt(d, s, i)
    BY <1>5 DEF RootEntry
  <2>2. Seen(d, s, i)
    BY <1>6 DEF Seen, At
  <2> HIDE DEF s, i
  <2> QED
    BY <1>7, <2>1, <2>2, Numbers DEF EntryAt
<1> HIDE DEF s, i
<1>9. /\ fe \in FileEntry /\ EntryHeld(d, B, s, i)
  BY <1>1, <1>7, <1>8, EntryTyped DEF Held
<1>10. fe.inSctIdx = s /\ fe.inSctOff = i /\ Fits(d, B[<< s, i >>], fe)
  BY <1>8, <1>9 DEF EntryHeld
<1>11. Placed(d, m, s, i)
  BY <1>6, <1>7, <1>8 DEF Placed
<1> QED
  BY <1>6, <1>8, <1>9, <1>10, <1>11, EntryFields

\* Entries of another name may come and go.
SameFor(d, e, m) ==
    \A k \in 0 .. RootLen(d) - 1 :
        \/ RootEntry(e, k) = RootEntry(d, k)
        \/ /\ RootEntry(d, k) # Missing => RootEntry(d, k).name # m
           /\ RootEntry(e, k) # Missing => RootEntry(e, k).name # m

LEMMA FoundSame ==
    ASSUME NEW d, NEW e, NEW m, e.root = d.root, SameFor(d, e, m)
    PROVE  FindInRoot(e, m) = FindInRoot(d, m)
<1>1. RootLen(e) = RootLen(d)
  BY DEF RootLen
<1>2. Found(e, m) = Found(d, m) /\ \A k \in Found(d, m) : RootEntry(e, k) = RootEntry(d, k)
  BY <1>1 DEF Found, SameFor
<1>3. CASE Found(d, m) = {}
  BY <1>2, <1>3 DEF FindInRoot
<1>4. CASE \E k \in Found(d, m) : \A j \in Found(d, m) : k <= j
  BY <1>2, <1>4 DEF FindInRoot
<1>5. Found(d, m) = {} \/ \E k \in Found(d, m) : \A j \in Found(d, m) : k <= j
  <2>1. Found(d, m) \subseteq Int
    BY DEF Found
  <2>2. Found(d, m) \subseteq Nat
    BY DEF Found
  <2> QED
    BY <2>2, Least
<1> QED
  BY <1>3, <1>4, <1>5

\* The files of all names but those of N are left alone.
Spares(d, x, fds, N) ==
    \A m \in Name \ N :
        /\ FindInRoot(x, m) = FindInRoot(d, m)
        /\ FindInRoot(d, m) # Missing => Same(d, x, FindInRoot(d, m))
        /\ fds[m] # Closed => Same(d, x, fds[m].fe)

LEMMA SameTwice ==
    ASSUME NEW d, NEW x, NEW y, NEW fe, Same(d, x, fe), Same(x, y, fe)
    PROVE  Same(d, y, fe)
  BY DEF Same

LEMMA SparesTwice ==
    ASSUME NEW d, NEW x, NEW y, NEW fds, NEW N, Spares(d, x, fds, N), Spares(x, y, fds, N)
    PROVE  Spares(d, y, fds, N)
  BY SameTwice DEF Spares

LEMMA SparesSelf ==
    ASSUME NEW d, NEW fds, NEW N
    PROVE  Spares(d, d, fds, N)
  BY DEF Spares, Same

LEMMA SparesOthers ==
    ASSUME NEW d, NEW x, NEW fds, NEW gds, NEW M, NEW N, M \subseteq N, Spares(d, x, fds, M),
           \A m \in Name \ N : gds[m] = fds[m]
    PROVE  Spares(d, x, gds, N)
  BY DEF Spares

LEMMA InChain ==
    ASSUME NEW d, NEW B, Claims(d, B), NEW o \in Owner, NEW i \in Nat,
           FindIndex(d, B[o], i) # End
    PROVE  FindIndex(d, B[o], i) \in Chain(d, B[o]) /\ FindIndex(d, B[o], i) \in Sector
<1>1. PICK n \in Nat : Linked(d, B[o], n)
  BY DEF Claims
<1>2. i \in 0 .. n - 1
  BY <1>1, BehindEnd
<1>3. /\ Chain(d, B[o]) = {FindIndex(d, B[o], j) : j \in 0 .. n - 1}
      /\ Chain(d, B[o]) \subseteq Sector
  BY <1>1, ChainLength
<1> QED
  BY <1>2, <1>3

\* The sectors of a record that fits are its owner's.
LEMMA FitsOwned ==
    ASSUME NEW d, NEW B, Claims(d, B), NEW o \in Owner, NEW b, b = B[o], NEW fe,
           fe.sctNum \in Nat, Fits(d, b, fe), NEW i \in 0 .. fe.sctNum - 1
    PROVE  /\ fe.sctBegin = b /\ i \in Nat /\ FindIndex(d, b, i) # End
           /\ FindIndex(d, b, i) \in Chain(d, b) /\ FindIndex(d, b, i) \in Sector
<1>1. fe.sctBegin = b /\ i \in Nat /\ FindIndex(d, b, i) # End
  BY DEF Fits
<1> QED
  BY <1>1, InChain

\* A change is none for a record when it keeps its chain, and no sector of the chain
\* is written.
Touches(d, x, B, s) ==
    /\ \A o \in Owner : \A i \in Nat : FindIndex(d, B[o], i) # End =>
          FindIndex(x, B[o], i) = FindIndex(d, B[o], i)
    /\ \A t \in Sector \ {s} : x.sct[t] = d.sct[t]

LEMMA SameTouched ==
    ASSUME NEW d, NEW B, Claims(d, B), NEW x, NEW s, Touches(d, x, B, s), NEW o \in Owner,
           NEW b, b = B[o], s \notin Chain(d, b), NEW fe, fe.sctNum \in Nat, Fits(d, b, fe)
    PROVE  Same(d, x, fe)
<1> SUFFICES ASSUME NEW i \in 0 .. fe.sctNum - 1
             PROVE  /\ FindIndex(x, fe.sctBegin, i) = FindIndex(d, fe.sctBegin, i)
                    /\ x.sct[FindIndex(d, fe.sctBegin, i)] = d.sct[FindIndex(d, fe.sctBegin, i)]
  BY DEF Same
<1>1. /\ fe.sctBegin = b /\ i \in Nat /\ FindIndex(d, b, i) # End
      /\ FindIndex(d, b, i) \in Chain(d, b) /\ FindIndex(d, b, i) \in Sector
  BY FitsOwned
<1> QED
  BY <1>1 DEF Touches

\* Other files are left alone when neither their entries nor their sectors are touched.
LEMMA SparesTouched ==
    ASSUME NEW d, NEW fds, NEW B, Held(d, fds, B), NEW x, x.root = d.root, NEW s, NEW N,
           Touches(d, x, B, s), \A m \in Name \ N : SameFor(d, x, m),
           \A m \in Name \ N : \A t \in Sector, i \in Slot :
              Placed(d, m, t, i) => s \notin Chain(d, B[<< t, i >>])
    PROVE  Spares(d, x, fds, N)
<1> SUFFICES ASSUME NEW m \in Name \ N
             PROVE  /\ FindInRoot(x, m) = FindInRoot(d, m)
                    /\ FindInRoot(d, m) # Missing => Same(d, x, FindInRoot(d, m))
                    /\ fds[m] # Closed => Same(d, x, fds[m].fe)
  BY DEF Spares
<1>1. FindInRoot(x, m) = FindInRoot(d, m)
  BY FoundSame
<1>2. ASSUME NEW fe \in FileEntry, Placed(d, m, fe.inSctIdx, fe.inSctOff),
             Fits(d, B[<< fe.inSctIdx, fe.inSctOff >>], fe)
      PROVE  Same(d, x, fe)
  <2> DEFINE o == << fe.inSctIdx, fe.inSctOff >>
             b == B[o]
  <2>1. o \in Owner /\ fe.sctNum \in Nat /\ fe.inSctIdx \in Sector /\ fe.inSctOff \in Slot
    BY EntryFields
  <2>2. s \notin Chain(d, b) /\ Fits(d, b, fe) /\ b = B[o]
    BY <1>2, <2>1
  <2>3. Claims(d, B)
    BY DEF Held
  <2> HIDE DEF o, b
  <2> QED
    BY <2>1, <2>2, <2>3, SameTouched
<1>3. ASSUME FindInRoot(d, m) # Missing
      PROVE  Same(d, x, FindInRoot(d, m))
  <2> DEFINE fe == FindInRoot(d, m)
  <2>1. fe = FindInRoot(d, m) /\ fe # Missing
    BY <1>3
  <2> HIDE DEF fe
  <2>2. /\ fe \in FileEntry /\ Placed(d, m, fe.inSctIdx, fe.inSctOff)
        /\ Fits(d, B[<< fe.inSctIdx, fe.inSctOff >>], fe)
    BY <2>1, WhereFound
  <2> QED
    BY <1>2, <2>1, <2>2
<1>4. ASSUME fds[m] # Closed
      PROVE  Same(d, x, fds[m].fe)
  <2> DEFINE fe == fds[m].fe
  <2>1. fe \in FileEntry /\ FileHeld(d, B, m, fds[m])
    BY <1>4, DescFields DEF Held
  <2>2. /\ Placed(d, m, fe.inSctIdx, fe.inSctOff)
        /\ Fits(d, B[<< fe.inSctIdx, fe.inSctOff >>], fe)
    BY <2>1 DEF FileHeld
  <2> HIDE DEF fe
  <2>3. Same(d, x, fe)
    BY <1>2, <2>1, <2>2
  <2> QED
    BY <2>3 DEF fe
<1> QED
  BY <1>1, <1>3, <1>4

LEMMA KeptSpares ==
    ASSUME NEW d, NEW fds, NEW B, Held(d, fds, B), NEW x, Kept(d, x, B)
    PROVE  Spares(d, x, fds, {})
<1>1. d \in Disks /\ RootHeld(d, B) /\ x.root = d.root /\ x.sct = d.sct
  BY DEF Held, Kept
<1>2. Touches(d, x, B, End)
  BY <1>1 DEF Touches, Kept
<1>3. \A m \in Name : SameFor(d, x, m)
  BY <1>1, SeenKept DEF SameFor
<1>4. \A t \in Sector, i \in Slot : End \notin Chain(d, B[<< t, i >>])
  BY DEF Chain
<1> QED
  BY <1>1, <1>2, <1>3, <1>4, SparesTouched

-----------------------------------------------------------------------------
(* Writing entries and bytes *)

LEMMA EntriesPut ==
    ASSUME NEW d \in Disks, NEW s \in Sector, NEW i \in Slot, NEW fe \in FileEntry,
           NEW e, e = WithEntry(d, s, i, fe)
    PROVE  \A t \in Sector, j \in Slot :
              EntriesIn(e.sct[t])[j] = IF t = s /\ j = i THEN fe ELSE EntriesIn(d.sct[t])[j]
<1> DEFINE old == EntriesIn(d.sct[s])
           c == [entry |-> [j \in Slot |-> IF j = i THEN fe ELSE old[j]]]
<1>1. d.sct \in [Sector -> EntrySector \union DataSector]
  BY DiskFields
<1>2. e = [d EXCEPT !.sct[s] = c]
  BY DEF WithEntry
<1>3. EntriesIn(c) = [j \in Slot |-> IF j = i THEN fe ELSE old[j]]
  BY DEF EntriesIn
<1> HIDE DEF c
<1>4. e.sct = [d.sct EXCEPT ![s] = c]
  BY <1>2 DEF Disks, DiskState
<1>5. e.sct[s] = c /\ \A t \in Sector \ {s} : e.sct[t] = d.sct[t]
  BY <1>1, <1>4
<1> QED
  BY <1>3, <1>5

\* What the map and the header say of chains.
SameChains(d, e) ==
    /\ e.map = d.map /\ e.freeBegin = d.freeBegin /\ e.freeNum = d.freeNum

LEMMA ClaimsByMap ==
    ASSUME NEW d, NEW e, SameChains(d, e), NEW B
    PROVE  /\ Claims(d, B) => Claims(e, B)
           /\ \A s : Reserved(d, B, s) => Reserved(e, B, s)
           /\ \A b, fe : fe.sctNum \in Nat /\ Fits(d, b, fe) => Fits(e, b, fe)
<1>1. /\ \A c : Chain(e, c) = Chain(d, c)
      /\ \A c, k : Linked(d, c, k) => Linked(e, c, k)
      /\ \A c : \A i \in Nat : FindIndex(e, c, i) = FindIndex(d, c, i)
  BY ChainByMap, IndexByMap DEF SameChains
<1>2. Claims(d, B) => Claims(e, B)
  BY <1>1 DEF Claims, SameChains
<1>3. \A s : Reserved(d, B, s) => Reserved(e, B, s)
  BY <1>1 DEF Reserved, SameChains
<1>4. ASSUME NEW b, NEW fe, fe.sctNum \in Nat, Fits(d, b, fe)
      PROVE  Fits(e, b, fe)
  BY <1>1, <1>4 DEF Fits
<1> QED
  BY <1>2, <1>3, <1>4

\* An entry is written over the one of the file n, whose place it has.
LEMMA EntryTorn ==
    ASSUME NEW d, NEW fds, NEW B, Held(d, fds, B), NEW n, NEW fe \in FileEntry,
           NEW s, s = fe.inSctIdx, NEW i, i = fe.inSctOff, Placed(d, n, s, i),
           Fits(d, B[<< s, i >>], fe), fe.name = n \/ fds[n] = Closed, n \in Name,
           NEW e, e = WithEntry(d, s, i, fe)
    PROVE  Held(e, fds, B) /\ Spares(d, e, fds, {n, fe.name})
<1>1. /\ d \in Disks /\ Claims(d, B) /\ RootHeld(d, B) /\ fds \in Descriptors
      /\ s \in Sector /\ i \in Slot
  BY EntryFields DEF Held
<1>2. /\ e \in Disks /\ SameChains(d, e) /\ e.root = d.root
      /\ \A t \in Sector \ {s} : e.sct[t] = d.sct[t]
      /\ \A k \in Nat : RootEntry(e, k) = IF At(d, k, s, i) THEN fe ELSE RootEntry(d, k)
  BY <1>1, EntryPut DEF SameChains
<1>3. \A t \in Sector, j \in Slot :
         EntriesIn(e.sct[t])[j] = IF t = s /\ j = i THEN fe ELSE EntriesIn(d.sct[t])[j]
  BY <1>1, EntriesPut
<1>4. /\ Claims(e, B) /\ \A t : Reserved(d, B, t) => Reserved(e, B, t)
      /\ \A b, ge : ge.sctNum \in Nat /\ Fits(d, b, ge) => Fits(e, b, ge)
  BY <1>1, <1>2, ClaimsByMap
<1>5. EntriesIn(d.sct[s])[i] # Missing /\ EntriesIn(d.sct[s])[i].name = n
  BY DEF Placed
<1>6. Reserved(d, B, s)
  <2>1. EntryHeld(d, B, s, i)
    BY <1>1 DEF Held
  <2> QED
    BY <1>5, <2>1 DEF EntryHeld
<1>7. RootHeld(e, B)
  <2>1. d.root.sctNum \in Nat
    BY <1>1, RootFits
  <2> QED
    BY <1>1, <1>2, <1>4, <2>1 DEF RootHeld, RootShape
<1>8. ASSUME NEW t \in Sector, NEW j \in Slot
      PROVE  EntryHeld(e, B, t, j)
  <2>1. CASE t = s /\ j = i
    <3>1. EntriesIn(e.sct[t])[j] = fe /\ fe.sctNum \in Nat
      BY <1>3, <2>1, EntryFields
    <3>2. Fits(e, B[<< s, i >>], fe) /\ Reserved(e, B, s)
      BY <1>4, <1>6, <3>1
    <3> QED
      BY <2>1, <3>1, <3>2 DEF EntryHeld
  <2>2. CASE ~(t = s /\ j = i)
    <3> DEFINE ge == EntriesIn(d.sct[t])[j]
    <3>1. EntriesIn(e.sct[t])[j] = ge /\ ge \in FileEntry \union {Missing}
      BY <1>1, <1>3, <2>2, EntryTyped
    <3>2. ge # Missing => /\ Reserved(d, B, t) /\ ge.inSctIdx = t /\ ge.inSctOff = j
                          /\ Fits(d, B[<< t, j >>], ge)
      BY <1>1 DEF Held, EntryHeld
    <3> HIDE DEF ge
    <3>3. ge # Missing => ge.sctNum \in Nat
      BY <3>1, EntryFields
    <3> QED
      BY <1>4, <3>1, <3>2, <3>3 DEF EntryHeld
  <2> QED
    BY <2>1, <2>2
<1>9. \A t, j : Seen(e, t, j) <=> Seen(d, t, j)
  <2>1. RootLen(e) = RootLen(d) /\ RootLen(d) \in Nat
    BY <1>1, <1>2, RootFits DEF RootLen
  <2>2. \A k \in 0 .. RootLen(d) - 1 : \A t, j : At(e, k, t, j) <=> At(d, k, t, j)
    <3> TAKE k \in 0 .. RootLen(d) - 1
    <3>1. k \div FE_ITEM_CNT \in Nat
      BY <2>1, Places
    <3>2. FindIndex(e, d.root.sctBegin, k \div FE_ITEM_CNT)
            = FindIndex(d, d.root.sctBegin, k \div FE_ITEM_CNT)
      BY <1>2, <3>1, IndexByMap DEF SameChains
    <3> QED
      BY <1>2, <3>2 DEF At
  <2> QED
    BY <2>1, <2>2 DEF Seen
<1>10. ASSUME NEW m \in Name, fds[m] # Closed
       PROVE  FileHeld(e, B, m, fds[m])
  <2> DEFINE fd == fds[m]
             t == fd.fe.inSctIdx
             j == fd.fe.inSctOff
  <2>1. FileHeld(d, B, m, fd) /\ fd.fe \in FileEntry
    BY <1>10, DescFields DEF Held
  <2>2. /\ fd.fe.name = m /\ Placed(d, m, t, j) /\ fd.fe.sctNum \in Nat
        /\ fd.fe.sctBegin = B[<< t, j >>] /\ Fits(d, B[<< t, j >>], fd.fe) /\ Started(fd)
    <3>1. fd.fe.sctNum \in Nat
      BY <2>1, EntryFields
    <3> QED
      BY <2>1, <3>1 DEF FileHeld
  <2>3. Placed(e, m, t, j)
    <3>1. CASE t = s /\ j = i
      <4>1. m = n
        BY <1>5, <2>2, <3>1 DEF Placed
      <4>2. fe.name = m
        BY <1>10, <4>1
      <4>3. EntriesIn(e.sct[t])[j] = fe
        <5> HIDE DEF t, j
        <5>1. EntriesIn(e.sct[s])[i] = fe
          BY <1>1, <1>3
        <5> QED
          BY <3>1, <5>1
      <4>4. fe # Missing
        BY NameAssumption, Zenon
      <4> QED
        BY <1>9, <2>2, <4>2, <4>3, <4>4 DEF Placed
    <3>2. CASE ~(t = s /\ j = i)
      BY <1>3, <1>9, <2>2, <3>2 DEF Placed
    <3> QED
      BY <3>1, <3>2
  <2>4. Fits(e, B[<< t, j >>], fd.fe)
    BY <1>4, <2>2
  <2> QED
    BY <2>2, <2>3, <2>4 DEF FileHeld
<1>11. Held(e, fds, B)
  BY <1>1, <1>2, <1>4, <1>7, <1>8, <1>10 DEF Held
<1>12. Touches(d, e, B, s)
  BY <1>2, IndexByMap DEF Touches, SameChains
<1>13. ASSUME NEW m \in Name \ {n, fe.name}
       PROVE  SameFor(d, e, m)
  <2> SUFFICES ASSUME NEW k \in 0 .. RootLen(d) - 1
               PROVE  \/ RootEntry(e, k) = RootEntry(d, k)
                      \/ /\ RootEntry(d, k) # Missing => RootEntry(d, k).name # m
                         /\ RootEntry(e, k) # Missing => RootEntry(e, k).name # m
    BY DEF SameFor
  <2>1. k \in Nat
    BY <1>1, RootFits
  <2>2. CASE At(d, k, s, i)
    <3>1. RootEntry(d, k) = EntriesIn(d.sct[s])[i]
      BY <1>1, <2>2, Numbers DEF RootEntry, At, EntryAt
    <3>2. RootEntry(e, k) = fe
      BY <1>2, <2>1, <2>2
    <3> QED
      BY <1>5, <3>1, <3>2
  <2>3. CASE ~At(d, k, s, i)
    BY <1>2, <2>1, <2>3
  <2> QED
    BY <2>2, <2>3
<1>14. \A t \in Sector, j \in Slot : s \notin Chain(d, B[<< t, j >>])
  BY <1>6, OwnerIs DEF Reserved
<1>15. Spares(d, e, fds, {n, fe.name})
  BY <1>2, <1>12, <1>13, <1>14, SparesTouched
<1> QED
  BY <1>11, <1>15

\* Bytes are written to a sector of the file n.
LEMMA BytesTorn ==
    ASSUME NEW d, NEW fds, NEW B, Held(d, fds, B), NEW n \in Name, NEW s \in Sector,
           NEW i \in Slot, Placed(d, n, s, i), NEW t \in Chain(d, B[<< s, i >>]),
           NEW cache \in [Offset -> Byte], NEW e, e = WithBytes(d, t, cache)
    PROVE  Held(e, fds, B) /\ Spares(d, e, fds, {n})
<1>1. /\ d \in Disks /\ Claims(d, B) /\ RootHeld(d, B) /\ fds \in Descriptors
      /\ << s, i >> \in Owner /\ << s, i >> # TheRoot
  BY OwnerIs DEF Held
<1>2. t \in Sector
  <2>1. PICK k \in Nat : Linked(d, B[<< s, i >>], k)
    BY <1>1 DEF Claims
  <2> QED
    BY <2>1, ChainLength
<1>3. /\ e \in Disks /\ SameChains(d, e) /\ e.root = d.root
      /\ \A r \in Sector \ {t} : e.sct[r] = d.sct[r]
  BY <1>1, <1>2, BytesWritten DEF SameChains, OnlyAt
<1>4. \A r \in Sector, j \in Slot : EntriesIn(e.sct[r])[j] = EntriesIn(d.sct[r])[j]
  <2> TAKE r \in Sector, j \in Slot
  <2>1. CASE r # t
    BY <1>3, <2>1
  <2>2. CASE r = t
    <3>1. EntriesIn(d.sct[t])[j] = Missing
      <4>1. EntryHeld(d, B, t, j)
        BY <1>2 DEF Held
      <4>2. ~Reserved(d, B, t)
        BY <1>1 DEF Reserved
      <4> QED
        BY <4>1, <4>2 DEF EntryHeld
    <3>2. EntriesIn(e.sct[t]) = [k \in Slot |-> Missing]
      <4> DEFINE c == [byte |-> cache]
      <4>1. EntriesIn(c) = [k \in Slot |-> Missing]
        BY DEF EntriesIn
      <4> HIDE DEF c
      <4>2. e.sct = [d.sct EXCEPT ![t] = c]
        BY <1>1 DEF WithBytes, Disks, DiskState, c
      <4>3. d.sct \in [Sector -> EntrySector \union DataSector]
        BY <1>1, DiskFields
      <4> QED
        BY <1>2, <4>1, <4>2, <4>3
    <3> QED
      BY <2>2, <3>1, <3>2
  <2> QED
    BY <2>1, <2>2
<1>5. /\ Claims(e, B) /\ \A r : Reserved(d, B, r) => Reserved(e, B, r)
      /\ \A b, ge : ge.sctNum \in Nat /\ Fits(d, b, ge) => Fits(e, b, ge)
  BY <1>1, <1>3, ClaimsByMap
<1>6. RootLen(e) = RootLen(d) /\ RootLen(d) \in Nat /\ RootHeld(e, B)
  <2>1. d.root.sctNum \in Nat /\ RootLen(d) \in Nat
    BY <1>1, RootFits
  <2> QED
    BY <1>1, <1>3, <1>5, <2>1 DEF RootHeld, RootShape, RootLen
<1>7. \A k \in 0 .. RootLen(d) - 1 :
         /\ \A r, j : At(e, k, r, j) <=> At(d, k, r, j)
         /\ RootEntry(e, k) = RootEntry(d, k)
  <2> TAKE k \in 0 .. RootLen(d) - 1
  <2> DEFINE r == FindIndex(d, d.root.sctBegin, k \div FE_ITEM_CNT)
             j == k % FE_ITEM_CNT
  <2>1. k \div FE_ITEM_CNT \in Nat /\ j \in Slot /\ r \in Sector
    BY <1>1, <1>6, RootFits, Places
  <2>2. FindIndex(e, d.root.sctBegin, k \div FE_ITEM_CNT) = r
    BY <1>3, <2>1, IndexByMap DEF SameChains
  <2>3. \A q, p : At(e, k, q, p) <=> At(d, k, q, p)
    BY <1>3, <2>2 DEF At
  <2>4. RootEntry(e, k) = EntryAt(e, r, j) /\ RootEntry(d, k) = EntryAt(d, r, j)
    BY <1>3, <2>2 DEF RootEntry
  <2> HIDE DEF r, j
  <2> QED
    BY <1>4, <2>1, <2>3, <2>4, Numbers DEF EntryAt
<1>8. ASSUME NEW r \in Sector, NEW j \in Slot
      PROVE  EntryHeld(e, B, r, j)
  <2> DEFINE ge == EntriesIn(d.sct[r])[j]
  <2>1. EntriesIn(e.sct[r])[j] = ge /\ ge \in FileEntry \union {Missing}
    BY <1>1, <1>4, EntryTyped
  <2>2. ge # Missing => /\ Reserved(d, B, r) /\ ge.inSctIdx = r /\ ge.inSctOff = j
                        /\ Fits(d, B[<< r, j >>], ge)
    BY <1>1 DEF Held, EntryHeld
  <2> HIDE DEF ge
  <2>3. ge # Missing => ge.sctNum \in Nat
    BY <2>1, EntryFields
  <2> QED
    BY <1>5, <2>1, <2>2, <2>3 DEF EntryHeld
<1>9. \A r, j : Seen(e, r, j) <=> Seen(d, r, j)
  BY <1>6, <1>7 DEF Seen
<1>10. ASSUME NEW m \in Name, fds[m] # Closed
       PROVE  FileHeld(e, B, m, fds[m])
  <2> DEFINE fd == fds[m]
             r == fd.fe.inSctIdx
             j == fd.fe.inSctOff
  <2>1. FileHeld(d, B, m, fd) /\ fd.fe \in FileEntry
    BY <1>10, DescFields DEF Held
  <2>2. /\ fd.fe.name = m /\ Placed(d, m, r, j) /\ fd.fe.sctNum \in Nat
        /\ fd.fe.sctBegin = B[<< r, j >>] /\ Fits(d, B[<< r, j >>], fd.fe) /\ Started(fd)
    <3>1. fd.fe.sctNum \in Nat
      BY <2>1, EntryFields
    <3> QED
      BY <2>1, <3>1 DEF FileHeld
  <2>3. Placed(e, m, r, j)
    BY <1>4, <1>9, <2>2 DEF Placed
  <2>4. Fits(e, B[<< r, j >>], fd.fe)
    BY <1>5, <2>2
  <2> QED
    BY <2>2, <2>3, <2>4 DEF FileHeld
<1>11. Held(e, fds, B)
  BY <1>1, <1>3, <1>5, <1>6, <1>8, <1>10 DEF Held
<1>12. Touches(d, e, B, t)
  BY <1>3, IndexByMap DEF Touches, SameChains
<1>13. ASSUME NEW m \in Name \ {n}, NEW r \in Sector, NEW j \in Slot, Placed(d, m, r, j)
       PROVE  t \notin Chain(d, B[<< r, j >>])
  <2>1. r # s \/ j # i
    BY <1>13 DEF Placed
  <2>2. << r, j >> # << s, i >> /\ << r, j >> \in Owner
    BY <2>1, OwnerIs
  <2> QED
    BY <1>1, <2>2 DEF Claims
<1>14. \A m \in Name \ {n} : SameFor(d, e, m)
  BY <1>7 DEF SameFor
<1>15. Spares(d, e, fds, {n})
  BY <1>3, <1>12, <1>13, <1>14, SparesTouched
<1> QED
  BY <1>11, <1>15

-----------------------------------------------------------------------------
(* Sessions. Live says of a session on the file n of a disk d0 that its     *)
(* disk is held, and that every disk it wrote is fit to be found after a    *)
(* power failure.                                                           *)

AllClosed == [n \in Name |-> Closed]

Whole(x) == \E B : Held(x, AllClosed, B)

Safe(d0, fds, N) == {x \in Disks : Whole(x) /\ Spares(d0, x, fds, N)}

Live(d0, fds, n, s, B) ==
    /\ Triple(s) /\ s.ok \in BOOLEAN /\ s.fd \in FileDesc
    /\ Past(s.w, Safe(d0, fds, {n})) /\ Held(Now(s.w), With(fds, n, s.fd), B)

LEMMA HeldClosed ==
    ASSUME NEW x, NEW fds, NEW B, Held(x, fds, B)
    PROVE  Held(x, AllClosed, B)
<1>1. AllClosed \in Descriptors /\ \A n \in Name : AllClosed[n] = Closed
  BY DEF AllClosed, Descriptors
<1> QED
  BY <1>1 DEF Held

LEMMA IsSafe ==
    ASSUME NEW d0, NEW fds, NEW N, NEW x, NEW gds, NEW B, Held(x, gds, B), Spares(d0, x, fds, N)
    PROVE  x \in Safe(d0, fds, N)
<1>1. Held(x, AllClosed, B) /\ x \in Disks
  BY HeldClosed DEF Held
<1> QED
  BY <1>1 DEF Safe, Whole

LEMMA LiveParts ==
    ASSUME NEW d0, NEW fds \in Descriptors, NEW n \in Name, NEW s, NEW B, Live(d0, fds, n, s, B)
    PROVE  /\ Held(Now(s.w), With(fds, n, s.fd), B)
           /\ Now(s.w) \in Disks /\ Claims(Now(s.w), B)
           /\ FileHeld(Now(s.w), B, n, s.fd) /\ s.fd \in FileDesc /\ s.fd.fe \in FileEntry
           /\ s.fd.fe.name = n /\ Started(s.fd) /\ Triple(s) /\ s.ok \in BOOLEAN
<1> DEFINE d == Now(s.w)
           gds == With(fds, n, s.fd)
<1>1. /\ s.fd \in FileDesc /\ Held(d, gds, B) /\ Past(s.w, Safe(d0, fds, {n}))
      /\ Triple(s) /\ s.ok \in BOOLEAN
  BY DEF Live
<1>2. gds[n] = s.fd /\ gds[n] # Closed
  BY <1>1, Withs
<1> HIDE DEF d, gds
<1>4. FileHeld(d, B, n, s.fd) /\ d \in Disks /\ Claims(d, B)
  BY <1>1, <1>2 DEF Held
<1> QED
  BY <1>1, <1>2, <1>4 DEF FileDesc, FileHeld, d, gds

LEMMA LiveSpares ==
    ASSUME NEW d0, NEW fds, NEW n, NEW s, NEW B, Live(d0, fds, n, s, B)
    PROVE  Spares(d0, Now(s.w), fds, {n})
<1>1. Past(s.w, Safe(d0, fds, {n}))
  BY DEF Live
<1>2. Now(s.w) \in Safe(d0, fds, {n})
  BY <1>1, PastNow
<1> QED
  BY <1>2 DEF Safe

\* What may be found later is safe, too.
LEMMA StaysSafe ==
    ASSUME NEW d0, NEW fds \in Descriptors, NEW n \in Name, NEW s, NEW B, Live(d0, fds, n, s, B),
           NEW x, NEW A, Held(x, AllClosed, A), NEW N, N \subseteq {n},
           Spares(Now(s.w), x, With(fds, n, s.fd), N)
    PROVE  x \in Safe(d0, fds, {n})
<1> DEFINE d == Now(s.w)
           gds == With(fds, n, s.fd)
<1>1. Spares(d0, d, fds, {n}) /\ s.fd \in FileDesc
  BY LiveSpares, LiveParts
<1>2. \A m \in Name \ {n} : fds[m] = gds[m]
  BY <1>1, Withs
<1> HIDE DEF d, gds
<1>3. Spares(d, x, gds, N)
  BY DEF d, gds
<1>4. Spares(d, x, fds, {n})
  BY <1>2, <1>3, SparesOthers
<1>5. Spares(d0, x, fds, {n})
  BY <1>1, <1>4, SparesTwice
<1> QED
  BY <1>5, IsSafe

LEMMA LiveAllows ==
    ASSUME NEW d0, NEW fds \in Descriptors, NEW n \in Name, NEW s, NEW B, Live(d0, fds, n, s, B)
    PROVE  Allows(Now(s.w), B, Safe(d0, fds, {n}))
<1> SUFFICES ASSUME NEW x, Kept(Now(s.w), x, B) PROVE x \in Safe(d0, fds, {n})
  BY DEF Allows
<1> DEFINE d == Now(s.w)
           gds == With(fds, n, s.fd)
           N == {}
<1>1. Held(d, gds, B) /\ Kept(d, x, B) /\ N = {} /\ N \subseteq {n}
  BY LiveParts
<1> HIDE DEF d, gds, N
<1>2. Held(x, gds, B) /\ Spares(d, x, gds, N)
  BY <1>1, HeldKept, KeptSpares
<1>3. Held(x, AllClosed, B)
  BY <1>2, HeldClosed
<1> QED
  BY <1>1, <1>2, <1>3, StaysSafe DEF d, gds

\* The descriptor of a file is another one that is held.
LEMMA HeldFile ==
    ASSUME NEW d, NEW gds, NEW B, Held(d, gds, B), NEW n \in Name, NEW hd \in FileDesc,
           FileHeld(d, B, n, hd), NEW hds, hds = With(gds, n, hd)
    PROVE  Held(d, hds, B)
<1>1. gds \in Descriptors
  BY DEF Held
<1>2. hds \in Descriptors /\ hds[n] = hd /\ \A m \in Name \ {n} : hds[m] = gds[m]
  BY <1>1, Withs
<1>3. ASSUME NEW m \in Name, hds[m] # Closed PROVE FileHeld(d, B, m, hds[m])
  BY <1>2, <1>3 DEF Held
<1> QED
  BY <1>2, <1>3 DEF Held

\* Another buffer, another position, and another length of the last sector.
SameSectors(fe, ge) ==
    /\ ge.name = fe.name /\ ge.inSctIdx = fe.inSctIdx /\ ge.inSctOff = fe.inSctOff
    /\ ge.sctBegin = fe.sctBegin /\ ge.sctNum = fe.sctNum

LEMMA LiveWith ==
    ASSUME NEW d0, NEW fds \in Descriptors, NEW n \in Name, NEW s, NEW B, Live(d0, fds, n, s, B),
           NEW hd \in FileDesc, SameSectors(s.fd.fe, hd.fe), Started(hd),
           NEW r, Triple(r), r.w = s.w, r.fd = hd, r.ok \in BOOLEAN
    PROVE  Live(d0, fds, n, r, B)
<1> DEFINE d == Now(s.w)
           gds == With(fds, n, s.fd)
           hds == With(fds, n, hd)
<1>1. Held(d, gds, B) /\ FileHeld(d, B, n, s.fd) /\ s.fd \in FileDesc
  BY LiveParts
<1>2. FileHeld(d, B, n, hd)
  BY <1>1 DEF FileHeld, SameSectors, Fits
<1>3. hds = With(gds, n, hd)
  BY <1>1, Withs
<1> HIDE DEF d, gds, hds
<1>4. Held(d, hds, B)
  BY <1>1, <1>2, <1>3, HeldFile
<1> QED
  BY <1>4 DEF Live, d, hds

\* The session writes a disk that is held and changes its descriptor.
LEMMA LiveWrites ==
    ASSUME NEW d0, NEW fds \in Descriptors, NEW n \in Name, NEW s, NEW B, Live(d0, fds, n, s, B),
           NEW x, Held(x, With(fds, n, s.fd), B), Spares(Now(s.w), x, With(fds, n, s.fd), {n}),
           NEW r, Triple(r), r.w = Write(s.w, x), r.fd = s.fd, r.ok \in BOOLEAN
    PROVE  Live(d0, fds, n, r, B)
<1>1. Held(x, AllClosed, B)
  BY HeldClosed
<1>2. x \in Safe(d0, fds, {n})
  BY <1>1, StaysSafe
<1>3. Past(r.w, Safe(d0, fds, {n})) /\ Now(r.w) = x
  BY <1>2, PastWrite DEF Live
<1>4. s.fd \in FileDesc
  BY DEF Live
<1> QED
  BY <1>3, <1>4 DEF Live

\* The entry is written.
LEMMA EntryLive ==
    ASSUME NEW d0, NEW fds \in Descriptors, NEW n \in Name, NEW s, NEW B, Live(d0, fds, n, s, B),
           NEW r, Triple(r), r.w = FlushFileEntry(s.w, s.fd.fe), r.fd = s.fd, r.ok \in BOOLEAN
    PROVE  Live(d0, fds, n, r, B) /\ Now(r.w).map = Now(s.w).map
<1> DEFINE d == Now(s.w)
           gds == With(fds, n, s.fd)
           fe == s.fd.fe
           t == fe.inSctIdx
           i == fe.inSctOff
           x == WithEntry(d, t, i, fe)
<1>1. /\ Held(d, gds, B) /\ d \in Disks /\ FileHeld(d, B, n, s.fd) /\ fe \in FileEntry
      /\ fe.name = n
  BY LiveParts
<1>2. /\ Placed(d, n, t, i) /\ Fits(d, B[<< t, i >>], fe)
  BY <1>1 DEF FileHeld
<1>3. r.w = Write(s.w, x)
  BY DEF FlushFileEntry
<1>4. t = fe.inSctIdx /\ i = fe.inSctOff /\ x = WithEntry(d, t, i, fe)
  OBVIOUS
<1> HIDE DEF d, gds, fe, t, i, x
<1>5. Held(x, gds, B) /\ Spares(d, x, gds, {n, fe.name})
  BY <1>1, <1>2, <1>4, EntryTorn
<1>6. {n, fe.name} = {n}
  BY <1>1
<1>7. Spares(d, x, gds, {n})
  BY <1>5, <1>6
<1>8. Live(d0, fds, n, r, B)
  BY <1>3, <1>5, <1>7, LiveWrites DEF d, gds
<1>9. Now(r.w) = x
  <2>1. Past(s.w, Safe(d0, fds, {n}))
    BY DEF Live
  <2>2. History(s.w)
    BY <2>1 DEF Past
  <2> QED
    BY <1>3, <2>2, Written
<1>10. x.map = d.map
  <2>1. t \in Sector /\ i \in Slot
    BY <1>2 DEF Placed
  <2> QED
    BY <1>1, <1>4, <2>1, EntryPut
<1> QED
  BY <1>8, <1>9, <1>10 DEF d

\* What ToFlush leaves alone.
Unmoved(s, f) ==
    /\ f.ok = s.ok /\ f.fd.fe = s.fd.fe /\ f.fd.objIdx = s.fd.objIdx
    /\ Now(f.w).map = Now(s.w).map

LEMMA FlushLive ==
    ASSUME NEW d0, NEW fds \in Descriptors, NEW n \in Name, NEW s, NEW B, Live(d0, fds, n, s, B),
           NEW f, f = ToFlush(s)
    PROVE  Live(d0, fds, n, f, B) /\ Unmoved(s, f)
<1> DEFINE d == Now(s.w)
           v == s.w
           fd == s.fd
           ok == s.ok
           fe == fd.fe
           i == fd.objIdx
           si == FindIndex(d, fe.sctBegin, i)
<1>1. /\ s = [w |-> v, fd |-> fd, ok |-> ok] /\ ok \in BOOLEAN
      /\ Held(d, With(fds, n, fd), B) /\ d \in Disks /\ Claims(d, B)
      /\ FileHeld(d, B, n, fd) /\ fd \in FileDesc /\ fe \in FileEntry /\ Started(fd)
  BY LiveParts DEF Triple
<1>2. CASE ~fd.changed
  <2> DEFINE w == FlushFileEntry(v, fe)
  <2>1. f = [s EXCEPT !.w = w]
    BY <1>2 DEF ToFlush
  <2> HIDE DEF w
  <2>2. f = [w |-> w, fd |-> fd, ok |-> ok]
    <3> HIDE DEF v, fd, ok
    <3> QED
      BY <1>1, <2>1
  <2>3. f.w = FlushFileEntry(s.w, s.fd.fe) /\ f.fd = s.fd /\ f.ok = s.ok /\ Triple(f)
    BY <2>2 DEF w, Triple
  <2>4. Live(d0, fds, n, f, B) /\ Now(f.w).map = Now(s.w).map
    BY <1>1, <2>3, EntryLive
  <2> QED
    BY <2>3, <2>4 DEF Unmoved
<1>3. CASE fd.changed /\ si = End
  BY <1>3 DEF ToFlush, Unmoved
<1>4. CASE fd.changed /\ si # End
  <2> DEFINE cache == fd.cache
             x == WithBytes(d, si, cache)
             u == Write(v, x)
             w == FlushFileEntry(u, fe)
             hd == [fd EXCEPT !.changed = FALSE]
             p == [w |-> u, fd |-> fd, ok |-> ok]
             q == [w |-> u, fd |-> hd, ok |-> ok]
             t == fe.inSctIdx
             j == fe.inSctOff
             o == << t, j >>
  <2>1. f = [s EXCEPT !.w = w, !.fd.changed = FALSE]
    BY <1>4 DEF ToFlush, WithBytes
  <2>2. i # End /\ i \in Nat /\ cache \in [Offset -> Byte]
    BY <1>1, <1>4, Numbers DEF Started, FileDesc
  <2>3. /\ hd \in FileDesc /\ hd.fe = fe /\ hd.objIdx = i
    BY <1>1 DEF FileDesc
  <2>4. Placed(d, n, t, j) /\ fe.sctBegin = B[o] /\ o \in Owner /\ t \in Sector /\ j \in Slot
    BY <1>1, EntryFields DEF FileHeld
  <2>5. si \in Chain(d, B[o]) /\ si \in Sector
    <3>1. FindIndex(d, B[o], i) # End /\ si = FindIndex(d, B[o], i)
      BY <1>4, <2>4
    <3> HIDE DEF o, i, si
    <3> QED
      BY <1>1, <2>2, <2>4, <3>1, InChain
  <2>6. p.w = Write(s.w, x) /\ p.fd = s.fd /\ p.ok = ok /\ Triple(p)
    BY DEF Triple
  <2>7. q.w = p.w /\ q.fd = hd /\ q.ok = ok /\ Triple(q)
    BY DEF Triple
  <2>8. x = WithBytes(d, si, cache)
    OBVIOUS
  <2>9. x.map = d.map
    BY <1>1, <2>2, <2>5, BytesWritten DEF OnlyAt
  <2> DEFINE gds == With(fds, n, fd)
  <2>10. Held(x, gds, B) /\ Spares(d, x, gds, {n})
    <3>1. si \in Chain(d, B[<< t, j >>]) /\ Held(d, gds, B)
      BY <1>1, <2>5
    <3> HIDE DEF x, d, gds, si, cache, t, j, o
    <3> QED
      BY <2>2, <2>4, <2>8, <3>1, BytesTorn
  <2>11. f = [w |-> w, fd |-> hd, ok |-> ok]
    <3> HIDE DEF v, fd, ok, w
    <3> QED
      BY <1>1, <2>1
  <2>12. f.w = FlushFileEntry(q.w, q.fd.fe) /\ f.fd = q.fd /\ f.ok = q.ok /\ Triple(f)
    <3>1. w = FlushFileEntry(q.w, q.fd.fe) /\ q.fd = hd /\ q.ok = ok
      BY <2>3
    <3> HIDE DEF w, q, hd
    <3> QED
      BY <2>11, <3>1 DEF Triple
  <2> HIDE DEF p, q, x, hd, u, w
  <2>13. Live(d0, fds, n, p, B)
    BY <1>1, <2>6, <2>10, LiveWrites DEF gds
  <2>14. Live(d0, fds, n, q, B)
    <3>1. SameSectors(p.fd.fe, hd.fe) /\ Started(hd)
      BY <2>2, <2>3, <2>6 DEF SameSectors, Started
    <3> QED
      BY <1>1, <2>3, <2>7, <2>13, <3>1, LiveWith
  <2>15. Live(d0, fds, n, f, B) /\ Now(f.w).map = Now(q.w).map
    BY <1>1, <2>7, <2>12, <2>14, EntryLive
  <2>16. Now(q.w) = x
    <3>1. Past(s.w, Safe(d0, fds, {n}))
      BY DEF Live
    <3>2. History(s.w)
      BY <3>1 DEF Past
    <3> QED
      BY <2>6, <2>7, <3>2, Written
  <2> QED
    BY <2>3, <2>7, <2>9, <2>12, <2>15, <2>16 DEF Unmoved
<1> QED
  BY <1>2, <1>3, <1>4

-----------------------------------------------------------------------------
(* A chain that got a sector *)

LEMMA StoredKept ==
    ASSUME NEW d \in Disks, NEW B, Claims(d, B), NEW e, Kept(d, e, B), NEW o \in Owner,
           NEW fe, fe.sctBegin = B[o], NEW ge, NEW A, A = Gets(B, o, ge.sctBegin),
           Stored(d, e, B, A, fe, ge)
    PROVE  /\ Claims(e, A) /\ A[o] = ge.sctBegin
           /\ \A p \in Owner : p # o => A[p] = B[p]
           /\ \A s : Reserved(d, B, s) => Reserved(e, A, s)
           /\ \A p \in Owner : \A x : x.sctNum \in Nat /\ Fits(d, B[p], x) => Fits(e, A[p], x)
<1>1. Claims(e, A) /\ ge.sctBegin \in Sector /\ B[o] \in {End, ge.sctBegin}
  BY DEF Stored
<1>2. A[o] = ge.sctBegin /\ \A p \in Owner : p # o => A[p] = B[p]
  BY DEF Gets, Claims
<1>3. \A s : Reserved(d, B, s) => Reserved(e, A, s)
  <2>1. \A p \in Owner : Chain(e, A[p]) \subseteq Chain(d, B[p]) \union Chain(d, d.freeBegin)
    BY DEF Stored
  <2>2. Chain(e, e.freeBegin) \subseteq Chain(d, d.freeBegin)
    BY DEF Kept
  <2> QED
    BY <2>1, <2>2 DEF Reserved
<1>4. ASSUME NEW p \in Owner, NEW x, x.sctNum \in Nat, Fits(d, B[p], x)
      PROVE  Fits(e, A[p], x)
  <2> DEFINE b == B[p]
  <2>1. Fits(d, b, x) /\ b = B[p]
    BY <1>4
  <2> HIDE DEF b
  <2>2. Fits(e, b, x)
    BY <1>4, <2>1, FitsKept
  <2>3. b \in {End, A[p]}
    BY <1>1, <1>2, <2>1
  <2> QED
    BY <2>2, <2>3 DEF Fits
<1> QED
  BY <1>1, <1>2, <1>3, <1>4

\* All but the files that are open, and the directory when it is the one that grew.
LEMMA EntriesStored ==
    ASSUME NEW d, NEW gds, NEW B, Held(d, gds, B), NEW e, Kept(d, e, B), NEW o \in Owner,
           NEW fe, fe.sctBegin = B[o], NEW ge, NEW A, A = Gets(B, o, ge.sctBegin),
           Stored(d, e, B, A, fe, ge)
    PROVE  \A s \in Sector, i \in Slot : EntryHeld(e, A, s, i)
<1>1. d \in Disks /\ Claims(d, B) /\ e.sct = d.sct
  BY DEF Held, Kept
<1>2. /\ \A s : Reserved(d, B, s) => Reserved(e, A, s)
      /\ \A p \in Owner : \A x : x.sctNum \in Nat /\ Fits(d, B[p], x) => Fits(e, A[p], x)
  BY <1>1, StoredKept
<1> SUFFICES ASSUME NEW s \in Sector, NEW i \in Slot PROVE EntryHeld(e, A, s, i)
  OBVIOUS
<1> DEFINE x == EntriesIn(d.sct[s])[i]
<1>3. x \in FileEntry \union {Missing} /\ << s, i >> \in Owner
  BY <1>1, EntryTyped, OwnerIs
<1>4. x # Missing => /\ Reserved(d, B, s) /\ x.inSctIdx = s /\ x.inSctOff = i
                     /\ Fits(d, B[<< s, i >>], x)
  BY DEF Held, EntryHeld
<1>5. EntryHeld(e, A, s, i) <=>
        (x # Missing => /\ Reserved(e, A, s) /\ x.inSctIdx = s /\ x.inSctOff = i
                        /\ Fits(e, A[<< s, i >>], x))
  BY <1>1 DEF EntryHeld
<1> HIDE DEF x
<1>6. x # Missing => x.sctNum \in Nat
  BY <1>3, EntryFields
<1> QED
  BY <1>2, <1>3, <1>4, <1>5, <1>6

LEMMA FilesStored ==
    ASSUME NEW d, NEW gds, NEW B, Held(d, gds, B), NEW e, Kept(d, e, B), NEW o \in Owner,
           NEW fe, fe.sctBegin = B[o], NEW ge, NEW A, A = Gets(B, o, ge.sctBegin),
           Stored(d, e, B, A, fe, ge), NEW m \in Name, gds[m] # Closed,
           << gds[m].fe.inSctIdx, gds[m].fe.inSctOff >> # o
    PROVE  FileHeld(e, A, m, gds[m])
<1> DEFINE fd == gds[m]
           s == fd.fe.inSctIdx
           i == fd.fe.inSctOff
           p == << s, i >>
<1>1. d \in Disks /\ Claims(d, B) /\ e.sct = d.sct /\ gds \in Descriptors /\ RootHeld(d, B)
  BY DEF Held, Kept
<1>2. /\ \A q \in Owner : q # o => A[q] = B[q]
      /\ \A q \in Owner : \A x : x.sctNum \in Nat /\ Fits(d, B[q], x) => Fits(e, A[q], x)
  BY <1>1, StoredKept
<1>3. fd.fe \in FileEntry /\ FileHeld(d, B, m, fd)
  BY <1>1, DescFields DEF Held
<1>4. p \in Owner /\ fd.fe.sctNum \in Nat /\ p # o
  BY <1>3, EntryFields
<1>5. /\ fd.fe.name = m /\ Placed(d, m, s, i)
      /\ fd.fe.sctBegin = B[p] /\ Fits(d, B[p], fd.fe) /\ Started(fd)
  BY <1>3 DEF FileHeld
<1>6. A[p] = B[p] /\ Fits(e, A[p], fd.fe)
  BY <1>2, <1>4, <1>5
<1>7. Placed(e, m, s, i)
  <2>1. Seen(e, s, i) <=> Seen(d, s, i)
    BY <1>1, SeenKept
  <2> QED
    BY <1>1, <1>5, <2>1 DEF Placed
<1> QED
  BY <1>5, <1>6, <1>7 DEF FileHeld

\* The file of a session grew.
LEMMA HeldStored ==
    ASSUME NEW d, NEW gds, NEW B, Held(d, gds, B), NEW n \in Name, gds[n] # Closed,
           NEW fe, fe = gds[n].fe, NEW o, o = << fe.inSctIdx, fe.inSctOff >>,
           NEW e, Kept(d, e, B), NEW ge, NEW A, A = Gets(B, o, ge.sctBegin),
           Stored(d, e, B, A, fe, ge),
           NEW hd \in FileDesc, hd.fe = ge, Started(hd), NEW hds, hds = With(gds, n, hd)
    PROVE  Held(e, hds, A)
<1> DEFINE s == fe.inSctIdx
           i == fe.inSctOff
<1>1. /\ d \in Disks /\ Claims(d, B) /\ e.sct = d.sct /\ gds \in Descriptors /\ RootHeld(d, B)
      /\ e \in Disks /\ FileHeld(d, B, n, gds[n])
  BY DEF Held, Kept
<1>2. fe \in FileEntry
  BY <1>1, DescFields
<1>3. o \in Owner /\ o # TheRoot /\ TheRoot \in Owner
  BY <1>2, EntryFields, OwnerIs
<1>4. fe.name = n /\ Placed(d, n, s, i) /\ fe.sctBegin = B[o]
  BY <1>1 DEF FileHeld
<1> HIDE DEF s, i
<1>5. /\ Claims(e, A) /\ A[o] = ge.sctBegin /\ \A p \in Owner : p # o => A[p] = B[p]
  BY <1>1, <1>3, <1>4, StoredKept
<1>6. RootHeld(e, A)
  <2>1. RootHeld(e, B)
    BY <1>1, SeenKept
  <2>2. A[TheRoot] = B[TheRoot]
    BY <1>3, <1>5
  <2> QED
    BY <2>1, <2>2 DEF RootHeld
<1>7. \A t \in Sector, j \in Slot : EntryHeld(e, A, t, j)
  BY <1>3, <1>4, EntriesStored
<1>8. ASSUME NEW m \in Name \ {n}, gds[m] # Closed
      PROVE  FileHeld(e, A, m, gds[m])
  <2> DEFINE p == << gds[m].fe.inSctIdx, gds[m].fe.inSctOff >>
  <2>1. FileHeld(d, B, m, gds[m])
    BY <1>8 DEF Held
  <2>2. p # o
    <3>1. o = << s, i >> /\ EntriesIn(d.sct[s])[i].name = n
      BY <1>4 DEF Placed, s, i
    <3>2. Placed(d, m, gds[m].fe.inSctIdx, gds[m].fe.inSctOff)
      BY <2>1 DEF FileHeld
    <3> QED
      BY <1>8, <3>1, <3>2 DEF Placed
  <2> QED
    BY <1>3, <1>4, <1>8, <2>2, FilesStored
<1>9. FileHeld(e, A, n, hd)
  <2>1. /\ SameRecord(fe, ge) /\ ge.sctBegin \in Sector /\ Fits(e, ge.sctBegin, ge)
    BY DEF Stored
  <2>2. ge.name = n /\ ge.inSctIdx = s /\ ge.inSctOff = i
    BY <1>2, <1>4, <2>1 DEF SameRecord, s, i
  <2>3. Placed(e, n, s, i)
    <3>1. Seen(e, s, i) <=> Seen(d, s, i)
      BY <1>1, SeenKept
    <3> QED
      BY <1>1, <1>4, <3>1 DEF Placed
  <2>4. o = << s, i >>
    BY DEF s, i
  <2> QED
    BY <1>5, <2>1, <2>2, <2>3, <2>4 DEF FileHeld
<1>10. hds \in Descriptors /\ hds[n] = hd /\ \A m \in Name \ {n} : hds[m] = gds[m]
  BY <1>1, Withs
<1>11. ASSUME NEW m \in Name, hds[m] # Closed PROVE FileHeld(e, A, m, hds[m])
  <2>1. CASE m = n
    BY <1>9, <1>10, <2>1
  <2>2. CASE m # n
    BY <1>8, <1>10, <1>11, <2>2
  <2> QED
    BY <2>1, <2>2
<1> QED
  BY <1>1, <1>5, <1>6, <1>7, <1>10, <1>11 DEF Held

Alive(d0, fds, n, s) == \E B : Live(d0, fds, n, s, B)

LEMMA StorageLive ==
    ASSUME NEW d0, NEW fds \in Descriptors, NEW n \in Name, NEW s, NEW B, Live(d0, fds, n, s, B),
           NEW t, t = StorageChecked(s)
    PROVE  Alive(d0, fds, n, t)
<1> DEFINE d == Now(s.w)
           v == s.w
           fd == s.fd
           ok == s.ok
           fe == fd.fe
           gds == With(fds, n, fd)
           X == Safe(d0, fds, {n})
           c == CheckStorage(v, fe)
           w == c[1]
           ge == c[2]
           hd == [fd EXCEPT !.fe = ge]
<1>1. /\ s = [w |-> v, fd |-> fd, ok |-> ok] /\ ok \in BOOLEAN
      /\ Held(d, gds, B) /\ d \in Disks /\ Claims(d, B)
      /\ FileHeld(d, B, n, fd) /\ fd \in FileDesc /\ fe \in FileEntry /\ Started(fd)
  BY LiveParts DEF Triple
<1>2. Past(v, X) /\ Allows(d, B, X)
  <2>1. Past(v, X)
    BY DEF Live
  <2> QED
    BY <2>1, LiveAllows
<1>3. t = [s EXCEPT !.w = w, !.fd.fe = ge]
  BY DEF StorageChecked
<1>4. gds[n] = fd /\ gds[n] # Closed /\ gds \in Descriptors
  BY <1>1, Withs
<1>5. CASE fe.lastBytes # SECT_SIZE \/ d.freeBegin = End
  <2>1. c = << v, fe >>
    BY <1>5 DEF CheckStorage
  <2>2. w = v /\ ge = fe
    BY <2>1
  <2>3. [fd EXCEPT !.fe = fe] = fd
    BY <1>1 DEF FileDesc
  <2>4. t = s
    <3> HIDE DEF v, fd, ok, w, ge, fe
    <3>1. t = [w |-> v, fd |-> [fd EXCEPT !.fe = fe], ok |-> ok]
      BY <1>1, <1>3, <2>2
    <3> QED
      BY <1>1, <2>3, <3>1
  <2> QED
    BY <2>4 DEF Alive
<1>6. CASE fe.lastBytes = SECT_SIZE /\ d.freeBegin # End
  <2> DEFINE o == << fe.inSctIdx, fe.inSctOff >>
             A == Gets(B, o, ge.sctBegin)
             e == Now(w)
             b == B[o]
  <2>1. o \in Owner /\ fe \in Records /\ fe.sctBegin = b /\ Fits(d, b, fe)
    BY <1>1, EntryFields DEF FileHeld
  <2>2. Past(w, X) /\ Kept(d, e, B) /\ Stored(d, e, B, A, fe, ge)
    <3>1. Past(v, X) /\ d = Now(v) /\ b = B[o] /\ c = CheckStorage(v, fe)
      BY <1>2
    <3> HIDE DEF v, d, fe, X, o, b, c
    <3> QED
      BY <1>1, <1>2, <1>6, <2>1, <3>1, StorageTorn
  <2> HIDE DEF c, w, ge
  <2>3. ge \in FileEntry
    BY <1>1, <2>2 DEF Stored, SameRecord
  <2>4. hd \in FileDesc /\ hd.fe = ge /\ hd.objIdx = fd.objIdx /\ Started(hd)
    BY <1>1, <2>3 DEF FileDesc, Started
  <2>5. t = [w |-> w, fd |-> hd, ok |-> ok]
    <3> HIDE DEF v, fd, ok, fe
    <3> QED
      BY <1>1, <1>3
  <2> HIDE DEF hd, A, e
  <2>6. Held(e, With(gds, n, hd), A)
    <3>1. fe = gds[n].fe /\ o = << fe.inSctIdx, fe.inSctOff >> /\ A = Gets(B, o, ge.sctBegin)
      BY <1>4 DEF A
    <3> HIDE DEF gds, d, fe, o
    <3> QED
      BY <1>1, <1>4, <2>2, <2>4, <3>1, HeldStored
  <2>7. With(gds, n, hd) = With(fds, n, hd)
    BY <1>1, Withs
  <2>8. Live(d0, fds, n, t, A)
    BY <1>1, <2>2, <2>4, <2>5, <2>6, <2>7 DEF Live, Triple, e
  <2> QED
    BY <2>8 DEF Alive
<1> QED
  BY <1>1, <1>5, <1>6

-----------------------------------------------------------------------------
(* Sessions: reading, writing and seeking *)

LEMMA ReadLive ==
    ASSUME NEW d0, NEW fds \in Descriptors, NEW n \in Name, NEW s, NEW B, Live(d0, fds, n, s, B),
           NEW idx \in Nat, NEW r, r = ReadToCache(s, idx)
    PROVE  Live(d0, fds, n, r, B) /\ (r.ok => Ready(r.fd))
<1> DEFINE d == Now(s.w)
           v == s.w
           fd == s.fd
           ok == s.ok
           fe == fd.fe
           si == FindIndex(d, fe.sctBegin, idx)
           f == ToFlush(s)
           fw == f.w
           ffd == f.fd
           fok == f.ok
           x == Now(fw)
           cache == BytesIn(x.sct[si])
<1>1. /\ s = [w |-> v, fd |-> fd, ok |-> ok] /\ ok \in BOOLEAN
      /\ d \in Disks /\ Claims(d, B)
      /\ FileHeld(d, B, n, fd) /\ fd \in FileDesc /\ fe \in FileEntry /\ Started(fd)
  BY LiveParts DEF Triple
<1>2. Live(d0, fds, n, f, B) /\ Unmoved(s, f)
  BY FlushLive
<1>3. /\ f = [w |-> fw, fd |-> ffd, ok |-> fok] /\ fok \in BOOLEAN
      /\ x \in Disks /\ ffd \in FileDesc /\ ffd.fe = fe /\ Started(ffd)
  BY <1>2, LiveParts DEF Triple, Unmoved
<1>4. fe.sctNum \in 0 .. dataSize /\ dataSize \in Nat
  BY <1>1, EntryFields, Numbers
<1>5. CASE idx >= fe.sctNum
  <2>1. r = [s EXCEPT !.ok = FALSE]
    BY <1>5 DEF ReadToCache
  <2>2. r = [w |-> v, fd |-> fd, ok |-> FALSE]
    <3> HIDE DEF v, fd, ok
    <3> QED
      BY <1>1, <2>1
  <2>3. r.w = s.w /\ r.fd = s.fd /\ r.ok = FALSE /\ Triple(r)
    BY <2>2 DEF Triple
  <2>4. SameSectors(s.fd.fe, fd.fe) /\ Started(fd) /\ fd = s.fd
    BY <1>1 DEF SameSectors
  <2> HIDE DEF fd
  <2>5. Live(d0, fds, n, r, B)
    BY <1>1, <2>3, <2>4, LiveWith
  <2> QED
    BY <2>3, <2>5
<1>6. CASE idx < fe.sctNum /\ si = End
  <2>1. r = [f EXCEPT !.ok = FALSE]
    BY <1>4, <1>6 DEF ReadToCache
  <2> HIDE DEF f
  <2>2. r = [w |-> fw, fd |-> ffd, ok |-> FALSE]
    <3> HIDE DEF fw, ffd, fok
    <3> QED
      BY <1>3, <2>1
  <2>3. r.w = f.w /\ r.fd = f.fd /\ r.ok = FALSE /\ Triple(r)
    BY <2>2 DEF Triple
  <2>4. SameSectors(f.fd.fe, ffd.fe) /\ Started(ffd) /\ ffd = f.fd
    BY <1>3 DEF SameSectors
  <2> HIDE DEF ffd
  <2>5. Live(d0, fds, n, r, B)
    BY <1>2, <1>3, <2>3, <2>4, LiveWith
  <2> QED
    BY <2>3, <2>5
<1>7. CASE idx < fe.sctNum /\ si # End
  <2> DEFINE hd == [ffd EXCEPT !.objIdx = idx, !.offset = 0, !.changed = FALSE,
                               !.cache = cache]
  <2>1. ~ (idx >= fe.sctNum)
    BY <1>4, <1>7
  <2>2. r = [f EXCEPT !.fd.objIdx = idx, !.fd.offset = 0, !.fd.changed = FALSE,
                      !.fd.cache = cache]
    BY <1>7, <2>1 DEF ReadToCache
  <2>3. si \in Sector
    <3> DEFINE o == << fe.inSctIdx, fe.inSctOff >>
    <3>1. fe.sctBegin = B[o] /\ o \in Owner
      BY <1>1, EntryFields DEF FileHeld
    <3>2. si = FindIndex(d, B[o], idx)
      BY <3>1
    <3> HIDE DEF o, d, si
    <3> QED
      BY <1>1, <1>7, <3>1, <3>2, InChain
  <2>4. cache \in [Offset -> Byte]
    <3>1. x.sct[si] \in EntrySector \union DataSector
      BY <1>3, <2>3, DiskFields
    <3> QED
      BY <3>1, EntriesKind
  <2> HIDE DEF cache
  <2>5. idx \in Sector /\ idx # End /\ 0 \in 0 .. SECT_SIZE /\ 0 \in Offset
    <3>1. idx \in 0 .. dataSize - 1
      BY <1>4, <1>7
    <3>2. 0 \in 0 .. SECT_SIZE /\ 0 \in 0 .. SECT_SIZE - 1
      BY Sizes
    <3> QED
      BY <3>1, <3>2, Numbers DEF Sector, Offset
  <2> HIDE DEF f
  <2>6. /\ hd \in FileDesc /\ hd.fe = fe /\ hd.objIdx = idx /\ hd.offset = 0
    BY <1>3, <2>4, <2>5 DEF FileDesc
  <2>7. r = [w |-> fw, fd |-> hd, ok |-> fok]
    <3> HIDE DEF fw, ffd, fok
    <3> QED
      BY <1>3, <2>2
  <2> HIDE DEF hd
  <2>8. r.w = f.w /\ r.fd = hd /\ r.ok \in BOOLEAN /\ Triple(r)
    BY <1>3, <2>7 DEF Triple
  <2>9. SameSectors(f.fd.fe, hd.fe) /\ Started(hd)
    BY <1>3, <2>5, <2>6 DEF SameSectors, Started
  <2>10. Live(d0, fds, n, r, B)
    BY <1>2, <2>6, <2>8, <2>9, LiveWith
  <2> QED
    BY <2>5, <2>6, <2>8, <2>10 DEF Ready
<1> QED
  BY <1>4, <1>5, <1>6, <1>7

LEMMA PreparedLive ==
    ASSUME NEW d0, NEW fds \in Descriptors, NEW n \in Name, NEW s, Alive(d0, fds, n, s),
           NEW p, p = Prepared(s)
    PROVE  Alive(d0, fds, n, p) /\ (p.ok => Ready(p.fd))
<1>1. PICK B : Live(d0, fds, n, s, B)
  BY DEF Alive
<1>2. s.fd \in FileDesc /\ Started(s.fd)
  BY <1>1, LiveParts
<1>3. CASE s.fd.offset = SECT_SIZE
  <2> DEFINE t == StorageChecked(s)
             idx == s.fd.objIdx + 1
  <2>1. p = ReadToCache(t, idx)
    BY <1>3 DEF Prepared, PrepareCache, StorageChecked
  <2>2. idx \in Nat
    <3>1. s.fd.objIdx \in Nat \union {-1}
      BY <1>2, Numbers DEF FileDesc, End
    <3> QED
      BY <3>1
  <2>3. t = StorageChecked(s)
    OBVIOUS
  <2> HIDE DEF t, idx
  <2>4. Alive(d0, fds, n, t)
    BY <1>1, <2>3, StorageLive
  <2>5. PICK A : Live(d0, fds, n, t, A)
    BY <2>4 DEF Alive
  <2>6. Live(d0, fds, n, p, A) /\ (p.ok => Ready(p.fd))
    BY <2>1, <2>2, <2>5, ReadLive
  <2> QED
    BY <2>6 DEF Alive
<1>4. CASE s.fd.offset # SECT_SIZE
  <2>1. p = s
    BY <1>4 DEF Prepared
  <2>2. s.fd.offset \in 0 .. SECT_SIZE /\ s.fd.objIdx # End
    BY <1>2, <1>4 DEF FileDesc, Started
  <2>3. s.fd.offset \in Offset
    BY <1>4, <2>2, Sizes DEF Offset
  <2> QED
    BY <2>1, <2>2, <2>3 DEF Ready
<1> QED
  BY <1>3, <1>4

LEMMA CopyLive ==
    ASSUME NEW d0, NEW fds \in Descriptors, NEW n \in Name, NEW p, Alive(d0, fds, n, p),
           Ready(p.fd), NEW b \in Byte, NEW r, r = [p EXCEPT !.fd = CopyToCache(@, b)]
    PROVE  Alive(d0, fds, n, r)
<1> DEFINE v == p.w
           fd == p.fd
           ok == p.ok
           k == fd.offset
           last == IF fd.objIdx = fd.fe.sctNum - 1 /\ fd.fe.lastBytes < k + 1
                   THEN k + 1 ELSE fd.fe.lastBytes
           fe == [fd.fe EXCEPT !.lastBytes = last]
           cache == [fd.cache EXCEPT ![k] = b]
           hd == [fd EXCEPT !.cache = cache, !.offset = k + 1, !.changed = TRUE, !.fe = fe]
<1>0. PICK B : Live(d0, fds, n, p, B)
  BY DEF Alive
<1>1. /\ p = [w |-> v, fd |-> fd, ok |-> ok] /\ ok \in BOOLEAN
      /\ fd \in FileDesc /\ Started(fd)
  BY <1>0, LiveParts DEF Triple
<1>2. k \in Offset /\ fd.objIdx # End
  BY DEF Ready
<1>3. k + 1 \in 0 .. SECT_SIZE /\ k \in Nat
  BY <1>2, Sizes DEF Offset
<1>4. fd.fe \in FileEntry /\ fd.cache \in [Offset -> Byte] /\ fd.objIdx \in Sector
  BY <1>1, <1>2 DEF FileDesc
<1>5. last \in 0 .. SECT_SIZE
  BY <1>3, <1>4 DEF FileEntry
<1> HIDE DEF last
<1>6. /\ fe \in FileEntry /\ SameSectors(fd.fe, fe)
  BY <1>4, <1>5 DEF FileEntry, SameSectors
<1>7. cache \in [Offset -> Byte]
  BY <1>2, <1>4
<1>8. CopyToCache(fd, b) = hd
  <2>1. fd \in [fe : FileEntry, objIdx : Sector \union {End}, offset : 0 .. SECT_SIZE,
                changed : BOOLEAN, cache : [Offset -> Byte]]
    BY <1>1 DEF FileDesc
  <2> DEFINE f == CopyToCache(fd, b)
  <2>2. f = [fd EXCEPT !.cache[fd.offset] = b, !.offset = @ + 1, !.changed = TRUE,
               !.fe.lastBytes = IF fd.objIdx = fd.fe.sctNum - 1 /\ @ < fd.offset + 1
                                THEN fd.offset + 1 ELSE @]
    BY DEF CopyToCache
  <2> HIDE DEF f
  <2>3. f = hd
    BY <2>1, <2>2 DEF last
  <2> QED
    BY <2>3 DEF f
<1> HIDE DEF fe, cache
<1>9. /\ hd \in FileDesc /\ hd.fe = fe /\ hd.objIdx = fd.objIdx
  BY <1>1, <1>3, <1>6, <1>7 DEF FileDesc
<1>10. r = [w |-> v, fd |-> hd, ok |-> ok]
  <2>1. r = [p EXCEPT !.fd = hd]
    BY <1>8
  <2> HIDE DEF v, fd, ok, hd
  <2> QED
    BY <1>1, <2>1
<1> HIDE DEF hd
<1>11. r.w = p.w /\ r.fd = hd /\ r.ok \in BOOLEAN /\ Triple(r)
  BY <1>1, <1>10 DEF Triple
<1>12. Started(hd) /\ SameSectors(p.fd.fe, hd.fe)
  BY <1>2, <1>6, <1>9 DEF Started
<1>13. Live(d0, fds, n, r, B)
  BY <1>0, <1>9, <1>11, <1>12, LiveWith
<1> QED
  BY <1>13 DEF Alive

LEMMA WriteByteLive ==
    ASSUME NEW d0, NEW fds \in Descriptors, NEW n \in Name, NEW s, Alive(d0, fds, n, s),
           NEW b \in Byte
    PROVE  Alive(d0, fds, n, WriteByte(s, b))
<1> DEFINE p == Prepared(s)
<1>1. Alive(d0, fds, n, p) /\ (p.ok => Ready(p.fd))
  BY PreparedLive
<1> HIDE DEF p
<1>2. CASE ~s.ok
  BY <1>2 DEF WriteByte
<1>3. CASE s.ok /\ ~p.ok
  <2>1. WriteByte(s, b) = p
    BY <1>3 DEF WriteByte, p
  <2> QED
    BY <1>1, <2>1
<1>4. CASE s.ok /\ p.ok
  <2> DEFINE r == WriteByte(s, b)
  <2>1. r = [p EXCEPT !.fd = CopyToCache(@, b)]
    BY <1>4 DEF WriteByte, p
  <2> HIDE DEF r
  <2>2. Alive(d0, fds, n, r)
    BY <1>1, <1>4, <2>1, CopyLive
  <2> QED
    BY <2>2 DEF r
<1> QED
  BY <1>2, <1>3, <1>4

LEMMA ReadByteLive ==
    ASSUME NEW d0, NEW fds \in Descriptors, NEW n \in Name, NEW s, Alive(d0, fds, n, s)
    PROVE  Alive(d0, fds, n, ReadByte(s))
<1> DEFINE p == Prepared(s)
           v == p.w
           fd == p.fd
           ok == p.ok
           hd == [fd EXCEPT !.offset = fd.offset + 1]
           r == ReadByte(s)
<1>1. Alive(d0, fds, n, p) /\ (p.ok => Ready(p.fd))
  BY PreparedLive
<1>2. CASE ~s.ok
  BY <1>2 DEF ReadByte
<1>3. CASE s.ok /\ ~p.ok
  BY <1>1, <1>3 DEF ReadByte
<1>4. CASE s.ok /\ p.ok
  <2>1. r = [p EXCEPT !.fd.offset = @ + 1]
    BY <1>4 DEF ReadByte
  <2> HIDE DEF p, r
  <2>2. PICK B : Live(d0, fds, n, p, B)
    BY <1>1 DEF Alive
  <2>3. p = [w |-> v, fd |-> fd, ok |-> ok] /\ fd \in FileDesc /\ ok \in BOOLEAN
    BY <2>2, LiveParts DEF Triple
  <2>4. fd.offset + 1 \in 0 .. SECT_SIZE /\ fd.objIdx # End
    BY <1>1, <1>4, Sizes DEF Ready, Offset
  <2>5. /\ hd \in FileDesc /\ hd.fe = fd.fe /\ hd.objIdx = fd.objIdx
    BY <2>3, <2>4 DEF FileDesc
  <2>6. r = [w |-> v, fd |-> hd, ok |-> ok]
    <3> HIDE DEF v, fd, ok
    <3> QED
      BY <2>1, <2>3
  <2> HIDE DEF hd
  <2>7. r.w = p.w /\ r.fd = hd /\ r.ok \in BOOLEAN /\ Triple(r)
    BY <2>3, <2>6 DEF Triple
  <2>8. Started(hd) /\ SameSectors(p.fd.fe, hd.fe)
    BY <2>4, <2>5 DEF Started, SameSectors
  <2>9. Live(d0, fds, n, r, B)
    BY <2>2, <2>5, <2>7, <2>8, LiveWith
  <2> QED
    BY <2>9 DEF Alive, r
<1> QED
  BY <1>2, <1>3, <1>4

LEMMA ToWriteLive ==
    ASSUME NEW d0, NEW fds \in Descriptors, NEW n \in Name, NEW s, Alive(d0, fds, n, s),
           NEW data \in Seq(Byte)
    PROVE  Alive(d0, fds, n, ToWrite(s, data))
<1> DEFINE l == Len(data)
           at == CHOOSE f : WriteLoop(s, data, l, f)
           r == ToWrite(s, data)
<1>1. l \in Nat /\ \A i \in 1 .. l : data[i] \in Byte
  OBVIOUS
<1>2. WriteLoop(s, data, l, at)
  BY <1>1, WriteLoopExists
<1>3. r = at[l]
  BY DEF ToWrite, WriteLoop
<1> HIDE DEF at, l
<1> DEFINE S == {i \in Nat : i <= l /\ ~ Alive(d0, fds, n, at[i])}
<1>4. S = {}
  <2> SUFFICES ASSUME S # {} PROVE FALSE
    OBVIOUS
  <2>1. PICK k \in S : \A j \in S : k <= j
    <3>1. S \subseteq Nat
      OBVIOUS
    <3> QED
      BY <3>1, Least
  <2>2. k # 0
    BY <1>1, <1>2, <2>1 DEF WriteLoop
  <2>3. k - 1 \in Nat /\ k - 1 \notin S /\ k - 1 <= l /\ k \in 1 .. l
    BY <1>1, <2>1, <2>2
  <2>4. Alive(d0, fds, n, at[k - 1])
    BY <2>3
  <2>5. at[k] = WriteByte(at[k - 1], data[k])
    BY <1>2, <2>2, <2>3 DEF WriteLoop
  <2>6. Alive(d0, fds, n, at[k])
    BY <1>1, <2>3, <2>4, <2>5, WriteByteLive
  <2> QED
    BY <2>1, <2>6
<1> QED
  BY <1>1, <1>3, <1>4

\* Lengths and positions are numbers, and no position is before the beginning.
LEMMA LiveLength ==
    ASSUME NEW d0, NEW fds \in Descriptors, NEW n \in Name, NEW s, Alive(d0, fds, n, s)
    PROVE  GetFileLen(s.fd) \in Nat /\ GetFilePos(s.fd) \in Nat
<1>0. PICK B : Live(d0, fds, n, s, B)
  BY DEF Alive
<1> DEFINE fe == s.fd.fe
           i == s.fd.objIdx
<1>1. s.fd \in FileDesc /\ fe \in FileEntry /\ FileHeld(Now(s.w), B, n, s.fd)
  BY <1>0, LiveParts
<1>2. fe.sctBegin = End <=> fe.sctNum = 0
  BY <1>1 DEF FileHeld, Fits
<1>3. fe.sctNum \in Nat /\ fe.lastBytes \in Nat /\ SECT_SIZE \in Nat
  <2>1. fe.sctNum \in Nat /\ fe.lastBytes \in 0 .. SECT_SIZE
    BY <1>1, EntryFields
  <2>2. SECT_SIZE \in Nat
    BY Sizes
  <2> HIDE DEF fe
  <2> QED
    BY <2>1, <2>2
<1>4. s.fd.offset \in Nat /\ (i # End => i \in Nat)
  <2>1. s.fd.offset \in 0 .. SECT_SIZE /\ i \in Sector \union {End}
    BY <1>1 DEF FileDesc
  <2>2. s.fd.offset \in Nat
    BY <1>3, <2>1
  <2>3. i # End => i \in Sector
    BY <2>1
  <2> QED
    BY <2>2, <2>3, Numbers
<1>5. GetFileLen(s.fd) \in Nat
  <2>1. CASE fe.sctBegin = End
    BY <2>1 DEF GetFileLen
  <2>2. CASE fe.sctBegin # End
    <3>1. fe.sctNum - 1 \in Nat
      BY <1>2, <1>3, <2>2
    <3>2. (fe.sctNum - 1) * SECT_SIZE \in Nat
      BY <1>3, <3>1
    <3> QED
      BY <1>3, <2>2, <3>2 DEF GetFileLen
  <2> QED
    BY <2>1, <2>2
<1>6. GetFilePos(s.fd) \in Nat
  <2>1. CASE i = End
    BY <2>1 DEF GetFilePos
  <2>2. CASE i # End
    <3>1. i * SECT_SIZE \in Nat
      BY <1>3, <1>4, <2>2
    <3> QED
      BY <1>4, <2>2, <3>1 DEF GetFilePos
  <2> QED
    BY <2>1, <2>2
<1> QED
  BY <1>5, <1>6

LEMMA ToReadLive ==
    ASSUME NEW d0, NEW fds \in Descriptors, NEW n \in Name, NEW s, Alive(d0, fds, n, s),
           NEW len \in Nat
    PROVE  Alive(d0, fds, n, ToRead(s, len))
<1> DEFINE left == GetFileLen(s.fd) - GetFilePos(s.fd)
           l == IF left < 0 \/ len < left THEN len ELSE left
           at == CHOOSE f : ReadLoop(s, l, f)
           r == ToRead(s, len)
<1>1. l \in Nat
  BY LiveLength
<1>2. ReadLoop(s, l, at)
  BY <1>1, ReadLoopExists
<1>3. r = at[l]
  BY DEF ToRead, ReadLoop
<1> HIDE DEF at, l
<1> DEFINE S == {i \in Nat : i <= l /\ ~ Alive(d0, fds, n, at[i])}
<1>4. S = {}
  <2> SUFFICES ASSUME S # {} PROVE FALSE
    OBVIOUS
  <2>1. PICK k \in S : \A j \in S : k <= j
    <3>1. S \subseteq Nat
      OBVIOUS
    <3> QED
      BY <3>1, Least
  <2>2. k # 0
    BY <1>1, <1>2, <2>1 DEF ReadLoop
  <2>3. k - 1 \in Nat /\ k - 1 \notin S /\ k - 1 <= l /\ k \in 1 .. l
    BY <1>1, <2>1, <2>2
  <2>4. Alive(d0, fds, n, at[k - 1])
    BY <2>3
  <2>5. at[k] = ReadByte(at[k - 1])
    BY <1>2, <2>2, <2>3 DEF ReadLoop
  <2>6. Alive(d0, fds, n, at[k])
    BY <2>4, <2>5, ReadByteLive
  <2> QED
    BY <2>1, <2>6
<1> QED
  BY <1>1, <1>3, <1>4

\* The place in the buffer is one that the sector map has.
LEMMA InMap ==
    ASSUME NEW d, NEW B, Claims(d, B), NEW o \in Owner, NEW i \in Nat,
           FindIndex(d, B[o], i) # End
    PROVE  i \in Sector
<1>1. PICK k \in Nat : Linked(d, B[o], k)
  BY DEF Claims
<1>2. i < k
  BY <1>1, BehindEnd
<1>3. k \in 0 .. dataSize /\ dataSize \in Nat
  BY <1>1, ChainLength, Numbers
<1> QED
  BY <1>2, <1>3 DEF Sector

LEMMA ToLocateLive ==
    ASSUME NEW d0, NEW fds \in Descriptors, NEW n \in Name, NEW s, Alive(d0, fds, n, s),
           NEW pos \in Nat
    PROVE  Alive(d0, fds, n, ToLocate(s, pos))
<1> DEFINE d == Now(s.w)
           fe == s.fd.fe
           len == GetFileLen(s.fd)
           to  == IF pos < len THEN pos ELSE len
           idx == to \div SECT_SIZE
           off == to % SECT_SIZE
           si  == FindIndex(d, fe.sctBegin, idx)
           f   == ToFlush(s)
           v == f.w
           fd == f.fd
           ok == f.ok
           cache == BytesIn(Now(v).sct[si])
           hd == [fd EXCEPT !.objIdx = idx, !.offset = off, !.cache = cache]
           r == ToLocate(s, pos)
<1>0. PICK B : Live(d0, fds, n, s, B)
  BY DEF Alive
<1>1. /\ idx \in Nat /\ off \in Offset
  <2>1. to \in Nat
    BY LiveLength
  <2> HIDE DEF to
  <2> QED
    BY <2>1, Divided
<1>2. Live(d0, fds, n, f, B) /\ Unmoved(s, f)
  BY <1>0, FlushLive
<1>3. r = IF si = End THEN f
          ELSE [f EXCEPT !.fd.objIdx = idx, !.fd.offset = off, !.fd.cache = cache]
  BY DEF ToLocate
<1>4. /\ f = [w |-> v, fd |-> fd, ok |-> ok] /\ ok \in BOOLEAN
      /\ Now(v) \in Disks /\ fd \in FileDesc /\ fd.fe = fe /\ Started(fd)
  BY <1>2, LiveParts DEF Triple, Unmoved
<1> HIDE DEF to, idx, off, f, len
<1>5. CASE si = End
  <2>1. r = f
    BY <1>3, <1>5
  <2> HIDE DEF r
  <2> QED
    BY <1>2, <2>1 DEF Alive, r
<1>6. CASE si # End
  <2>1. si \in Sector /\ idx \in Sector
    <3> DEFINE o == << fe.inSctIdx, fe.inSctOff >>
    <3>1. /\ d \in Disks /\ Claims(d, B) /\ FileHeld(d, B, n, s.fd) /\ fe \in FileEntry
      BY <1>0, LiveParts
    <3>2. fe.sctBegin = B[o] /\ o \in Owner
      BY <3>1, EntryFields DEF FileHeld
    <3>3. si = FindIndex(d, B[o], idx)
      BY <3>2
    <3> HIDE DEF o, d, si
    <3> QED
      BY <1>1, <1>6, <3>1, <3>2, <3>3, InChain, InMap
  <2>2. cache \in [Offset -> Byte]
    <3>1. Now(v).sct[si] \in EntrySector \union DataSector
      BY <1>4, <2>1, DiskFields
    <3> QED
      BY <3>1, EntriesKind
  <2> HIDE DEF cache
  <2>3. /\ hd \in FileDesc /\ hd.fe = fe /\ hd.objIdx = idx
    <3>1. off \in 0 .. SECT_SIZE
      BY <1>1, Sizes DEF Offset
    <3> QED
      BY <1>4, <2>1, <2>2, <3>1 DEF FileDesc
  <2> HIDE DEF r
  <2>4. r = [w |-> v, fd |-> hd, ok |-> ok]
    <3> HIDE DEF v, fd, ok, si
    <3> QED
      BY <1>3, <1>4, <1>6
  <2> HIDE DEF hd
  <2>5. r.w = f.w /\ r.fd = hd /\ r.ok \in BOOLEAN /\ Triple(r)
    BY <1>4, <2>4 DEF Triple
  <2>6. Started(hd) /\ SameSectors(f.fd.fe, hd.fe)
    BY <1>4, <2>1, <2>3, Numbers DEF Started, SameSectors
  <2>7. Live(d0, fds, n, r, B)
    BY <1>2, <2>3, <2>5, <2>6, LiveWith
  <2> QED
    BY <2>7 DEF Alive, r
<1> QED
  BY <1>5, <1>6

-----------------------------------------------------------------------------
(* The operations, with power failures *)

Intact == \E B : Held(disk, opened, B)

\* The operation leaves the disk and the descriptors intact, and when the power fails
\* the files of names other than those of N as they were.
Passes(N) ==
    /\ Intact'
    /\ \/ UNCHANGED failed
       \/ /\ failed' \in [op : Operation, names : {N}]
          /\ \A m \in Name \ N : OnDisk(disk', m) = OnDisk(disk, m)

LEMMA ContentSame ==
    ASSUME NEW d, NEW x, NEW fe \in FileEntry, fe.sctBegin = End <=> fe.sctNum = 0, Same(d, x, fe)
    PROVE  Content(x, fe, Closed) = Content(d, fe, Closed)
<1> DEFINE len == GetFileLen([fe |-> fe])
           k == fe.sctNum
           S == SECT_SIZE
           at(j) == (j - 1) \div S
<1>1. k \in Nat /\ S \in Nat \ {0} /\ fe.lastBytes \in 0 .. S
  BY EntryFields, Sizes
<1>2. len = IF k = 0 THEN 0 ELSE (k - 1) * S + fe.lastBytes
  BY DEF GetFileLen
<1> HIDE DEF len
<1>3. ASSUME NEW j \in 1 .. len
      PROVE  at(j) \in 0 .. k - 1
  <2> DEFINE p == j - 1
             q == p \div S
             r == p % S
  <2>1. k # 0
    BY <1>2, <1>3
  <2>2. (k - 1) * S = S * k - S /\ S * k \in Nat
    BY <1>1
  <2>3. p \in Nat /\ p < S * k
    BY <1>1, <1>2, <1>3, <2>1, <2>2
  <2>4. q \in Nat /\ r \in 0 .. S - 1 /\ p = S * q + r
    <3> HIDE DEF p
    <3> QED
      BY <2>3, Divided DEF Offset
  <2> HIDE DEF p, q, r
  <2>5. q < k
    <3> SUFFICES ASSUME q >= k PROVE FALSE
      BY <1>1, <2>4
    <3>1. q - k \in Nat
      BY <1>1, <2>4
    <3>2. S * (q - k) \in Nat
      BY <1>1, <3>1
    <3>3. S * (q - k) = S * q - S * k
      BY <1>1, <2>4, Times
    <3>4. S * q \in Nat
      BY <1>1, <2>4
    <3> QED
      BY <1>1, <2>2, <2>3, <2>4, <3>2, <3>3, <3>4
  <2>6. q \in 0 .. k - 1
    BY <1>1, <2>4, <2>5
  <2> QED
    BY <2>6 DEF p, q
<1> DEFINE of(y, j) == BytesIn(y.sct[FindIndex(y, fe.sctBegin, at(j))])[(j - 1) % S]
<1>4. /\ Content(x, fe, Closed) = [j \in 1 .. len |-> of(x, j)]
      /\ Content(d, fe, Closed) = [j \in 1 .. len |-> of(d, j)]
  BY DEF Content, len
<1> HIDE DEF at
<1>5. ASSUME NEW j \in 1 .. len PROVE of(x, j) = of(d, j)
  <2>1. at(j) \in 0 .. k - 1
    BY <1>3
  <2>2. /\ FindIndex(x, fe.sctBegin, at(j)) = FindIndex(d, fe.sctBegin, at(j))
        /\ x.sct[FindIndex(d, fe.sctBegin, at(j))] = d.sct[FindIndex(d, fe.sctBegin, at(j))]
    BY <2>1 DEF Same
  <2> QED
    BY <2>2
<1> HIDE DEF of
<1> QED
  BY <1>4, <1>5

LEMMA OnDiskSame ==
    ASSUME NEW d, NEW fds, NEW B, Held(d, fds, B), NEW x, NEW N, Spares(d, x, fds, N)
    PROVE  \A m \in Name \ N : OnDisk(x, m) = OnDisk(d, m)
<1> SUFFICES ASSUME NEW m \in Name \ N PROVE OnDisk(x, m) = OnDisk(d, m)
  OBVIOUS
<1> DEFINE fe == FindInRoot(d, m)
<1>1. FindInRoot(x, m) = fe /\ (fe # Missing => Same(d, x, fe))
  BY DEF Spares
<1>2. fe = FindInRoot(d, m)
  OBVIOUS
<1> HIDE DEF fe
<1>3. CASE fe = Missing
  BY <1>1, <1>2, <1>3 DEF OnDisk
<1>4. CASE fe # Missing
  <2>1. /\ fe \in FileEntry /\ Fits(d, B[<< fe.inSctIdx, fe.inSctOff >>], fe)
    BY <1>2, <1>4, WhereFound
  <2>2. fe.sctBegin = End <=> fe.sctNum = 0
    BY <2>1 DEF Fits
  <2>3. Content(x, fe, Closed) = Content(d, fe, Closed)
    BY <1>1, <1>4, <2>1, <2>2, ContentSame
  <2> QED
    BY <1>1, <1>2, <1>4, <2>3 DEF OnDisk
<1> QED
  BY <1>3, <1>4

LEMMA DoesPasses ==
    ASSUME Intact, NEW op \in Operation, NEW N, NEW w, NEW gds, Does(op, N, w, gds),
           \E A : Held(Now(w), gds, A),
           \A i \in 1 .. Len(w) - 1 : w[i] \in Safe(disk, opened, N)
    PROVE  Passes(N)
<1>1. PICK B : Held(disk, opened, B)
  BY DEF Intact
<1>2. CASE disk' = Now(w) /\ opened' = gds /\ UNCHANGED failed
  BY <1>2 DEF Passes, Intact
<1>3. CASE /\ \E i \in 1 .. Len(w) - 1 : disk' = w[i]
           /\ opened' = [n \in Name |-> Closed]
           /\ failed' = [op |-> op, names |-> N]
  <2>1. disk' \in Safe(disk, opened, N) /\ opened' = AllClosed
    BY <1>3 DEF AllClosed
  <2>2. PICK A : Held(disk', AllClosed, A)
    BY <2>1 DEF Safe, Whole
  <2>3. Intact'
    BY <2>1, <2>2 DEF Intact
  <2> DEFINE x == disk'
  <2>4. Spares(disk, x, opened, N)
    BY <2>1 DEF Safe
  <2> HIDE DEF x
  <2>5. \A m \in Name \ N : OnDisk(x, m) = OnDisk(disk, m)
    BY <1>1, <2>4, OnDiskSame
  <2> QED
    BY <1>3, <2>3, <2>5 DEF Passes, x
<1> QED
  BY <1>2, <1>3 DEF Does

LEMMA PastBefore ==
    ASSUME NEW w, NEW X, Past(w, X)
    PROVE  \A i \in 1 .. Len(w) - 1 : w[i] \in X
<1>1. PICK S : w \in Seq(S)
  BY DEF Past, History
<1>2. Len(w) \in Nat
  BY <1>1
<1> SUFFICES ASSUME NEW i \in 1 .. Len(w) - 1 PROVE w[i] \in X
  OBVIOUS
<1>3. i \in 1 .. Len(w)
  BY <1>2
<1> QED
  BY <1>3 DEF Past

LEMMA SessionLive ==
    ASSUME Intact, NEW n \in Open
    PROVE  /\ n \in Name /\ opened \in Descriptors
           /\ Alive(disk, opened, n, Session(n))
<1>1. PICK B : Held(disk, opened, B)
  BY DEF Intact
<1>2. n \in Name /\ opened \in Descriptors /\ opened[n] # Closed
  BY <1>1 DEF Held, Open
<1> DEFINE s == Session(n)
<1>3. s.w = << disk >> /\ s.fd = opened[n] /\ s.ok = TRUE /\ Triple(s)
  BY DEF Session, Triple
<1> HIDE DEF s
<1>4. disk \in Safe(disk, opened, {n})
  BY <1>1, SparesSelf, IsSafe
<1>5. Past(s.w, Safe(disk, opened, {n})) /\ Now(s.w) = disk
  BY <1>3, <1>4, PastOne
<1>6. s.fd \in FileDesc /\ With(opened, n, s.fd) = opened
  BY <1>2, <1>3, DescFields, WithSame
<1>7. Live(disk, opened, n, s, B)
  BY <1>1, <1>3, <1>5, <1>6 DEF Live
<1> QED
  BY <1>2, <1>7 DEF Alive, s

LEMMA LivePasses ==
    ASSUME Intact, NEW n \in Name, NEW r, Alive(disk, opened, n, r), NEW op \in Operation,
           Ends(op, n, r)
    PROVE  Passes({n})
<1>1. PICK B : Live(disk, opened, n, r, B)
  BY DEF Alive
<1>2. Past(r.w, Safe(disk, opened, {n})) /\ Held(Now(r.w), With(opened, n, r.fd), B)
  BY <1>1 DEF Live
<1>3. Does(op, {n}, r.w, With(opened, n, r.fd))
  BY DEF Ends, With
<1>4. \A i \in 1 .. Len(r.w) - 1 : r.w[i] \in Safe(disk, opened, {n})
  BY <1>2, PastBefore
<1> QED
  BY <1>2, <1>3, <1>4, DoesPasses

\* Fewer files are open.
LEMMA HeldLess ==
    ASSUME NEW d, NEW gds, NEW B, Held(d, gds, B), NEW hds \in Descriptors,
           \A m \in Name : hds[m] \in {Closed, gds[m]}
    PROVE  Held(d, hds, B)
  BY DEF Held

LEMMA ClosePasses ==
    ASSUME Intact, NEW n \in Open, FClose(n)
    PROVE  Passes({n})
<1> DEFINE s == Session(n)
           f == ToFlush(s)
           gds == With(opened, n, f.fd)
           hds == [opened EXCEPT ![n] = Closed]
<1>1. n \in Name /\ opened \in Descriptors /\ Alive(disk, opened, n, s)
  BY SessionLive
<1>2. PICK B : Live(disk, opened, n, s, B)
  BY <1>1 DEF Alive
<1> HIDE DEF s
<1>3. Live(disk, opened, n, f, B)
  BY <1>1, <1>2, FlushLive
<1>4. Past(f.w, Safe(disk, opened, {n})) /\ Held(Now(f.w), gds, B) /\ f.fd \in FileDesc
  BY <1>3 DEF Live
<1>5. Does("close", {n}, f.w, hds)
  BY DEF FClose, s
<1>6. hds \in Descriptors /\ \A m \in Name : hds[m] \in {Closed, gds[m]}
  <2>1. \A m \in Name \ {n} : gds[m] = opened[m]
    BY <1>1, <1>4, Withs
  <2>2. hds \in Descriptors /\ hds[n] = Closed /\ \A m \in Name \ {n} : hds[m] = opened[m]
    BY <1>1 DEF Descriptors
  <2> QED
    BY <2>1, <2>2
<1> HIDE DEF f, gds, hds
<1>7. Held(Now(f.w), hds, B)
  BY <1>4, <1>6, HeldLess
<1>8. \A i \in 1 .. Len(f.w) - 1 : f.w[i] \in Safe(disk, opened, {n})
  BY <1>4, PastBefore
<1>9. "close" \in Operation
  BY DEF Operation
<1> QED
  BY <1>5, <1>7, <1>8, <1>9, DoesPasses

LEMMA DescriptorsPass ==
    ASSUME Intact, NEW n \in Open,
           \/ FFlush(n) \/ \E l \in Lengths : FRead(n, l)
           \/ \E p \in Positions : FSeek(n, p)
           \/ \E l \in Lengths, b \in Byte : FWrite(n, [i \in 1 .. l |-> b])
    PROVE  Passes({n})
<1> DEFINE s == Session(n)
<1>1. n \in Name /\ opened \in Descriptors /\ Alive(disk, opened, n, s)
  BY SessionLive
<1>2. {"flush", "read", "seek", "write"} \subseteq Operation
  BY DEF Operation
<1> HIDE DEF s
<1>3. CASE FFlush(n)
  <2> DEFINE r == ToFlush(s)
  <2>1. Ends("flush", n, r)
    BY <1>3 DEF FFlush, s
  <2>2. PICK B : Live(disk, opened, n, s, B)
    BY <1>1 DEF Alive
  <2>3. Live(disk, opened, n, r, B)
    BY <1>1, <2>2, FlushLive
  <2> HIDE DEF r
  <2>4. Alive(disk, opened, n, r)
    BY <2>3 DEF Alive
  <2> QED
    BY <1>1, <1>2, <2>1, <2>4, LivePasses
<1>4. ASSUME NEW l \in Lengths, FRead(n, l) PROVE Passes({n})
  <2> DEFINE r == ToRead(s, l)
  <2>1. Ends("read", n, r)
    BY <1>4 DEF FRead, s
  <2>2. l \in Nat
    BY OperationAssumption
  <2>3. Alive(disk, opened, n, r)
    BY <1>1, <2>2, ToReadLive
  <2> HIDE DEF r
  <2> QED
    BY <1>1, <1>2, <2>1, <2>3, LivePasses
<1>5. ASSUME NEW p \in Positions, FSeek(n, p) PROVE Passes({n})
  <2> DEFINE r == ToLocate(s, p)
  <2>1. Ends("seek", n, r)
    BY <1>5 DEF FSeek, s
  <2>2. p \in Nat
    BY OperationAssumption
  <2>3. Alive(disk, opened, n, r)
    BY <1>1, <2>2, ToLocateLive
  <2> HIDE DEF r
  <2> QED
    BY <1>1, <1>2, <2>1, <2>3, LivePasses
<1>6. ASSUME NEW l \in Lengths, NEW b \in Byte, FWrite(n, [i \in 1 .. l |-> b])
      PROVE  Passes({n})
  <2> DEFINE data == [i \in 1 .. l |-> b]
             r == ToWrite(s, data)
  <2>1. l \in Nat
    BY OperationAssumption
  <2>2. data \in Seq(Byte)
    BY <2>1
  <2>3. FWrite(n, data)
    BY <1>6
  <2> HIDE DEF data
  <2>4. Ends("write", n, r)
    BY <2>3 DEF FWrite, s
  <2>5. Alive(disk, opened, n, r)
    BY <1>1, <2>2, ToWriteLive
  <2> HIDE DEF r
  <2> QED
    BY <1>1, <1>2, <2>4, <2>5, LivePasses
<1> QED
  BY <1>3, <1>4, <1>5, <1>6

\* A chain that no record has is nobody's.
LEMMA Dropped ==
    ASSUME NEW d, NEW B, Claims(d, B), NEW o \in Owner, NEW A, A = Gets(B, o, End)
    PROVE  /\ Claims(d, A) /\ A[o] = End /\ \A p \in Owner : p # o => A[p] = B[p]
           /\ \A s : Reserved(d, B, s) => Reserved(d, A, s)
<1>1. A[o] = End /\ \A p \in Owner : p # o => A[p] = B[p]
  BY DEF Claims, Gets
<1>2. A \in [Owner -> Sector \union {End}]
  BY DEF Claims, Gets
<1>3. Linked(d, End, 0) /\ Chain(d, End) = {}
  <2>1. FindIndex(d, End, 0) = End
    BY IndexZero
  <2>2. Linked(d, End, 0)
    BY <2>1 DEF Linked
  <2> QED
    BY <2>2, ChainLength
<1>4. \A p \in Owner : A[p] = B[p] \/ (A[p] = End /\ p = o)
  BY <1>1
<1>5. \A p \in Owner : \E n \in Nat : Linked(d, A[p], n)
  BY <1>3, <1>4 DEF Claims
<1>6. \A p \in Owner : Chain(d, A[p]) \subseteq Chain(d, B[p])
  BY <1>3, <1>4
<1>7. Claims(d, A)
  BY <1>2, <1>5, <1>6 DEF Claims
<1>8. \A s : Reserved(d, B, s) => Reserved(d, A, s)
  BY <1>6 DEF Reserved
<1> QED
  BY <1>1, <1>7, <1>8

LEMMA FitsNothing ==
    ASSUME NEW d, NEW b, NEW fe, fe.sctNum \in Nat, fe.sctBegin = End, Fits(d, b, fe)
    PROVE  Fits(d, End, fe)
  BY DEF Fits

\* A file that is found can be opened: its record then says what its chain is.
LEMMA HeldOpened ==
    ASSUME NEW d, NEW fds, NEW B, Held(d, fds, B), NEW n \in Name, fds[n] = Closed,
           NEW fe, fe = FindInRoot(d, n), fe # Missing, NEW o,
           o = << fe.inSctIdx, fe.inSctOff >>, NEW A, A = Gets(B, o, fe.sctBegin),
           NEW fd \in FileDesc, fd.fe = fe, Started(fd), NEW hds, hds = With(fds, n, fd)
    PROVE  Held(d, hds, A)
<1> DEFINE s == fe.inSctIdx
           i == fe.inSctOff
<1>1. /\ d \in Disks /\ Claims(d, B) /\ RootHeld(d, B) /\ fds \in Descriptors
  BY DEF Held
<1>2. /\ fe \in FileEntry /\ fe.name = n /\ Placed(d, n, s, i)
      /\ EntriesIn(d.sct[s])[i] = fe /\ Fits(d, B[<< s, i >>], fe)
  BY WhereFound
<1>3. o = << s, i >> /\ o \in Owner /\ o # TheRoot /\ TheRoot \in Owner /\ fe.sctNum \in Nat
  BY <1>2, EntryFields, OwnerIs
<1>4. Fits(d, B[o], fe)
  BY <1>2, <1>3
<1> HIDE DEF s, i
<1>5. /\ Claims(d, A) /\ A[o] = fe.sctBegin /\ \A p \in Owner : p # o => A[p] = B[p]
      /\ \A t : Reserved(d, B, t) => Reserved(d, A, t)
  <2>1. CASE fe.sctBegin = B[o]
    <3>1. A = B
      BY <1>1, <1>3, <2>1 DEF Gets, Claims
    <3> QED
      BY <1>1, <2>1, <3>1
  <2>2. CASE fe.sctBegin = End
    <3>1. A = Gets(B, o, End)
      BY <2>2
    <3>2. /\ Claims(d, A) /\ A[o] = End /\ \A p \in Owner : p # o => A[p] = B[p]
          /\ \A t : Reserved(d, B, t) => Reserved(d, A, t)
      BY <1>1, <1>3, <3>1, Dropped
    <3> QED
      BY <2>2, <3>2
  <2>3. fe.sctBegin \in {End, B[o]}
    BY <1>4 DEF Fits
  <2> QED
    BY <2>1, <2>2, <2>3
<1>6. Fits(d, A[o], fe)
  <2> DEFINE b == B[o]
  <2>1. Fits(d, b, fe)
    BY <1>4
  <2> HIDE DEF b
  <2>2. fe.sctBegin = A[o]
    BY <1>5
  <2> QED
    BY <2>1, <2>2 DEF Fits
<1>7. RootHeld(d, A)
  <2>1. A[TheRoot] = B[TheRoot]
    BY <1>3, <1>5
  <2> QED
    BY <1>1, <2>1 DEF RootHeld
<1>8. ASSUME NEW t \in Sector, NEW j \in Slot PROVE EntryHeld(d, A, t, j)
  <2>1. EntryHeld(d, B, t, j) /\ << t, j >> \in Owner
    BY OwnerIs DEF Held
  <2>2. CASE << t, j >> = o
    <3>1. t = s /\ j = i
      BY <1>3, <2>2
    <3>2. Reserved(d, B, s) /\ fe # Missing
      BY <1>2, <2>1, <3>1 DEF EntryHeld
    <3> QED
      BY <1>2, <1>5, <1>6, <2>1, <2>2, <3>1, <3>2 DEF EntryHeld
  <2>3. CASE << t, j >> # o
    <3>1. A[<< t, j >>] = B[<< t, j >>]
      BY <1>5, <2>1, <2>3
    <3> QED
      BY <1>5, <2>1, <3>1 DEF EntryHeld
  <2> QED
    BY <2>2, <2>3
<1>9. ASSUME NEW m \in Name \ {n}, fds[m] # Closed PROVE FileHeld(d, A, m, fds[m])
  <2> DEFINE t == fds[m].fe.inSctIdx
             j == fds[m].fe.inSctOff
  <2>1. FileHeld(d, B, m, fds[m]) /\ fds[m].fe \in FileEntry
    BY <1>1, <1>9, DescFields DEF Held
  <2>2. << t, j >> # o /\ << t, j >> \in Owner
    BY <1>2, <1>3, <1>9, <2>1, EntryFields DEF FileHeld, Placed
  <2>3. A[<< t, j >>] = B[<< t, j >>]
    BY <1>5, <2>2
  <2> QED
    BY <2>1, <2>3 DEF FileHeld
<1>10. FileHeld(d, A, n, fd)
  BY <1>2, <1>3, <1>5, <1>6 DEF FileHeld, s, i
<1>11. hds \in Descriptors /\ hds[n] = fd /\ \A m \in Name \ {n} : hds[m] = fds[m]
  BY <1>1, Withs
<1>12. ASSUME NEW m \in Name, hds[m] # Closed PROVE FileHeld(d, A, m, hds[m])
  <2>1. CASE m = n
    BY <1>10, <1>11, <2>1
  <2>2. CASE m # n
    BY <1>9, <1>11, <1>12, <2>2
  <2> QED
    BY <2>1, <2>2
<1> QED
  BY <1>1, <1>5, <1>7, <1>8, <1>11, <1>12 DEF Held

LEMMA OpenPasses ==
    ASSUME Intact, NEW n \in Name, FOpen(n)
    PROVE  Passes({n})
<1> DEFINE fe == FindInRoot(disk, n)
           fd == [fe |-> fe, objIdx |-> End, offset |-> SECT_SIZE, changed |-> FALSE,
                  cache |-> Blank.byte]
           o == << fe.inSctIdx, fe.inSctOff >>
<1>1. PICK B : Held(disk, opened, B)
  BY DEF Intact
<1>2. disk' = disk /\ opened' = [opened EXCEPT ![n] = fd] /\ UNCHANGED failed
  BY DEF FOpen
<1>3. opened[n] = Closed /\ fe # Missing /\ fe = FindInRoot(disk, n)
  BY DEF FOpen, Open
<1>4. opened' = With(opened, n, fd)
  BY <1>2 DEF With
<1> HIDE DEF fe
<1>5. fe \in FileEntry
  BY <1>1, <1>3, WhereFound
<1>6. fd \in FileDesc
  <2>1. Blank.byte \in [Offset -> Byte]
    BY NameAssumption DEF Blank
  <2>2. SECT_SIZE \in 0 .. SECT_SIZE
    BY Sizes
  <2> QED
    BY <1>5, <2>1, <2>2 DEF FileDesc
<1>7. fd.fe = fe /\ Started(fd)
  BY DEF Started
<1> HIDE DEF fd
<1> DEFINE A == Gets(B, o, fe.sctBegin)
           hds == With(opened, n, fd)
<1>8. Held(disk, hds, A)
  <2>1. o = << fe.inSctIdx, fe.inSctOff >> /\ A = Gets(B, o, fe.sctBegin)
        /\ hds = With(opened, n, fd)
    OBVIOUS
  <2> HIDE DEF o, A, hds
  <2> QED
    BY <1>1, <1>3, <1>6, <1>7, <2>1, HeldOpened
<1>9. Held(disk', opened', A)
  BY <1>2, <1>4, <1>8
<1> HIDE DEF A
<1> QED
  BY <1>2, <1>9 DEF Passes, Intact

LEMMA OneWrite ==
    ASSUME NEW d, NEW x, NEW w, w = Write(<< d >>, x)
    PROVE  Now(w) = x /\ \A i \in 1 .. Len(w) - 1 : w[i] = d
<1> DEFINE S == {d, x}
<1>1. << d >> \in Seq(S) /\ x \in S /\ Len(<< d >>) = 1 /\ << d >>[1] = d
  OBVIOUS
<1>2. Len(w) = 2 /\ w[1] = d /\ w[2] = x
  BY <1>1 DEF Write
<1> QED
  BY <1>2 DEF Now

LEMMA RenamePasses ==
    ASSUME Intact, NEW old \in Name, NEW new \in Name, FRename(old, new)
    PROVE  Passes({old, new})
<1> DEFINE f == FindInRoot(disk, old)
           fe == NamedAs(f, new)
           s == fe.inSctIdx
           i == fe.inSctOff
           x == WithEntry(disk, s, i, fe)
           w == Write(<< disk >>, x)
<1>1. PICK B : Held(disk, opened, B)
  BY DEF Intact
<1>2. f # Missing /\ opened[old] = Closed /\ f = FindInRoot(disk, old)
  BY DEF FRename, Open
<1>3. FlushFileEntry(<< disk >>, fe) = w
  BY Begun DEF FlushFileEntry
<1>4. Does("rename", {old, new}, w, opened)
  BY <1>3 DEF FRename, NamedAs
<1> HIDE DEF f
<1>5. /\ f \in FileEntry /\ Placed(disk, old, f.inSctIdx, f.inSctOff)
      /\ Fits(disk, B[<< f.inSctIdx, f.inSctOff >>], f)
  BY <1>1, <1>2, WhereFound
<1>6. /\ fe \in FileEntry /\ fe.name = new /\ s = f.inSctIdx /\ i = f.inSctOff
      /\ fe.sctBegin = f.sctBegin /\ fe.sctNum = f.sctNum
  BY <1>5 DEF NamedAs, FileEntry
<1>7. Placed(disk, old, s, i) /\ Fits(disk, B[<< s, i >>], fe)
  <2>1. Fits(disk, B[<< s, i >>], f)
    BY <1>5, <1>6
  <2> QED
    BY <1>5, <1>6, <2>1 DEF Fits
<1>8. s = fe.inSctIdx /\ i = fe.inSctOff /\ x = WithEntry(disk, s, i, fe)
  OBVIOUS
<1>9. Now(w) = x /\ \A j \in 1 .. Len(w) - 1 : w[j] = disk
  <2> HIDE DEF x
  <2> QED
    BY OneWrite
<1> HIDE DEF fe, s, i, x, w
<1>10. Held(x, opened, B)
  BY <1>1, <1>2, <1>6, <1>7, <1>8, EntryTorn
<1>11. disk \in Safe(disk, opened, {old, new})
  BY <1>1, SparesSelf, IsSafe
<1>12. \A j \in 1 .. Len(w) - 1 : w[j] \in Safe(disk, opened, {old, new})
  BY <1>9, <1>11
<1>13. \E A : Held(Now(w), opened, A)
  BY <1>9, <1>10
<1>14. "rename" \in Operation
  BY DEF Operation
<1> QED
  BY <1>4, <1>12, <1>13, <1>14, DoesPasses

-----------------------------------------------------------------------------
(* Creating a file *)

\* What Held says of all but the directory's record.
Body(d, fds, B) ==
    /\ d \in Disks /\ fds \in Descriptors /\ Claims(d, B)
    /\ \A s \in Sector, i \in Slot : EntryHeld(d, B, s, i)
    /\ \A n \in Name : fds[n] # Closed => FileHeld(d, B, n, fds[n])

LEMMA HeldAllows ==
    ASSUME NEW d, NEW fds, NEW B, Held(d, fds, B), NEW N
    PROVE  Allows(d, B, Safe(d, fds, N))
<1> SUFFICES ASSUME NEW x, Kept(d, x, B) PROVE x \in Safe(d, fds, N)
  BY DEF Allows
<1>1. Held(x, fds, B) /\ Spares(d, x, fds, {})
  BY HeldKept, KeptSpares
<1>2. Spares(d, x, fds, N)
  BY <1>1 DEF Spares
<1> QED
  BY <1>1, <1>2, IsSafe

\* The directory on the disk e has room for an entry at the offset off of its last
\* sector, when its record were ge. With the chains of A the sector that CheckStorage
\* may have found for an empty directory is the directory's.
Prepares(e, fds, B, A, ge, off) ==
    /\ Held(e, fds, B) /\ Body(e, fds, A)
    /\ ge \in Chained /\ ge.sctNum > 0 /\ off \in Slot /\ ge.lastBytes = FE_BYTES * off
    /\ ge.sctBegin = A[TheRoot] /\ ge.sctBegin \in Sector /\ Fits(e, ge.sctBegin, ge)
    /\ RootLen(e) = FE_ITEM_CNT * (ge.sctNum - 1) + off
    /\ B[TheRoot] \in {End, ge.sctBegin}
    /\ \A p \in Owner : p # TheRoot => A[p] = B[p]

LEMMA RootPrepared ==
    ASSUME NEW d, NEW fds, NEW B, Held(d, fds, B), NEW N,
           d.root.lastBytes # SECT_SIZE \/ d.freeBegin # End,
           NEW c, c = CheckStorage(<< d >>, d.root), NEW off, off = c[2].lastBytes \div FE_BYTES
    PROVE  /\ Past(c[1], Safe(d, fds, N))
           /\ \E A : Prepares(Now(c[1]), fds, B, A, c[2], off)
<1> DEFINE fe == d.root
           l == fe.lastBytes \div FE_BYTES
           X == Safe(d, fds, N)
           w == << d >>
<1>1. /\ d \in Disks /\ fds \in Descriptors /\ Claims(d, B) /\ RootHeld(d, B) /\ RootShape(d)
      /\ fe.sctBegin = B[TheRoot] /\ Fits(d, B[TheRoot], fe) /\ Proper(fe)
      /\ fe.lastBytes = FE_BYTES * l /\ fe.lastBytes > 0 /\ Body(d, fds, B)
  BY DEF Held, RootHeld, RootShape, Body
<1>2. /\ fe \in Chained /\ fe.sctNum \in Nat /\ l \in 1 .. FE_ITEM_CNT
      /\ RootLen(d) = FE_ITEM_CNT * (fe.sctNum - 1) + l
      /\ fe.sctBegin \in Sector \union {End}
  BY <1>1, RootSized, DiskFields DEF Chained
<1>3. /\ FE_ITEM_CNT \in Nat \ {0} /\ SECT_SIZE = FE_BYTES * FE_ITEM_CNT
      /\ SECT_SIZE \in Nat \ {0} /\ FE_BYTES \in Nat \ {0}
  BY Sizes
<1>4. d \in X
  BY SparesSelf, IsSafe
<1>5. Past(w, X) /\ Now(w) = d
  BY <1>4, PastOne
<1>6. TheRoot \in Owner
  BY OwnerIs
<1> HIDE DEF w, X
<1>7. CASE fe.lastBytes # SECT_SIZE
  <2>1. c[1] = w /\ c[2] = fe
    BY <1>7 DEF CheckStorage, w
  <2>2. fe.sctNum > 0 /\ fe.sctBegin \in Sector
    BY <1>1, <1>2, <1>7 DEF Proper, Fits
  <2>3. off = l
    BY <2>1
  <2>4. l # FE_ITEM_CNT
    BY <1>1, <1>3, <1>7
  <2>5. l \in Slot
    BY <1>2, <1>3, <2>4 DEF Slot
  <2>6. Prepares(d, fds, B, B, fe, off)
    BY <1>1, <1>2, <2>2, <2>3, <2>5 DEF Prepares
  <2> QED
    BY <1>5, <2>1, <2>6 DEF X
<1>8. CASE fe.lastBytes = SECT_SIZE
  <2> DEFINE ge == c[2]
             v == c[1]
             e == Now(v)
             A == Gets(B, TheRoot, ge.sctBegin)
             o == TheRoot
             b == B[o]
  <2>1. Past(v, X) /\ Kept(d, e, B) /\ Stored(d, e, B, A, fe, ge)
    <3>1. /\ Past(w, X) /\ d = Now(w) /\ b = B[o] /\ c = CheckStorage(w, fe)
          /\ Allows(d, B, X) /\ d.freeBegin # End
      BY <1>5, <1>8, HeldAllows DEF X, w
    <3>2. /\ o \in Owner /\ fe \in Records /\ fe.sctBegin = b /\ Fits(d, b, fe)
          /\ A = Gets(B, o, ge.sctBegin)
      BY <1>1, <1>2, <1>6 DEF Records
    <3> HIDE DEF fe, o, b, A
    <3>3. Past(c[1], X) /\ Kept(d, Now(c[1]), B)
          /\ Stored(d, Now(c[1]), B, Gets(B, o, c[2].sctBegin), fe, c[2])
      BY <1>1, <1>8, <3>1, <3>2, StorageTorn
    <3> QED
      BY <3>2, <3>3
  <2> HIDE DEF v, e, ge, A
  <2>2. /\ Claims(e, A) /\ A[TheRoot] = ge.sctBegin
        /\ \A p \in Owner : p # TheRoot => A[p] = B[p]
    BY <1>1, <1>6, <2>1, StoredKept DEF A
  <2>3. \A s \in Sector, i \in Slot : EntryHeld(e, A, s, i)
    BY <1>1, <1>6, <2>1, EntriesStored DEF A
  <2>4. ASSUME NEW n \in Name, fds[n] # Closed PROVE FileHeld(e, A, n, fds[n])
    <3>1. << fds[n].fe.inSctIdx, fds[n].fe.inSctOff >> # TheRoot
      BY <1>1, <2>4, DescFields, EntryFields
    <3> QED
      BY <1>1, <1>6, <2>1, <2>4, <3>1, FilesStored DEF A
  <2>5. e \in Disks /\ Held(e, fds, B) /\ RootLen(e) = RootLen(d)
    <3>1. Held(e, fds, B)
      BY <2>1, HeldKept
    <3>2. RootLen(e) = RootLen(d)
      BY <1>1, <2>1, SeenKept
    <3> QED
      BY <3>1, <3>2 DEF Held
  <2>6. Body(e, fds, A)
    BY <1>1, <2>2, <2>3, <2>4, <2>5 DEF Body
  <2>7. /\ ge \in Chained /\ ge.lastBytes = 0 /\ ge.sctNum = fe.sctNum + 1
        /\ ge.sctBegin \in Sector /\ fe.sctBegin \in {End, ge.sctBegin}
        /\ Fits(e, ge.sctBegin, ge)
    BY <1>2, <2>1 DEF Stored, SameRecord
  <2>8. off = 0
    <3>1. 0 \div FE_BYTES = 0
      BY <1>3
    <3> QED
      BY <2>7, <3>1 DEF ge
  <2>9. l = FE_ITEM_CNT
    <3>1. l \in Nat
      BY <1>2
    <3>2. FE_BYTES * (l - FE_ITEM_CNT) = 0
      BY <1>1, <1>3, <1>8, <3>1, Times
    <3>3. l - FE_ITEM_CNT = 0
      BY <1>3, <3>1, <3>2
    <3> QED
      BY <1>3, <3>1, <3>3
  <2>10. RootLen(e) = FE_ITEM_CNT * (ge.sctNum - 1) + off
    <3>1. FE_ITEM_CNT * (fe.sctNum - 1) + FE_ITEM_CNT = FE_ITEM_CNT * fe.sctNum
      BY <1>2, <1>3
    <3>2. ge.sctNum - 1 = fe.sctNum
      BY <1>2, <2>7
    <3>3. RootLen(e) = FE_ITEM_CNT * fe.sctNum
      BY <1>2, <2>5, <2>9, <3>1
    <3>4. FE_ITEM_CNT * fe.sctNum \in Nat
      BY <1>2, <1>3
    <3> QED
      BY <2>8, <3>2, <3>3, <3>4
  <2>11. off \in Slot /\ ge.lastBytes = FE_BYTES * off /\ ge.sctNum > 0
    BY <1>2, <1>3, <2>7, <2>8 DEF Slot
  <2>12. Prepares(e, fds, B, A, ge, off)
    BY <1>1, <2>2, <2>5, <2>6, <2>7, <2>10, <2>11 DEF Prepares
  <2> QED
    BY <2>1, <2>12 DEF v, e, ge, X
<1> QED
  BY <1>7, <1>8

\* The last sector of the directory is used for nothing else, and the place where the
\* entry is put is behind those that are looked at.
LEMMA RootLast ==
    ASSUME NEW e, NEW fds, NEW B, NEW A, NEW ge, NEW off, Prepares(e, fds, B, A, ge, off),
           NEW last, last = FindLast(e, ge.sctBegin)
    PROVE  /\ last \in Sector /\ off \in Slot /\ Reserved(e, A, last) /\ Reserved(e, B, last)
           /\ ~ Seen(e, last, off)
<1> DEFINE b == ge.sctBegin
           c == FE_ITEM_CNT
<1>1. /\ e \in Disks /\ Claims(e, A) /\ RootHeld(e, B) /\ TheRoot \in Owner
      /\ b = A[TheRoot] /\ b \in Sector /\ b # End /\ Fits(e, b, ge) /\ ge \in Chained
      /\ ge.sctNum > 0
      /\ off \in Slot /\ RootLen(e) = c * (ge.sctNum - 1) + off
      /\ \A p \in Owner : p # TheRoot => A[p] = B[p]
  BY OwnerIs, Numbers DEF Prepares, Held, Body
<1>2. ge.sctNum \in Nat /\ c \in Nat \ {0} /\ off \in Nat
  BY <1>1, Sizes, Numbers DEF Chained, Slot
<1>3. PICK m \in Nat : Linked(e, b, m)
  BY <1>1 DEF Claims
<1>4. m > 0 /\ ge.sctNum <= m
  <2>1. m # 0
    BY <1>1, <1>3, ChainLength
  <2> QED
    BY <1>1, <1>2, <1>3, <2>1, FitsLength
<1>5. m - 1 \in 0 .. m - 1
  BY <1>3, <1>4
<1>6. last = FindIndex(e, b, m - 1) /\ last \in Chain(e, b) /\ last \in Sector
  <2>1. last = FindIndex(e, b, m - 1)
    BY <1>3, <1>4, LastOf
  <2>2. Chain(e, b) = {FindIndex(e, b, i) : i \in 0 .. m - 1} /\ Chain(e, b) \subseteq Sector
    BY <1>3, ChainLength
  <2> QED
    BY <1>5, <2>1, <2>2
<1>7. Reserved(e, A, last)
  BY <1>1, <1>6 DEF Reserved, Claims
<1>8. Reserved(e, B, last)
  BY <1>1, <1>7 DEF Reserved
<1>9. ASSUME NEW k \in 0 .. RootLen(e) - 1, At(e, k, last, off)
      PROVE  FALSE
  <2> DEFINE q == k \div c
  <2>1. k \in Nat /\ q \in 0 .. e.root.sctNum - 1 /\ e.root.sctNum \in Nat /\ RootLen(e) \in Nat
    BY <1>1, RootFits
  <2>2. FindIndex(e, e.root.sctBegin, q) = last /\ k % c = off
    BY <1>9 DEF At
  <2>3. q \in Nat /\ k = c * q + off
    BY <2>1, <2>2, Places
  <2> HIDE DEF q
  <2>4. e.root.sctBegin = b
    <3>1. e.root.sctBegin = B[TheRoot] /\ Fits(e, B[TheRoot], e.root)
      BY <1>1 DEF RootHeld
    <3>2. e.root.sctNum # 0
      BY <2>1
    <3>3. e.root.sctBegin # End
      BY <3>1, <3>2 DEF Fits
    <3> QED
      BY <3>1, <3>3 DEF Prepares
  <2>5. q < m
    <3> SUFFICES ASSUME q >= m PROVE FALSE
      BY <1>3, <2>3
    <3>1. FindIndex(e, b, q) = End
      BY <1>3, <2>3, BehindEnd
    <3> QED
      BY <1>6, <2>2, <2>4, <3>1, Numbers
  <2>6. q = m - 1
    <3>1. q \in 0 .. m - 1
      BY <1>3, <2>3, <2>5
    <3> QED
      BY <1>3, <1>5, <1>6, <2>2, <2>4, <3>1 DEF Linked
  <2>7. q - (ge.sctNum - 1) \in Nat
    BY <1>2, <1>3, <1>4, <2>6
  <2>8. c * (q - (ge.sctNum - 1)) \in Nat
    BY <1>2, <2>7
  <2>9. c * (q - (ge.sctNum - 1)) = c * q - c * (ge.sctNum - 1)
    BY <1>2, <2>3
  <2>10. c * q \in Nat
    BY <1>2, <2>3
  <2> DEFINE y == c * q
             z == c * (ge.sctNum - 1)
             u == c * (q - (ge.sctNum - 1))
  <2>11. ge.sctNum - 1 \in Nat /\ z \in Nat
    BY <1>1, <1>2
  <2>12. /\ u \in Nat /\ y \in Nat /\ z \in Nat /\ u = y - z /\ k = y + off
         /\ RootLen(e) = z + off /\ k <= RootLen(e) - 1
    BY <1>1, <2>1, <2>3, <2>8, <2>9, <2>10, <2>11
  <2> HIDE DEF y, z, u
  <2> QED
    BY <1>2, <2>12
<1> QED
  BY <1>1, <1>6, <1>7, <1>8, <1>9 DEF Seen

\* An entry without sectors is put where none is looked for.
LEMMA EntryMade ==
    ASSUME NEW d, NEW fds, NEW C, Body(d, fds, C), NEW B, RootHeld(d, B),
           NEW s \in Sector, NEW i \in Slot, Reserved(d, C, s), ~ Seen(d, s, i),
           NEW fe \in FileEntry, fe.inSctIdx = s, fe.inSctOff = i, fe.sctBegin = End,
           fe.sctNum = 0, NEW e, e = WithEntry(d, s, i, fe)
    PROVE  /\ Body(e, fds, C) /\ RootHeld(e, B) /\ SameChains(d, e) /\ e.root = d.root
           /\ \A t \in Sector \ {s} : e.sct[t] = d.sct[t]
           /\ \A m : SameFor(d, e, m)
<1>1. d \in Disks /\ Claims(d, C) /\ fds \in Descriptors
  BY DEF Body
<1>2. /\ e \in Disks /\ SameChains(d, e) /\ e.root = d.root
      /\ \A t \in Sector \ {s} : e.sct[t] = d.sct[t]
      /\ \A k \in Nat : RootEntry(e, k) = IF At(d, k, s, i) THEN fe ELSE RootEntry(d, k)
  BY <1>1, EntryPut DEF SameChains
<1>3. \A t \in Sector, j \in Slot :
         EntriesIn(e.sct[t])[j] = IF t = s /\ j = i THEN fe ELSE EntriesIn(d.sct[t])[j]
  BY <1>1, EntriesPut
<1>4. /\ Claims(e, C) /\ \A t : Reserved(d, C, t) => Reserved(e, C, t)
      /\ \A b, ge : ge.sctNum \in Nat /\ Fits(d, b, ge) => Fits(e, b, ge)
  BY <1>1, <1>2, ClaimsByMap
<1>5. RootHeld(e, B)
  <2>1. d.root.sctNum \in Nat
    BY <1>1, RootFits
  <2> QED
    BY <1>1, <1>2, <1>4, <2>1 DEF RootHeld, RootShape
<1>6. ASSUME NEW t \in Sector, NEW j \in Slot
      PROVE  EntryHeld(e, C, t, j)
  <2>1. CASE t = s /\ j = i
    <3>1. EntriesIn(e.sct[t])[j] = fe
      BY <1>3, <2>1
    <3>2. Fits(e, C[<< s, i >>], fe) /\ Reserved(e, C, s)
      BY <1>4 DEF Fits
    <3> QED
      BY <2>1, <3>1, <3>2 DEF EntryHeld
  <2>2. CASE ~(t = s /\ j = i)
    <3> DEFINE ge == EntriesIn(d.sct[t])[j]
    <3>1. EntriesIn(e.sct[t])[j] = ge /\ ge \in FileEntry \union {Missing}
      BY <1>1, <1>3, <2>2, EntryTyped
    <3>2. ge # Missing => /\ Reserved(d, C, t) /\ ge.inSctIdx = t /\ ge.inSctOff = j
                          /\ Fits(d, C[<< t, j >>], ge)
      BY DEF Body, EntryHeld
    <3> HIDE DEF ge
    <3>3. ge # Missing => ge.sctNum \in Nat
      BY <3>1, EntryFields
    <3> QED
      BY <1>4, <3>1, <3>2, <3>3 DEF EntryHeld
  <2> QED
    BY <2>1, <2>2
<1>7. RootLen(e) = RootLen(d) /\ RootLen(d) \in Nat
  BY <1>1, <1>2, RootFits DEF RootLen
<1>8. \A t, j : Seen(e, t, j) <=> Seen(d, t, j)
  <2>1. \A k \in 0 .. RootLen(d) - 1 : \A t, j : At(e, k, t, j) <=> At(d, k, t, j)
    <3> TAKE k \in 0 .. RootLen(d) - 1
    <3>1. k \div FE_ITEM_CNT \in Nat
      BY <1>7, Places
    <3>2. FindIndex(e, d.root.sctBegin, k \div FE_ITEM_CNT)
            = FindIndex(d, d.root.sctBegin, k \div FE_ITEM_CNT)
      BY <1>2, <3>1, IndexByMap DEF SameChains
    <3> QED
      BY <1>2, <3>2 DEF At
  <2> QED
    BY <1>7, <2>1 DEF Seen
<1>9. ASSUME NEW m \in Name, fds[m] # Closed
      PROVE  FileHeld(e, C, m, fds[m])
  <2> DEFINE fd == fds[m]
             t == fd.fe.inSctIdx
             j == fd.fe.inSctOff
  <2>1. FileHeld(d, C, m, fd) /\ fd.fe \in FileEntry
    BY <1>1, <1>9, DescFields DEF Body
  <2>2. /\ fd.fe.name = m /\ Placed(d, m, t, j) /\ fd.fe.sctNum \in Nat
        /\ fd.fe.sctBegin = C[<< t, j >>] /\ Fits(d, C[<< t, j >>], fd.fe) /\ Started(fd)
    <3>1. fd.fe.sctNum \in Nat
      BY <2>1, EntryFields
    <3> QED
      BY <2>1, <3>1 DEF FileHeld
  <2>3. ~(t = s /\ j = i)
    BY <2>2 DEF Placed
  <2>4. Placed(e, m, t, j)
    BY <1>3, <1>8, <2>2, <2>3 DEF Placed
  <2>5. Fits(e, C[<< t, j >>], fd.fe)
    BY <1>4, <2>2
  <2> QED
    BY <2>2, <2>4, <2>5 DEF FileHeld
<1>10. ASSUME NEW m PROVE SameFor(d, e, m)
  <2>1. \A k \in 0 .. RootLen(d) - 1 : RootEntry(e, k) = RootEntry(d, k)
    <3> TAKE k \in 0 .. RootLen(d) - 1
    <3>1. k \in Nat /\ ~ At(d, k, s, i)
      BY <1>7 DEF Seen
    <3> QED
      BY <1>2, <3>1
  <2> QED
    BY <2>1 DEF SameFor
<1>11. Body(e, fds, C)
  BY <1>1, <1>2, <1>4, <1>6, <1>9 DEF Body
<1> QED
  BY <1>2, <1>5, <1>10, <1>11

\* The header is written with the directory's new record.
LEMMA RootPut ==
    ASSUME NEW d, NEW fds, NEW A, Body(d, fds, A), NEW B, RootHeld(d, B),
           NEW he \in Chained, Proper(he), he.lastBytes > 0,
           he.lastBytes = FE_BYTES * (he.lastBytes \div FE_BYTES),
           he.sctBegin = A[TheRoot], Fits(d, A[TheRoot], he),
           B[TheRoot] \in {End, he.sctBegin},
           NEW e, e = WithRoot(d, he), RootLen(e) >= RootLen(d)
    PROVE  Held(e, fds, A)
<1>1. /\ d \in Disks /\ fds \in Descriptors /\ Claims(d, A)
      /\ e \in Disks /\ e.root = he /\ SameChains(d, e) /\ e.sct = d.sct
  BY WithRootIs DEF Body, SameChains
<1>2. /\ Claims(e, A) /\ \A t : Reserved(d, A, t) => Reserved(e, A, t)
      /\ \A b, ge : ge.sctNum \in Nat /\ Fits(d, b, ge) => Fits(e, b, ge)
  BY <1>1, ClaimsByMap
<1>3. he.sctNum \in Nat
  BY Numbers DEF Chained
<1>4. RootHeld(e, A)
  BY <1>1, <1>2, <1>3 DEF RootHeld, RootShape
<1>5. ASSUME NEW t \in Sector, NEW j \in Slot
      PROVE  EntryHeld(e, A, t, j)
  <2> DEFINE ge == EntriesIn(d.sct[t])[j]
  <2>1. EntriesIn(e.sct[t])[j] = ge /\ ge \in FileEntry \union {Missing}
    BY <1>1, EntryTyped
  <2>2. ge # Missing => /\ Reserved(d, A, t) /\ ge.inSctIdx = t /\ ge.inSctOff = j
                        /\ Fits(d, A[<< t, j >>], ge)
    BY DEF Body, EntryHeld
  <2> HIDE DEF ge
  <2>3. ge # Missing => ge.sctNum \in Nat
    BY <2>1, EntryFields
  <2> QED
    BY <1>2, <2>1, <2>2, <2>3 DEF EntryHeld
<1>6. ASSUME NEW t, NEW j, Seen(d, t, j)
      PROVE  Seen(e, t, j)
  <2>1. /\ RootLen(d) \in Nat /\ d.root.sctNum \in Nat
        /\ \A k \in 0 .. RootLen(d) - 1 :
              k \in Nat /\ k \div FE_ITEM_CNT \in 0 .. d.root.sctNum - 1
    BY <1>1, RootFits
  <2>2. PICK k \in 0 .. RootLen(d) - 1 : At(d, k, t, j)
    BY <1>6 DEF Seen
  <2>3. d.root.sctBegin = he.sctBegin
    <3>1. d.root.sctNum # 0
      BY <2>1, <2>2
    <3>2. d.root.sctBegin # End /\ d.root.sctBegin = B[TheRoot]
      BY <3>1 DEF RootHeld, Fits
    <3> QED
      BY <3>2
  <2>4. At(e, k, t, j)
    <3>1. k \div FE_ITEM_CNT \in Nat
      BY <2>1, Places
    <3>2. FindIndex(e, he.sctBegin, k \div FE_ITEM_CNT)
            = FindIndex(d, he.sctBegin, k \div FE_ITEM_CNT)
      BY <1>1, <3>1, IndexByMap DEF SameChains
    <3> QED
      BY <1>1, <2>2, <2>3, <3>2 DEF At
  <2>5. RootLen(e) \in Nat
    BY <1>1, <1>4, RootFits
  <2>6. k \in 0 .. RootLen(e) - 1
    BY <2>1, <2>2, <2>5
  <2> QED
    BY <2>4, <2>6 DEF Seen
<1>7. ASSUME NEW m \in Name, fds[m] # Closed
      PROVE  FileHeld(e, A, m, fds[m])
  <2> DEFINE fd == fds[m]
             t == fd.fe.inSctIdx
             j == fd.fe.inSctOff
  <2>1. FileHeld(d, A, m, fd) /\ fd.fe \in FileEntry
    BY <1>1, <1>7, DescFields DEF Body
  <2>2. /\ fd.fe.name = m /\ Placed(d, m, t, j) /\ fd.fe.sctNum \in Nat
        /\ fd.fe.sctBegin = A[<< t, j >>] /\ Fits(d, A[<< t, j >>], fd.fe) /\ Started(fd)
    <3>1. fd.fe.sctNum \in Nat
      BY <2>1, EntryFields
    <3> QED
      BY <2>1, <3>1 DEF FileHeld
  <2>3. Placed(e, m, t, j)
    BY <1>1, <1>6, <2>2 DEF Placed
  <2>4. Fits(e, A[<< t, j >>], fd.fe)
    BY <1>2, <2>2
  <2> QED
    BY <2>2, <2>3, <2>4 DEF FileHeld
<1> QED
  BY <1>1, <1>2, <1>4, <1>5, <1>7 DEF Held

LEMMA PastButLast ==
    ASSUME NEW w, NEW X, Past(w, X), NEW d \in X, NEW e, NEW v, v = w \o << d, e >>
    PROVE  Now(v) = e /\ \A i \in 1 .. Len(v) - 1 : v[i] \in X
<1>1. PICK S : w \in Seq(S)
  BY DEF Past, History
<1> DEFINE T == S \union {d, e}
<1>2. w \in Seq(T) /\ << d, e >> \in Seq(T)
  BY <1>1
<1>3. Len(v) = Len(w) + 2 /\ Len(w) \in Nat
  BY <1>2
<1>4. \A i \in 1 .. Len(w) + 2 :
         v[i] = IF i <= Len(w) THEN w[i] ELSE << d, e >>[i - Len(w)]
  BY <1>2
<1>5. \A i \in 1 .. Len(w) + 1 : v[i] \in X
  <2> TAKE i \in 1 .. Len(w) + 1
  <2>1. CASE i <= Len(w)
    <3>1. i \in 1 .. Len(w)
      BY <1>3, <2>1
    <3> QED
      BY <1>3, <1>4, <2>1, <3>1 DEF Past
  <2>2. CASE i = Len(w) + 1
    BY <1>3, <1>4, <2>2
  <2> QED
    BY <1>3, <2>1, <2>2
<1>6. Now(v) = e
  BY WrittenTwice DEF Past
<1>7. Len(v) - 1 = Len(w) + 1
  BY <1>3
<1> QED
  BY <1>5, <1>6, <1>7

LEMMA CreatePasses ==
    ASSUME Intact, Disciplined, NEW name \in Name, FCreate(name)
    PROVE  Passes({name})
<1> DEFINE d == disk
           c == CheckStorage(<< d >>, d.root)
           v == c[1]
           ge == c[2]
           off == ge.lastBytes \div FE_BYTES
           e == Now(v)
           last == FindLast(e, ge.sctBegin)
           fe == NewEntry(name, last, off)
           made == WithEntry(e, last, off, fe)
           he == OneMore(ge)
           full == WithRoot(made, he)
           w == CreateInRoot(<< d >>, name)
           X == Safe(d, opened, {name})
<1>1. PICK B : Held(d, opened, B)
  BY DEF Intact
<1>2. /\ d.root.lastBytes # SECT_SIZE \/ d.freeBegin # End
      /\ Does("create", {name}, w, opened)
  BY DEF FCreate
<1>3. w = IF last = End THEN v ELSE v \o << made, full >>
  <2>1. Now(<< d >>) = d
    BY Begun
  <2> QED
    BY <2>1, Zenon DEF CreateInRoot, WithRoot, OneMore
<1>4. Past(v, X) /\ \E A : Prepares(e, opened, B, A, ge, off)
  <2> HIDE DEF d, c
  <2> QED
    BY <1>1, <1>2, RootPrepared DEF c
<1>5. PICK A : Prepares(e, opened, B, A, ge, off)
  BY <1>4
<1> HIDE DEF c, v, ge, off, e, last, fe, made, he, full, w, X
<1>6. /\ last \in Sector /\ off \in Slot /\ Reserved(e, A, last) /\ Reserved(e, B, last)
      /\ ~ Seen(e, last, off)
  BY <1>5, RootLast DEF last
<1>7. /\ fe \in FileEntry /\ fe.inSctIdx = last /\ fe.inSctOff = off /\ fe.sctBegin = End
      /\ fe.sctNum = 0
  <2>1. 0 \in 0 .. dataSize /\ SECT_SIZE \in 0 .. SECT_SIZE
    BY Sizes, Numbers
  <2> QED
    BY <1>6, <2>1 DEF fe, NewEntry, FileEntry
<1>8. /\ Held(e, opened, B) /\ Body(e, opened, A) /\ Body(e, opened, B) /\ RootHeld(e, B)
      /\ Claims(e, B)
  BY <1>5 DEF Prepares, Held, Body
<1>9. /\ Body(made, opened, B) /\ RootHeld(made, B) /\ SameChains(e, made)
      /\ made.root = e.root
      /\ \A t \in Sector \ {last} : made.sct[t] = e.sct[t]
      /\ \A m : SameFor(e, made, m)
  BY <1>6, <1>7, <1>8, EntryMade DEF made
<1>10. Body(made, opened, A)
  BY <1>6, <1>7, <1>8, EntryMade DEF made
<1>11. Held(made, opened, B)
  BY <1>9 DEF Held, Body
<1>12. made \in X
  <2>1. Touches(e, made, B, last)
    BY <1>9, IndexByMap DEF Touches, SameChains
  <2>2. \A t \in Sector, i \in Slot : last \notin Chain(e, B[<< t, i >>])
    BY <1>6, OwnerIs DEF Reserved
  <2>3. Spares(e, made, opened, {name})
    BY <1>8, <1>9, <2>1, <2>2, SparesTouched
  <2>4. Spares(d, e, opened, {name})
    <3>1. e \in X
      BY <1>4, PastNow DEF e
    <3> QED
      BY <3>1 DEF X, Safe
  <2>5. Spares(d, made, opened, {name})
    BY <2>3, <2>4, SparesTwice
  <2> QED
    BY <1>11, <2>5, IsSafe DEF X
<1>13. /\ FE_ITEM_CNT \in Nat \ {0} /\ SECT_SIZE = FE_BYTES * FE_ITEM_CNT
       /\ SECT_SIZE \in Nat \ {0} /\ FE_BYTES \in Nat \ {0}
  BY Sizes
<1>14. /\ ge \in Chained /\ ge.sctNum \in Nat /\ ge.sctNum > 0 /\ ge.lastBytes = FE_BYTES * off
       /\ ge.sctBegin = A[TheRoot] /\ ge.sctBegin \in Sector /\ Fits(e, ge.sctBegin, ge)
       /\ RootLen(e) = FE_ITEM_CNT * (ge.sctNum - 1) + off
       /\ B[TheRoot] \in {End, ge.sctBegin}
  BY <1>5, Numbers DEF Prepares, Chained
<1>15. off + 1 \in Nat /\ FE_BYTES * (off + 1) = FE_BYTES * off + FE_BYTES
       /\ FE_BYTES * (off + 1) \in 0 .. SECT_SIZE /\ FE_BYTES * (off + 1) > 0
  <2>1. off \in Nat /\ off + 1 \in 1 .. FE_ITEM_CNT
    BY <1>6, <1>13 DEF Slot
  <2>2. FE_BYTES * (off + 1) = FE_BYTES * off + FE_BYTES /\ FE_BYTES * off \in Nat
    BY <1>13, <2>1
  <2>3. FE_ITEM_CNT - (off + 1) \in Nat
    BY <1>13, <2>1
  <2>4. FE_BYTES * (FE_ITEM_CNT - (off + 1)) \in Nat
    BY <1>13, <2>3
  <2>5. FE_BYTES * (FE_ITEM_CNT - (off + 1)) = FE_BYTES * FE_ITEM_CNT - FE_BYTES * (off + 1)
    BY <1>13, <2>1, Times
  <2> QED
    BY <1>13, <2>1, <2>2, <2>4, <2>5
<1>16. /\ he \in Chained /\ he.sctBegin = ge.sctBegin /\ he.sctNum = ge.sctNum
       /\ he.lastBytes = FE_BYTES * (off + 1) /\ Proper(he)
  BY <1>14, <1>15 DEF OneMore, Chained, Proper, he
<1>17. he.lastBytes \div FE_BYTES = off + 1
  BY <1>15, <1>16, WholeEntries
<1>18. /\ full.root = he /\ RootLen(full) >= RootLen(made)
  <2>1. made \in Disks
    BY <1>9 DEF Body
  <2>2. full.root = he
    BY <1>16, <2>1, WithRootIs DEF full
  <2>3. RootLen(full) = (ge.sctNum - 1) * FE_ITEM_CNT + (off + 1)
    BY <1>16, <1>17, <2>2 DEF RootLen
  <2>4. RootLen(made) = FE_ITEM_CNT * (ge.sctNum - 1) + off
    BY <1>9, <1>14 DEF RootLen
  <2>5. ge.sctNum - 1 \in Nat
    BY <1>14
  <2>6. /\ (ge.sctNum - 1) * FE_ITEM_CNT = FE_ITEM_CNT * (ge.sctNum - 1)
        /\ FE_ITEM_CNT * (ge.sctNum - 1) \in Nat /\ off \in Nat
    BY <1>6, <1>13, <2>5 DEF Slot
  <2> QED
    BY <2>2, <2>3, <2>4, <2>6
<1>19. Fits(made, A[TheRoot], he)
  <2>1. Fits(e, A[TheRoot], he)
    BY <1>14, <1>16 DEF Fits
  <2>2. he.sctNum \in Nat
    BY <1>14, <1>16
  <2> QED
    BY <1>9, <2>1, <2>2, ClaimsByMap
<1>20. Held(full, opened, A)
  <2>1. he.sctBegin = A[TheRoot] /\ B[TheRoot] \in {End, he.sctBegin} /\ he.lastBytes > 0
        /\ he.lastBytes = FE_BYTES * (he.lastBytes \div FE_BYTES)
    BY <1>14, <1>15, <1>16, <1>17
  <2>2. full = WithRoot(made, he)
    BY DEF full
  <2> QED
    BY <1>9, <1>10, <1>16, <1>18, <1>19, <2>1, <2>2, RootPut
<1>21. Now(w) = full /\ \A i \in 1 .. Len(w) - 1 : w[i] \in X
  <2>1. w = v \o << made, full >>
    BY <1>3, <1>6, Numbers
  <2>2. Past(v, X) /\ made \in X
    BY <1>4, <1>12
  <2>3. \A u : u = v \o << made, full >> =>
           Now(u) = full /\ \A i \in 1 .. Len(u) - 1 : u[i] \in X
    BY <2>2, PastButLast
  <2> QED
    BY <2>1, <2>3
<1>22. "create" \in Operation
  BY DEF Operation
<1>23. \E C : Held(Now(w), opened, C)
  BY <1>20, <1>21
<1> QED
  BY <1>2, <1>21, <1>22, <1>23, DoesPasses DEF X

-----------------------------------------------------------------------------
(* The invariant *)

LEMMA FormattedIntact ==
    ASSUME NEW d, d = FSFormat(Blank), NEW B, B = [o \in Owner |-> End]
    PROVE  Held(d, AllClosed, B)
<1>1. Sound(d, AllClosed)
  BY FormattedSound DEF AllClosed
<1>2. d \in Disks /\ RootProper(d) /\ AllClosed \in Descriptors
  BY <1>1 DEF Sound, Chains, Directory
<1>3. /\ d.freeBegin = 0 /\ d.freeNum = dataSize /\ d.root.sctBegin = End
      /\ d.root.sctNum = 0 /\ \A s \in Sector : d.sct[s] = Blank
  BY DEF FSFormat, NewChain
<1>4. Linked(d, 0, dataSize)
  BY FormattedFree
<1>5. Linked(d, End, 0) /\ Chain(d, End) = {}
  <2>1. FindIndex(d, End, 0) = End
    BY IndexZero
  <2>2. Linked(d, End, 0)
    BY <2>1 DEF Linked
  <2> QED
    BY <2>2, ChainLength
<1>6. B \in [Owner -> Sector \union {End}] /\ \A o \in Owner : B[o] = End
  OBVIOUS
<1>7. Claims(d, B)
  BY <1>3, <1>4, <1>5, <1>6 DEF Claims
<1>8. RootHeld(d, B)
  BY <1>2, <1>3, <1>6, OwnerIs DEF RootHeld, RootShape, RootProper, Fits
<1>9. ASSUME NEW s \in Sector, NEW i \in Slot PROVE EntryHeld(d, B, s, i)
  <2>1. EntriesIn(Blank) = [j \in Slot |-> Missing]
    BY DEF EntriesIn, Blank
  <2> QED
    BY <1>3, <2>1 DEF EntryHeld
<1>10. \A n \in Name : AllClosed[n] = Closed
  BY DEF AllClosed
<1> QED
  BY <1>2, <1>7, <1>8, <1>9, <1>10 DEF Held

Torn == Intact /\ failed \in [op : Operation, names : SUBSET Name]

LEMMA TornInit == FSInit => Torn
<1> SUFFICES ASSUME FSInit PROVE Torn
  OBVIOUS
<1>1. disk = FSFormat(Blank) /\ opened = AllClosed /\ failed = Running
  BY DEF FSInit, AllClosed
<1>2. Intact
  BY <1>1, FormattedIntact DEF Intact
<1> QED
  BY <1>1, <1>2 DEF Torn, Running, Operation

\* What FailureIsLocal says of a step.
Local == failed' # failed => \A n \in Name \ failed'.names : OnDisk(disk', n) = OnDisk(disk, n)

LEMMA PassesLocal ==
    ASSUME Torn, NEW N \in SUBSET Name, Passes(N)
    PROVE  Torn' /\ Local
<1>1. CASE UNCHANGED failed
  BY <1>1 DEF Torn, Passes, Local
<1>2. CASE /\ failed' \in [op : Operation, names : {N}]
           /\ \A m \in Name \ N : OnDisk(disk', m) = OnDisk(disk, m)
  <2>1. failed'.names = N /\ failed' \in [op : Operation, names : SUBSET Name]
    BY <1>2
  <2> QED
    BY <1>2, <2>1 DEF Torn, Passes, Local
<1> QED
  BY <1>1, <1>2 DEF Passes

LEMMA TornStep ==
    ASSUME Disciplined, Operations \intersect {"delete", "erase"} = {}, Torn, [FSNext]_fsVars
    PROVE  Torn' /\ Local
<1>1. Intact /\ failed \in [op : Operation, names : SUBSET Name]
  BY DEF Torn
<1>2. CASE UNCHANGED fsVars
  BY <1>1, <1>2 DEF fsVars, Torn, Intact, Local
<1>3. CASE Restart
  <2>1. disk' = disk /\ opened' = opened /\ failed' = Running
    BY <1>3 DEF Restart
  <2>2. Torn'
    BY <1>1, <2>1 DEF Torn, Intact, Running, Operation
  <2>3. Local
    BY <2>1 DEF Local
  <2> QED
    BY <2>2, <2>3
<1>4. ASSUME NEW n \in Name, Passes({n}) PROVE Torn' /\ Local
  BY <1>4, PassesLocal
<1>5. ASSUME NEW n \in Name, FCreate(n) PROVE Torn' /\ Local
  BY <1>1, <1>4, <1>5, CreatePasses
<1>6. ASSUME NEW n \in Name, FOpen(n) PROVE Torn' /\ Local
  BY <1>1, <1>4, <1>6, OpenPasses
<1>7. ASSUME NEW n \in Name, NEW m \in Name, FRename(n, m) PROVE Torn' /\ Local
  <2>1. Passes({n, m}) /\ {n, m} \in SUBSET Name
    BY <1>1, <1>7, RenamePasses
  <2> QED
    BY <2>1, PassesLocal
<1>8. ASSUME NEW n \in Open, FClose(n) PROVE Torn' /\ Local
  <2>1. n \in Name /\ Passes({n})
    BY <1>1, <1>8, ClosePasses DEF Open
  <2> QED
    BY <1>4, <2>1
<1>9. ASSUME NEW n \in Open,
             \/ FFlush(n) \/ \E l \in Lengths : FRead(n, l)
             \/ \E p \in Positions : FSeek(n, p)
             \/ \E l \in Lengths, b \in Byte : FWrite(n, [i \in 1 .. l |-> b])
      PROVE  Torn' /\ Local
  <2>1. n \in Name /\ Passes({n})
    BY <1>1, <1>9, DescriptorsPass DEF Open
  <2> QED
    BY <1>4, <2>1
<1>10. \A n : ~ FDelete(n) /\ \A l : ~ FErase(n, l)
  BY DEF FDelete, FErase
<1>11. CASE FSOperation
  BY <1>5, <1>6, <1>7, <1>8, <1>9, <1>10, <1>11 DEF FSOperation
<1> QED
  BY <1>2, <1>3, <1>11 DEF FSNext

LEMMA AlwaysTorn ==
    ASSUME Disciplined, Operations \intersect {"delete", "erase"} = {}
    PROVE  FSSpec => []Torn
<1>1. Torn /\ [FSNext]_fsVars => Torn'
  BY TornStep
<1> QED
  BY <1>1, TornInit, PTL DEF FSSpec

LEMMA TornTypes == Torn => FSTypeOK
  BY DEF Torn, Intact, Held, Disks, Descriptors, FSTypeOK

\* The name of an owner in NoSharedSector.
OwnerName(o) == IF o = TheRoot THEN "root" ELSE EntriesIn(disk.sct[o[1]])[o[2]].name

LEMMA UsedOwned ==
    ASSUME NEW B, Held(disk, opened, B), NEW a \in {"free", "root"} \union (Files \ Open)
    PROVE  \/ a = "free" /\ Used(a) = Chain(disk, disk.freeBegin)
           \/ \E o \in Owner : a = OwnerName(o) /\ Used(a) \subseteq Chain(disk, B[o])
<1>1. CASE a = "free"
  BY <1>1 DEF Used
<1>2. CASE a = "root"
  <2>1. Used(a) = Chain(disk, disk.root.sctBegin)
    BY <1>2 DEF Used
  <2>2. disk.root.sctBegin = B[TheRoot]
    BY DEF Held, RootHeld
  <2>3. a = OwnerName(TheRoot) /\ Used(a) \subseteq Chain(disk, B[TheRoot])
    BY <1>2, <2>1, <2>2 DEF OwnerName
  <2> QED
    BY <2>3, OwnerIs
<1>3. CASE a \notin {"free", "root"}
  <2> DEFINE fe == FindInRoot(disk, a)
             s == fe.inSctIdx
             i == fe.inSctOff
             o == << s, i >>
  <2>1. Used(a) = Chain(disk, fe.sctBegin)
    BY <1>3 DEF Used
  <2>2. fe = FindInRoot(disk, a) /\ fe # Missing
    BY <1>3 DEF Files
  <2> HIDE DEF fe
  <2>3. /\ fe \in FileEntry /\ Placed(disk, a, s, i) /\ Fits(disk, B[o], fe)
    BY <2>2, WhereFound
  <2>4. o \in Owner /\ o # TheRoot /\ EntriesIn(disk.sct[s])[i].name = a
    BY <2>3, EntryFields DEF Placed
  <2>5. a = OwnerName(o)
    BY <2>4 DEF OwnerName
  <2>6. Chain(disk, fe.sctBegin) \subseteq Chain(disk, B[o])
    <3>1. fe.sctBegin \in {End, B[o]}
      BY <2>3 DEF Fits
    <3>2. Chain(disk, End) = {}
      <4>1. FindIndex(disk, End, 0) = End
        BY IndexZero
      <4>2. Linked(disk, End, 0)
        BY <4>1 DEF Linked
      <4> QED
        BY <4>2, ChainLength
    <3> QED
      BY <3>1, <3>2
  <2> QED
    BY <2>1, <2>4, <2>5, <2>6
<1> QED
  BY <1>1, <1>2, <1>3

LEMMA TornShared == Torn => NoSharedSector
<1> SUFFICES ASSUME Torn, NEW a \in {"free", "root"} \union (Files \ Open),
                    NEW b \in {"free", "root"} \union (Files \ Open), a # b
             PROVE  Used(a) \intersect Used(b) = {}
  BY DEF NoSharedSector
<1>1. PICK B : Held(disk, opened, B)
  BY DEF Torn, Intact
<1>2. Claims(disk, B)
  BY <1>1 DEF Held
<1> DEFINE Free(x) == x = "free" /\ Used(x) = Chain(disk, disk.freeBegin)
           Its(x, o) == x = OwnerName(o) /\ Used(x) \subseteq Chain(disk, B[o])
<1>3. Free(a) \/ \E o \in Owner : Its(a, o)
  BY <1>1, UsedOwned
<1>4. Free(b) \/ \E o \in Owner : Its(b, o)
  BY <1>1, UsedOwned
<1>5. CASE Free(a) /\ Free(b)
  BY <1>5
<1>6. ASSUME NEW o \in Owner, NEW x, NEW y, Free(x), Its(y, o)
      PROVE  Used(x) \intersect Used(y) = {}
  <2>1. Chain(disk, B[o]) \intersect Chain(disk, disk.freeBegin) = {}
    BY <1>2 DEF Claims
  <2> QED
    BY <1>6, <2>1
<1>7. ASSUME NEW o \in Owner, NEW p \in Owner, Its(a, o), Its(b, p)
      PROVE  Used(a) \intersect Used(b) = {}
  <2>1. o # p
    BY <1>7
  <2>2. Chain(disk, B[o]) \intersect Chain(disk, B[p]) = {}
    BY <1>2, <2>1 DEF Claims
  <2> QED
    BY <1>7, <2>2
<1> HIDE DEF Free, Its
<1>8. CASE Free(a)
  <2>1. CASE ~ Free(b)
    <3>1. PICK o \in Owner : Its(b, o)
      BY <1>4, <2>1
    <3> QED
      BY <1>6, <1>8, <3>1
  <2> QED
    BY <1>5, <1>8, <2>1
<1>9. CASE ~ Free(a)
  <2>1. PICK o \in Owner : Its(a, o)
    BY <1>3, <1>9
  <2>2. CASE Free(b)
    <3>1. Used(b) \intersect Used(a) = {}
      BY <1>6, <2>1, <2>2
    <3> QED
      BY <3>1
  <2>3. CASE ~ Free(b)
    <3>1. PICK p \in Owner : Its(b, p)
      BY <1>4, <2>3
    <3> QED
      BY <1>7, <2>1, <3>1
  <2> QED
    BY <2>2, <2>3
<1> QED
  BY <1>8, <1>9

LEMMA QuietShared == Quiet => NoSharedSector
<1> SUFFICES ASSUME Quiet, NEW a \in {"free", "root"} \union (Files \ Open),
                    NEW b \in {"free", "root"} \union (Files \ Open), a # b
             PROVE  Used(a) \intersect Used(b) = {}
  BY DEF NoSharedSector
<1> DEFINE free == Chain(disk, disk.freeBegin)
           root == Chain(disk, disk.root.sctBegin)
<1>1. SectorsPartition
  BY QuietPartition
<1>2. /\ free \intersect root = {}
      /\ \A n \in Files : /\ Owned(n) \intersect (free \union root) = {}
                          /\ \A m \in Files \ {n} : Owned(n) \intersect Owned(m) = {}
  BY <1>1 DEF SectorsPartition
<1> HIDE DEF free, root
<1>3. \A x \in {"free", "root"} \union (Files \ Open) :
          \/ x = "free" /\ Used(x) = free
          \/ x = "root" /\ Used(x) = root
          \/ x \in Files /\ Used(x) = Owned(x) /\ x \notin {"free", "root"}
  <2> TAKE x \in {"free", "root"} \union (Files \ Open)
  <2>1. CASE x = "free"
    BY <2>1 DEF Used, free
  <2>2. CASE x = "root"
    BY <2>2 DEF Used, root
  <2>3. CASE x \notin {"free", "root"}
    BY <2>3 DEF Used, Owned, EntryOf
  <2> QED
    BY <2>1, <2>2, <2>3
<1> QED
  BY <1>2, <1>3

-----------------------------------------------------------------------------
(* The theorems. Callers are disciplined, as FCreate, FDelete and FErase say:  *)
(* there is room for a new entry, no file is open while one is deleted, and    *)
(* nothing is erased that leaves the position behind the last sector. Where    *)
(* the power may fail, files are not deleted or shortened: both free sectors   *)
(* before the record that has them is written (fs.c:740-764, 829-836).         *)

\* The variables always hold values of their types, however long callers go on.
THEOREM FilesTyped ==
    ASSUME Disciplined, ~PowerFails \/ Operations \intersect {"delete", "erase"} = {}
    PROVE  FSSpec => []FSTypeOK
<1>1. CASE ~PowerFails
  BY <1>1, AlwaysQuiet, QuietTypes, PTL
<1>2. CASE Operations \intersect {"delete", "erase"} = {}
  BY <1>2, AlwaysTorn, TornTypes, PTL
<1> QED
  BY <1>1, <1>2

\* Every sector is always free, in the directory, or in one file and in one of
\* them only, whatever files are created, written, shortened, renamed and deleted
\* (fs.c:159-234, 429-457, 740-764).
THEOREM SectorsNeverLost ==
    ASSUME Disciplined, ~PowerFails
    PROVE  FSSpec => []SectorsPartition
  BY AlwaysQuiet, QuietPartition, PTL

\* The directory never has a hole or a name twice, and every entry knows its place
\* (fs.c:483-484, 721-730, 820-836, 944-957).
THEOREM DirectoryInOrder ==
    ASSUME Disciplined, ~PowerFails
    PROVE  FSSpec => []EntriesInPlace
  BY AlwaysQuiet, QuietInPlace, PTL

\* A buffer always holds a sector of its file, and the one on the disk unless it
\* was written to (fs.c:1002-1021, 1411-1435).
THEOREM BuffersFresh ==
    ASSUME Disciplined, ~PowerFails
    PROVE  FSSpec => []CacheFresh
  BY AlwaysQuiet, QuietFresh, PTL

\* No sector is ever in two files, or in a file and in the list that AllocSector
\* takes sectors from: neither while the power does not fail, nor after it failed
\* between any two writes, any number of times, while files are created, opened,
\* renamed, written, read and positioned (fs.c:159-234, 429-457, 470-510).
THEOREM SectorsNeverShared ==
    ASSUME Disciplined, ~PowerFails \/ Operations \intersect {"delete", "erase"} = {}
    PROVE  FSSpec => []NoSharedSector
<1>1. CASE ~PowerFails
  BY <1>1, AlwaysQuiet, QuietShared, PTL
<1>2. CASE Operations \intersect {"delete", "erase"} = {}
  BY <1>2, AlwaysTorn, TornShared, PTL
<1> QED
  BY <1>1, <1>2

\* A power failure in an operation on one file never changes what the disk says of
\* another: its entry is found, and its contents are the same, whatever earlier
\* failures left (fs.c:429-510, 944-957, 1002-1021).
THEOREM FailuresAreLocal ==
    ASSUME Disciplined, Operations \intersect {"delete", "erase"} = {}
    PROVE  FSSpec => FailureIsLocal
<1>1. Torn /\ [FSNext]_fsVars => [Local]_fsVars
  BY TornStep
<1> QED
  BY <1>1, AlwaysTorn, PTL DEF FSSpec, FailureIsLocal, Local
=============================================================================
