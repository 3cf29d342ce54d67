----------------------------- MODULE ContentProofs ----------------------------
(***************************************************************************)
(* What callers see of the file system, on disks, directories and files of *)
(* any size: while they are disciplined and the power does not fail, the   *)
(* invariant of module FileProofs makes sectors, chains, entries and       *)
(* buffers an implementation of the files of module Files. A session on a  *)
(* file shows its bytes, and every call is made of steps that show the     *)
(* same, or one byte more, or less of its end, and leave the other files.  *)
(***************************************************************************)
EXTENDS FileContents, FileProofs

-----------------------------------------------------------------------------
(* What files contain. View is the sector idx of a file as callers see it:  *)
(* the buffer if that is the sector in it and was written to.               *)

View(d, fe, fd, idx) ==
    IF fd # Closed /\ fd.changed /\ fd.objIdx = idx THEN fd.cache
    ELSE BytesIn(d.sct[FindIndex(d, fe.sctBegin, idx)])

Filed(fe) == fe \in FileEntry /\ Proper(fe) /\ (fe.sctBegin = End <=> fe.sctNum = 0)

\* The byte i is in a sector of the file.
LEMMA InSector ==
    ASSUME NEW fe, Filed(fe), NEW i \in 1 .. Bytes(fe)
    PROVE  (i - 1) \div SECT_SIZE \in 0 .. fe.sctNum - 1 /\ (i - 1) % SECT_SIZE \in Offset
<1> DEFINE k == fe.sctNum
           S == SECT_SIZE
           p == i - 1
           q == p \div S
           r == p % S
<1>1. k \in Nat /\ S \in Nat \ {0} /\ fe.lastBytes \in 0 .. S
  BY EntryFields, Sizes DEF Filed
<1>2. (k - 1) * S = S * k - S /\ S * k \in Nat
  BY <1>1
<1>3. p \in Nat /\ p < S * k
  BY <1>1, <1>2 DEF Bytes
<1>4. q \in Nat /\ r \in Offset /\ r \in 0 .. S - 1 /\ p = S * q + r
  <2> HIDE DEF p
  <2> QED
    BY <1>3, Divided DEF Offset
<1> HIDE DEF p, q, r, k
<1>5. q < k
  <2> SUFFICES ASSUME q >= k PROVE FALSE
    BY <1>1, <1>4
  <2>1. q - k \in Nat
    BY <1>1, <1>4
  <2>2. S * (q - k) \in Nat
    BY <1>1, <2>1
  <2>3. S * (q - k) = S * q - S * k
    BY <1>1, <1>4, Times
  <2>4. S * q \in Nat
    BY <1>1, <1>4
  <2> QED
    BY <1>1, <1>2, <1>3, <1>4, <2>2, <2>3, <2>4
<1>6. q \in 0 .. k - 1
  BY <1>1, <1>4, <1>5
<1> QED
  BY <1>4, <1>6 DEF p, q, r, k

\* The byte i of a file.
ByteAt(d, fe, fd, i) == View(d, fe, fd, (i - 1) \div SECT_SIZE)[(i - 1) % SECT_SIZE]

LEMMA ContentIs ==
    ASSUME NEW d, NEW fe, Filed(fe), NEW fd
    PROVE  /\ GetFileLen([fe |-> fe]) = Bytes(fe) /\ Bytes(fe) \in Nat
           /\ Content(d, fe, fd) = [i \in 1 .. Bytes(fe) |-> ByteAt(d, fe, fd, i)]
<1> DEFINE k == fe.sctNum
           S == SECT_SIZE
           len == GetFileLen([fe |-> fe])
<1>1. k \in Nat /\ S \in Nat \ {0} /\ fe.lastBytes \in 0 .. S /\ Proper(fe)
  BY EntryFields, Sizes DEF Filed
<1>2. len = IF k = 0 THEN 0 ELSE (k - 1) * S + fe.lastBytes
  BY DEF GetFileLen, Filed
<1>3. k = 0 => Bytes(fe) = 0
  BY <1>1 DEF Bytes, Proper
<1>4. k # 0 => Bytes(fe) \in Nat
  <2>1. (k - 1) * S = S * k - S
    BY <1>1
  <2> SUFFICES ASSUME k # 0 PROVE Bytes(fe) \in Nat
    OBVIOUS
  <2>2. k - 1 \in Nat
    BY <1>1
  <2>3. (k - 1) * S \in Nat
    BY <1>1, <2>2
  <2> QED
    BY <1>1, <2>3 DEF Bytes
<1>5. len = Bytes(fe) /\ Bytes(fe) \in Nat
  BY <1>2, <1>3, <1>4 DEF Bytes
<1>6. Content(d, fe, fd) = [i \in 1 .. len |-> ByteAt(d, fe, fd, i)]
  BY DEF Content, ByteAt, View
<1> QED
  BY <1>5, <1>6

\* Two files agree as far as the second one goes.
LEMMA ContentsAgree ==
    ASSUME NEW d, NEW fe, Filed(fe), NEW fd, NEW x, NEW ge, Filed(ge), NEW gd,
           Bytes(ge) <= Bytes(fe),
           \A k \in 0 .. fe.sctNum - 1 : k < ge.sctNum => View(x, ge, gd, k) = View(d, fe, fd, k)
    PROVE  /\ \A i \in 1 .. Bytes(ge) : Content(x, ge, gd)[i] = Content(d, fe, fd)[i]
           /\ Bytes(ge) = Bytes(fe) => Content(x, ge, gd) = Content(d, fe, fd)
<1>1. /\ Bytes(fe) \in Nat /\ Bytes(ge) \in Nat
      /\ Content(d, fe, fd) = [i \in 1 .. Bytes(fe) |-> ByteAt(d, fe, fd, i)]
      /\ Content(x, ge, gd) = [i \in 1 .. Bytes(ge) |-> ByteAt(x, ge, gd, i)]
  BY ContentIs
<1>2. ASSUME NEW i \in 1 .. Bytes(ge)
      PROVE  ByteAt(x, ge, gd, i) = ByteAt(d, fe, fd, i) /\ i \in 1 .. Bytes(fe)
  <2> DEFINE k == (i - 1) \div SECT_SIZE
  <2>1. i \in 1 .. Bytes(fe)
    BY <1>1
  <2>2. k \in 0 .. fe.sctNum - 1 /\ k \in 0 .. ge.sctNum - 1
    BY <2>1, InSector
  <2>3. fe.sctNum \in Nat /\ ge.sctNum \in Nat
    BY EntryFields DEF Filed
  <2>4. View(x, ge, gd, k) = View(d, fe, fd, k)
    <3> HIDE DEF k
    <3> QED
      BY <2>2, <2>3
  <2> QED
    BY <2>1, <2>4 DEF ByteAt
<1> QED
  BY <1>1, <1>2

LEMMA SectorsTyped ==
    ASSUME NEW d \in Disks, NEW fe, Filed(fe), Linked(d, fe.sctBegin, fe.sctNum), NEW fd,
           fd = Closed \/ fd \in FileDesc, NEW k \in 0 .. fe.sctNum - 1
    PROVE  View(d, fe, fd, k) \in [Offset -> Byte]
<1> DEFINE s == FindIndex(d, fe.sctBegin, k)
<1>1. s \in Sector
  BY DEF Linked
<1> HIDE DEF s
<1>2. d.sct[s] \in EntrySector \union DataSector
  BY <1>1, DiskFields
<1>3. BytesIn(d.sct[s]) \in [Offset -> Byte]
  BY <1>2, EntriesKind
<1>4. fd # Closed => fd.cache \in [Offset -> Byte]
  BY DEF FileDesc
<1> QED
  BY <1>3, <1>4 DEF View, s

LEMMA ContentTyped ==
    ASSUME NEW d \in Disks, NEW fe, Filed(fe), Linked(d, fe.sctBegin, fe.sctNum), NEW fd,
           fd = Closed \/ fd \in FileDesc
    PROVE  Content(d, fe, fd) \in Seq(Byte) /\ Len(Content(d, fe, fd)) = Bytes(fe)
<1>1. /\ Bytes(fe) \in Nat
      /\ Content(d, fe, fd) = [i \in 1 .. Bytes(fe) |-> ByteAt(d, fe, fd, i)]
  BY ContentIs
<1>2. ASSUME NEW i \in 1 .. Bytes(fe) PROVE ByteAt(d, fe, fd, i) \in Byte
  <2> DEFINE k == (i - 1) \div SECT_SIZE
             r == (i - 1) % SECT_SIZE
  <2>1. k \in 0 .. fe.sctNum - 1 /\ r \in Offset
    BY InSector
  <2> HIDE DEF k, r
  <2>2. View(d, fe, fd, k)[r] \in Byte
    BY <2>1, SectorsTyped
  <2> QED
    BY <2>2 DEF ByteAt, k, r
<1> QED
  BY <1>1, <1>2

-----------------------------------------------------------------------------
(* Files that an operation leaves alone *)

\* The record of the file m, with the descriptor fd.
RecordOf(d, fd, m) == IF fd # Closed THEN fd.fe ELSE FindInRoot(d, m)

LEMMA RecordIs ==
    ASSUME NEW d, NEW fds, Chains(d, fds), NEW m \in Name, NEW fe, fe = RecordOf(d, fds[m], m),
           NEW R, R = Recs(d, fds)
    PROVE  /\ fds[m] # Closed => fe # Missing
           /\ fe # Missing => /\ Filed(fe) /\ Linked(d, fe.sctBegin, fe.sctNum)
                              /\ m \in DOMAIN R /\ m # Missing /\ R[m] = fe
                              /\ FindInRoot(d, m) # Missing
<1>1. Owners(d, fds, R)
  BY RecsAre
<1>2. fds[m] # Closed =>
          m \in DOMAIN R /\ m # Missing /\ fds[m] \in FileDesc /\ R[m] = fds[m].fe
  BY <1>1 DEF Owners
<1>3. fds[m] # Closed => fe # Missing
  BY <1>2, NameAssumption DEF RecordOf, FileDesc
<1>4. ASSUME fe # Missing
      PROVE  m \in DOMAIN R /\ m # Missing /\ R[m] = fe /\ FindInRoot(d, m) # Missing
  <2>1. CASE fds[m] # Closed
    BY <1>1, <1>2, <2>1 DEF RecordOf, Owners
  <2>2. CASE fds[m] = Closed
    BY <1>1, <1>4, <2>2 DEF RecordOf, Owners
  <2> QED
    BY <2>1, <2>2
<1>5. ASSUME fe # Missing PROVE Filed(fe) /\ Linked(d, fe.sctBegin, fe.sctNum)
  <2>1. fe \in FileEntry /\ Proper(fe) /\ Linked(d, fe.sctBegin, fe.sctNum)
    BY <1>1, <1>4, <1>5 DEF Owners, Shares
  <2>2. FindIndex(d, fe.sctBegin, 0) = fe.sctBegin
    BY IndexZero
  <2>3. fe.sctNum = 0 => fe.sctBegin = End
    BY <2>1, <2>2 DEF Linked
  <2>4. fe.sctNum # 0 => fe.sctBegin \in Sector
    BY <2>1, <2>2 DEF Linked
  <2>5. End \notin Sector
    BY Numbers
  <2> QED
    BY <2>1, <2>3, <2>4, <2>5 DEF Filed
<1> QED
  BY <1>3, <1>4, <1>5

\* The records and the sectors of all files but those of N stay.
Leaves(d, x, fds, N) ==
    \A m \in Name \ N :
        /\ RecordOf(x, fds[m], m) = RecordOf(d, fds[m], m)
        /\ RecordOf(d, fds[m], m) # Missing => Same(d, x, RecordOf(d, fds[m], m))

LEMMA LeavesSelf ==
    ASSUME NEW d, NEW fds, NEW N
    PROVE  Leaves(d, d, fds, N)
  BY DEF Leaves, Same

LEMMA LeavesTwice ==
    ASSUME NEW d, NEW x, NEW y, NEW fds, NEW N, Leaves(d, x, fds, N), Leaves(x, y, fds, N)
    PROVE  Leaves(d, y, fds, N)
  BY SameTwice DEF Leaves

LEMMA LeavesWith ==
    ASSUME NEW d, NEW x, NEW fds, NEW gds, NEW N, \A m \in Name \ N : gds[m] = fds[m],
           Leaves(d, x, fds, N)
    PROVE  Leaves(d, x, gds, N)
  BY DEF Leaves

\* Callers see what they saw.
LEMMA LeavesFiles ==
    ASSUME NEW d, NEW fds, Chains(d, fds), NEW x, NEW N, Leaves(d, x, fds, N), NEW m \in Name \ N
    PROVE  FileOf(x, fds[m], m) = FileOf(d, fds[m], m)
<1> DEFINE fe == RecordOf(d, fds[m], m)
           fd == fds[m]
<1>1. RecordOf(x, fd, m) = fe /\ (fe # Missing => Same(d, x, fe))
  BY DEF Leaves
<1>2. fe # Missing => Filed(fe)
  BY RecordIs
<1>3. fe = RecordOf(d, fd, m)
  OBVIOUS
<1> HIDE DEF fe, fd
<1>4. ASSUME fe # Missing PROVE Content(x, fe, fd) = Content(d, fe, fd)
  <2>1. ASSUME NEW k \in 0 .. fe.sctNum - 1 PROVE View(x, fe, fd, k) = View(d, fe, fd, k)
    BY <1>1, <1>4 DEF Same, View
  <2>2. Bytes(fe) \in Nat
    BY <1>2, <1>4, ContentIs
  <2> QED
    BY <1>2, <1>4, <2>1, <2>2, ContentsAgree
<1>5. /\ FileOf(x, fd, m) = IF fe = Missing THEN Missing
                            ELSE [bytes |-> Content(x, fe, fd),
                                  pos |-> IF fd # Closed THEN GetFilePos(fd) ELSE Closed]
      /\ FileOf(d, fd, m) = IF fe = Missing THEN Missing
                            ELSE [bytes |-> Content(d, fe, fd),
                                  pos |-> IF fd # Closed THEN GetFilePos(fd) ELSE Closed]
  BY <1>1, <1>3 DEF FileOf, RecordOf
<1> QED
  BY <1>4, <1>5 DEF fd

\* A chain gets or loses sectors.
LEMMA LeavesMoved ==
    ASSUME NEW d, NEW fds, Chains(d, fds), NEW R, R = Recs(d, fds), NEW o \in DOMAIN R,
           NEW x, NEW fe, Moved(d, x, R, o, fe), NEW N, o \in Name => o \in N,
           \A m \in Name \ N : FindInRoot(x, m) = FindInRoot(d, m)
    PROVE  Leaves(d, x, fds, N)
<1> SUFFICES ASSUME NEW m \in Name \ N
             PROVE  /\ RecordOf(x, fds[m], m) = RecordOf(d, fds[m], m)
                    /\ RecordOf(d, fds[m], m) # Missing => Same(d, x, RecordOf(d, fds[m], m))
  BY DEF Leaves
<1>1. RecordOf(x, fds[m], m) = RecordOf(d, fds[m], m)
  BY DEF RecordOf
<1>2. ASSUME NEW ge, ge = RecordOf(d, fds[m], m), ge # Missing PROVE Same(d, x, ge)
  <2>1. m \in DOMAIN R /\ R[m] = ge /\ m # o
    BY <1>2, RecordIs
  <2>2. x.sct = d.sct /\ \A i \in Nat : FindIndex(x, ge.sctBegin, i) = FindIndex(d, ge.sctBegin, i)
    BY <2>1 DEF Moved, Apart
  <2>3. ge.sctNum \in Nat
    BY <1>2, RecordIs, EntryFields DEF Filed
  <2> QED
    BY <2>2, <2>3 DEF Same
<1> QED
  BY <1>1, <1>2

\* An entry is written.
LEMMA RootApart ==
    ASSUME NEW d, NEW fds, Chains(d, fds), NEW x, OnlyRoot(d, x), NEW m \in Name,
           NEW ge, ge = RecordOf(d, fds[m], m), ge # Missing
    PROVE  Same(d, x, ge)
<1>1. PICK R : R = Recs(d, fds)
  OBVIOUS
<1>2. m \in DOMAIN R /\ R[m] = ge /\ m # Missing /\ Filed(ge)
  BY <1>1, RecordIs
<1>3. Owners(d, fds, R)
  BY <1>1, RecsAre
<1>4. Missing \in DOMAIN R /\ R[Missing] = d.root /\ Shares(d, R)
  BY <1>3 DEF Owners
<1>5. ASSUME NEW i \in 0 .. ge.sctNum - 1
      PROVE  /\ FindIndex(x, ge.sctBegin, i) = FindIndex(d, ge.sctBegin, i)
             /\ x.sct[FindIndex(d, ge.sctBegin, i)] = d.sct[FindIndex(d, ge.sctBegin, i)]
  <2> DEFINE s == FindIndex(d, ge.sctBegin, i)
  <2>1. i \in Nat
    BY <1>2, EntryFields DEF Filed
  <2>2. FindIndex(x, ge.sctBegin, i) = s
    BY <2>1, IndexByMap DEF OnlyRoot
  <2>3. Linked(d, ge.sctBegin, ge.sctNum)
    BY <1>2, <1>4 DEF Shares
  <2>4. s \in Chain(d, ge.sctBegin) /\ s \in Sector
    BY <2>3, ChainLength DEF Linked
  <2>5. Chain(d, ge.sctBegin) \intersect Chain(d, d.root.sctBegin) = {}
    BY <1>2, <1>4 DEF Shares
  <2> HIDE DEF s
  <2>6. x.sct[s] = d.sct[s]
    BY <2>4, <2>5 DEF OnlyRoot
  <2> QED
    BY <2>2, <2>6 DEF s
<1> QED
  BY <1>5 DEF Same

LEMMA LeavesRoot ==
    ASSUME NEW d, NEW fds, Chains(d, fds), NEW x, OnlyRoot(d, x), NEW N,
           \A m \in Name \ N : FindInRoot(x, m) = FindInRoot(d, m)
    PROVE  Leaves(d, x, fds, N)
<1> SUFFICES ASSUME NEW m \in Name \ N
             PROVE  /\ RecordOf(x, fds[m], m) = RecordOf(d, fds[m], m)
                    /\ RecordOf(d, fds[m], m) # Missing => Same(d, x, RecordOf(d, fds[m], m))
  BY DEF Leaves
<1>1. RecordOf(x, fds[m], m) = RecordOf(d, fds[m], m)
  BY DEF RecordOf
<1> QED
  BY <1>1, RootApart

\* A buffer is written to a sector of the file n.
LEMMA LeavesAt ==
    ASSUME NEW d, NEW fds, Chains(d, fds), NEW n \in Name, fds[n] # Closed,
           NEW j \in 0 .. fds[n].fe.sctNum - 1, NEW s, s = FindIndex(d, fds[n].fe.sctBegin, j),
           NEW x, OnlyAt(d, x, s), \A m \in Name : FindInRoot(x, m) = FindInRoot(d, m)
    PROVE  Leaves(d, x, fds, {n})
<1> SUFFICES ASSUME NEW m \in Name \ {n}
             PROVE  /\ RecordOf(x, fds[m], m) = RecordOf(d, fds[m], m)
                    /\ RecordOf(d, fds[m], m) # Missing => Same(d, x, RecordOf(d, fds[m], m))
  BY DEF Leaves
<1>1. RecordOf(x, fds[m], m) = RecordOf(d, fds[m], m)
  BY DEF RecordOf
<1>2. ASSUME NEW ge, ge = RecordOf(d, fds[m], m), ge # Missing PROVE Same(d, x, ge)
  <2>1. PICK R : R = Recs(d, fds)
    OBVIOUS
  <2>2. m \in DOMAIN R /\ R[m] = ge /\ Filed(ge)
    BY <1>2, <2>1, RecordIs
  <2>3. Owners(d, fds, R)
    BY <2>1, RecsAre
  <2>4. n \in DOMAIN R /\ R[n] = fds[n].fe /\ Shares(d, R)
    BY <2>3 DEF Owners
  <2>5. ASSUME NEW i \in 0 .. ge.sctNum - 1
        PROVE  /\ FindIndex(x, ge.sctBegin, i) = FindIndex(d, ge.sctBegin, i)
               /\ x.sct[FindIndex(d, ge.sctBegin, i)] = d.sct[FindIndex(d, ge.sctBegin, i)]
    <3> DEFINE t == FindIndex(d, ge.sctBegin, i)
    <3>1. i \in Nat
      BY <2>2, EntryFields DEF Filed
    <3>2. FindIndex(x, ge.sctBegin, i) = t
      BY <3>1, IndexByMap DEF OnlyAt
    <3>3. t \in Sector /\ t # s
      BY <2>2, <2>4, OwnSectors
    <3> HIDE DEF t
    <3>4. x.sct[t] = d.sct[t]
      BY <3>3 DEF OnlyAt
    <3> QED
      BY <3>2, <3>4 DEF t
  <2> QED
    BY <2>5 DEF Same
<1> QED
  BY <1>1, <1>2

\* The entry of an open file is written.
LEMMA LeavesEntry ==
    ASSUME NEW d, NEW fds, Chains(d, fds), NEW n \in Name, fds[n] # Closed, NEW fe, fe = fds[n].fe,
           NEW x, x = WithEntry(d, fe.inSctIdx, fe.inSctOff, fe)
    PROVE  Leaves(d, x, fds, {n}) /\ Same(d, x, fe)
<1>1. Directory(d) /\ Named(d, n, fds[n]) /\ fe \in FileEntry
  BY DEF Chains, Descriptors, FileDesc
<1>2. fe.name = n /\ FindInRoot(d, n) # Missing /\ SamePlace(fe, FindInRoot(d, n))
  BY <1>1 DEF Named
<1>3. OnlyRoot(d, x) /\ Renamed(d, x, n, n, fe)
  BY <1>1, <1>2, EntryWritten
<1>4. \A m \in Name \ {n} : FindInRoot(x, m) = FindInRoot(d, m)
  BY <1>3 DEF Renamed
<1>5. fe = RecordOf(d, fds[n], n) /\ fe # Missing
  BY <1>1, NameAssumption DEF RecordOf
<1> QED
  BY <1>3, <1>4, <1>5, LeavesRoot, RootApart

-----------------------------------------------------------------------------
(* What sessions show *)

Shows(s) == Content(Now(s.w), s.fd.fe, s.fd)

LEMMA HoldsFiled ==
    ASSUME NEW fds \in Descriptors, NEW n \in Name, NEW s, Holds(fds, n, s)
    PROVE  /\ Filed(s.fd.fe) /\ Linked(Now(s.w), s.fd.fe.sctBegin, s.fd.fe.sctNum)
           /\ Now(s.w) \in Disks /\ s.fd \in FileDesc /\ s.fd # Closed
           /\ GetFileLen(s.fd) = Bytes(s.fd.fe) /\ Bytes(s.fd.fe) \in Nat
           /\ GetFilePos(s.fd) \in Nat
<1> DEFINE d == Now(s.w)
           gds == With(fds, n, s.fd)
           fe == RecordOf(d, gds[n], n)
<1>1. s.fd \in FileDesc /\ Chains(d, gds)
  BY DEF Holds
<1>2. gds[n] = s.fd /\ s.fd # Closed
  BY <1>1, Withs
<1>3. fe = s.fd.fe
  BY <1>2 DEF RecordOf
<1>4. Filed(fe) /\ Linked(d, fe.sctBegin, fe.sctNum)
  <2>1. PICK R : R = Recs(d, gds)
    OBVIOUS
  <2> HIDE DEF gds
  <2> QED
    BY <1>1, <1>2, <2>1, RecordIs
<1>5. d \in Disks
  BY <1>1 DEF Chains, Directory
<1>6. GetFileLen(s.fd) = Bytes(s.fd.fe) /\ GetFileLen(s.fd) \in Nat /\ GetFilePos(s.fd) \in Nat
  BY LengthIs
<1> QED
  BY <1>1, <1>2, <1>3, <1>4, <1>5, <1>6

LEMMA FlushShows ==
    ASSUME NEW fds \in Descriptors, NEW n \in Name, NEW s, Holds(fds, n, s), NEW f,
           f = ToFlush(s)
    PROVE  Shows(f) = Shows(s) /\ Leaves(Now(s.w), Now(f.w), fds, {n})
<1> DEFINE d == Now(s.w)
           gds == With(fds, n, s.fd)
           i == s.fd.objIdx
           fe == s.fd.fe
           si == FindIndex(d, fe.sctBegin, i)
<1>1. /\ s = [w |-> s.w, fd |-> s.fd, ok |-> s.ok] /\ History(s.w) /\ s.fd \in FileDesc
      /\ Started(s.fd) /\ Chains(d, gds)
  BY DEF Holds
<1>2. gds[n] = s.fd /\ gds[n] # Closed /\ s.fd # Closed /\ \A m \in Name \ {n} : gds[m] = fds[m]
  BY <1>1, Withs
<1>3. /\ Filed(fe) /\ Linked(d, fe.sctBegin, fe.sctNum) /\ d \in Disks /\ fe.sctNum \in Nat
      /\ Bytes(fe) \in Nat
  BY HoldsFiled DEF Linked
<1>4. CASE ~s.fd.changed
  <2> DEFINE x == WithEntry(d, fe.inSctIdx, fe.inSctOff, fe)
             v == s.w
             fd == s.fd
             ok == s.ok
  <2>1. f = [s EXCEPT !.w = Write(v, x)]
    BY <1>4 DEF ToFlush, FlushFileEntry
  <2>2. s = [w |-> v, fd |-> fd, ok |-> ok]
    BY <1>1
  <2>3. History(v)
    BY <1>1
  <2> HIDE DEF v, fd, ok, x
  <2>4. f.w = Write(v, x) /\ f.fd = fd /\ Now(f.w) = x
    BY <2>1, <2>2, <2>3, Written
  <2>5. Leaves(d, x, gds, {n}) /\ Same(d, x, fe)
    BY <1>1, <1>2, LeavesEntry DEF x
  <2>6. Leaves(d, x, fds, {n})
    BY <1>2, <2>5, LeavesWith
  <2> HIDE DEF d, gds
  <2>7. ASSUME NEW k \in 0 .. fe.sctNum - 1 PROVE View(x, fe, fd, k) = View(d, fe, fd, k)
    BY <2>5 DEF Same, View
  <2>8. Content(x, fe, fd) = Content(d, fe, fd)
    BY <1>3, <2>7, ContentsAgree
  <2> QED
    BY <2>4, <2>6, <2>8 DEF Shows, d, fd
<1>5. CASE s.fd.changed /\ si = End
  <2>1. f = s
    BY <1>5 DEF ToFlush
  <2> QED
    BY <2>1, LeavesSelf
<1>6. CASE s.fd.changed /\ si # End
  <2> DEFINE cache == s.fd.cache
             x == WithBytes(d, si, cache)
             y == WithEntry(x, fe.inSctIdx, fe.inSctOff, fe)
             v == s.w
             gd == s.fd
             ok == s.ok
             fd == [gd EXCEPT !.changed = FALSE]
  <2>1. f = [s EXCEPT !.w = Write(Write(v, x), WithEntry(Now(Write(v, x)), fe.inSctIdx,
                                                        fe.inSctOff, fe)),
                      !.fd.changed = FALSE]
    BY <1>6 DEF ToFlush, FlushFileEntry, WithBytes
  <2>2. s = [w |-> v, fd |-> gd, ok |-> ok] /\ History(v)
    BY <1>1
  <2>3. i # End /\ i \in Nat /\ cache \in [Offset -> Byte]
    BY <1>1, <1>6, Numbers DEF Started, FileDesc
  <2>4. i \in 0 .. fe.sctNum - 1
    <3>1. i < fe.sctNum
      BY <1>3, <1>6, <2>3, BehindEnd
    <3> QED
      BY <1>3, <2>3, <3>1
  <2>5. si \in Sector
    BY <1>3, <2>4 DEF Linked
  <2>6. fd.fe = fe /\ fd.changed = FALSE
    BY <1>1 DEF FileDesc
  <2>7. OnlyAt(d, x, si) /\ BytesIn(x.sct[si]) = cache
    BY <1>3, <2>3, <2>5, BytesWritten
  <2> HIDE DEF x
  <2>8. f.w = Write(Write(v, x), y) /\ f.fd = fd /\ Now(f.w) = y
    <3>1. Now(Write(v, x)) = x /\ History(Write(v, x))
      BY <2>2, Written
    <3> HIDE DEF v, gd, ok, fe
    <3>2. f.w = Write(Write(v, x), y)
      BY <2>1, <2>2, <3>1
    <3> HIDE DEF y
    <3>3. f.fd = fd
      BY <2>1, <2>2
    <3>4. Now(f.w) = y
      BY <3>1, <3>2, Written
    <3> QED
      BY <3>2, <3>3, <3>4
  <2> HIDE DEF fd
  <2>9. Chains(x, gds) /\ \A m \in Name : FindInRoot(x, m) = FindInRoot(d, m)
    <3>1. PICK R : R = Recs(d, gds)
      OBVIOUS
    <3>2. /\ i \in 0 .. gds[n].fe.sctNum - 1 /\ si = FindIndex(d, gds[n].fe.sctBegin, i)
      BY <1>2, <2>4
    <3>3. Chains(d, gds) /\ gds[n] # Closed /\ OnlyAt(d, x, si)
      BY <1>1, <1>2, <2>7
    <3> HIDE DEF d, gds, i, si
    <3>4. Chains(x, gds) /\ SameDirectory(d, x)
      BY <3>1, <3>2, <3>3, FileWritten
    <3>5. Directory(d) /\ x \in Disks
      BY <3>3 DEF Chains, OnlyAt
    <3> QED
      BY <3>4, <3>5, DirectoryKept
  <2>10. Leaves(d, x, gds, {n})
    <3>1. i \in 0 .. gds[n].fe.sctNum - 1 /\ si = FindIndex(d, gds[n].fe.sctBegin, i)
      BY <1>2, <2>4
    <3> HIDE DEF d, gds, i, si
    <3> QED
      BY <1>1, <1>2, <2>7, <2>9, <3>1, LeavesAt
  <2>11. Leaves(x, y, gds, {n}) /\ Same(x, y, fe)
    <3>1. fe = gds[n].fe
      BY <1>2
    <3> HIDE DEF d, gds, fe
    <3> QED
      BY <1>2, <2>9, <3>1, LeavesEntry
  <2> HIDE DEF y
  <2>12. Leaves(d, y, fds, {n})
    <3> HIDE DEF gds, d
    <3> QED
      BY <1>2, <2>10, <2>11, LeavesTwice, LeavesWith
  <2>13. ASSUME NEW k \in 0 .. fe.sctNum - 1 PROVE View(y, fe, fd, k) = View(d, fe, gd, k)
    <3> DEFINE t == FindIndex(d, fe.sctBegin, k)
    <3>1. k \in Nat /\ t \in Sector /\ (k # i => t # si)
      BY <1>3, <2>4 DEF Linked
    <3>2. FindIndex(x, fe.sctBegin, k) = t
      BY <2>7, <3>1, IndexByMap DEF OnlyAt
    <3>3. View(y, fe, fd, k) = BytesIn(x.sct[t])
      BY <2>6, <2>11, <3>2 DEF View, Same
    <3>4. View(d, fe, gd, k) = IF k = i THEN cache ELSE BytesIn(d.sct[t])
      BY <1>2, <1>6 DEF View
    <3> HIDE DEF t, i, si, cache
    <3>5. CASE k = i
      <4>1. t = si
        BY <3>5 DEF t, si
      <4> QED
        BY <2>7, <3>3, <3>4, <3>5, <4>1
    <3>6. CASE k # i
      BY <2>7, <3>1, <3>3, <3>4, <3>6 DEF OnlyAt
    <3> QED
      BY <3>5, <3>6
  <2> HIDE DEF d
  <2>14. Content(y, fe, fd) = Content(d, fe, gd)
    <3> HIDE DEF gd
    <3> QED
      BY <1>3, <2>13, ContentsAgree
  <2> QED
    BY <2>6, <2>8, <2>12, <2>14 DEF Shows, d
<1> QED
  BY <1>4, <1>5, <1>6

\* The session t goes on from s: only the chain of the file may be longer.
Lengthened(fds, n, s, t) ==
    /\ Shows(t) = Shows(s) /\ Leaves(Now(s.w), Now(t.w), fds, {n})
    /\ GetFilePos(t.fd) = GetFilePos(s.fd) /\ t.fd.objIdx = s.fd.objIdx /\ t.ok = s.ok
    /\ Bytes(t.fd.fe) = Bytes(s.fd.fe)

LEMMA StorageShows ==
    ASSUME NEW fds \in Descriptors, NEW n \in Name, NEW s, Holds(fds, n, s), NEW t,
           t = StorageChecked(s)
    PROVE  Lengthened(fds, n, s, t)
<1> DEFINE d == Now(s.w)
           gds == With(fds, n, s.fd)
           fe == s.fd.fe
           v == s.w
           fd == s.fd
           ok == s.ok
           c == CheckStorage(s.w, s.fd.fe)
           ge == c[2]
           w == c[1]
           e == Now(w)
           hd == [fd EXCEPT !.fe = ge]
<1>1. /\ s = [w |-> v, fd |-> fd, ok |-> ok] /\ History(v) /\ fd \in FileDesc /\ Chains(d, gds)
  BY DEF Holds
<1>2. t = [s EXCEPT !.w = w, !.fd.fe = ge]
  BY DEF StorageChecked
<1>3. PICK R : R = Recs(d, gds)
  OBVIOUS
<1>4. /\ d \in Disks /\ gds[n] = fd /\ fd # Closed /\ gds[n] # Closed
      /\ R = [p \in DOMAIN R |-> R[p]] /\ Shares(d, R)
      /\ n \in DOMAIN R /\ n # Missing /\ R[n] = fe /\ fe \in Records
      /\ fe \in FileEntry
  BY <1>3, HoldsOwner
<1>5. CASE fe.lastBytes # SECT_SIZE \/ d.freeBegin = End
  <2>1. c = << v, fe >>
    BY <1>5 DEF CheckStorage
  <2>2. w = v /\ ge = fe
    BY <2>1
  <2>3. [fd EXCEPT !.fe = fe] = fd
    BY <1>1 DEF FileDesc
  <2>4. t = s
    <3> HIDE DEF v, fd, ok, w, ge, fe
    <3>1. t = [w |-> v, fd |-> [fd EXCEPT !.fe = fe], ok |-> ok]
      BY <1>1, <1>2, <2>2
    <3> QED
      BY <1>1, <2>3, <3>1
  <2> QED
    BY <2>4, LeavesSelf DEF Lengthened
<1>6. CASE fe.lastBytes = SECT_SIZE /\ d.freeBegin # End
  <2> HIDE DEF c
  <2>1. /\ Moved(d, e, R, n, ge) /\ Grown(d, e, fe, ge)
        /\ \A i \in 0 .. fe.sctNum - 1 :
              FindIndex(e, ge.sctBegin, i) = FindIndex(d, fe.sctBegin, i)
    <3>1. History(s.w) /\ d = Now(s.w) /\ fe = R[n] /\ c = CheckStorage(s.w, fe)
      BY <1>1, <1>4 DEF c
    <3> HIDE DEF d, fe
    <3> QED
      BY <1>4, <1>6, <3>1, StorageGrows
  <2>2. ge.sctNum = fe.sctNum + 1 /\ Proper(ge) /\ fe.sctNum \in Nat
    <3>1. fe.sctNum \in Nat /\ ge.sctNum = fe.sctNum + 1
      BY <1>4, <2>1, EntryFields DEF Grown
    <3> HIDE DEF fe, ge
    <3>2. ge.sctNum # 0
      BY <3>1
    <3> QED
      BY <3>1, <3>2 DEF Proper
  <2>3. ge \in FileEntry
    <3>1. SameRecord(R[n], ge)
      BY <2>1 DEF Moved
    <3> QED
      BY <1>4, <3>1 DEF SameRecord
  <2>4. Filed(ge) /\ Filed(fe)
    <3>1. ge.sctBegin \in Sector /\ End \notin Sector
      BY <2>1, Numbers DEF Grown
    <3> QED
      BY <2>2, <2>3, <3>1, HoldsFiled DEF Filed
  <2>5. Bytes(ge) = Bytes(fe)
    <3>1. ge.lastBytes = 0 /\ ge.sctNum - 1 = fe.sctNum /\ SECT_SIZE \in Nat
      BY <2>1, <2>2, Sizes DEF Grown
    <3>2. (fe.sctNum - 1) * SECT_SIZE = fe.sctNum * SECT_SIZE - SECT_SIZE
          /\ fe.sctNum * SECT_SIZE \in Nat
      BY <2>2, <3>1
    <3>3. Bytes(ge) = fe.sctNum * SECT_SIZE
      BY <3>1, <3>2 DEF Bytes
    <3>4. Bytes(fe) = fe.sctNum * SECT_SIZE
      BY <1>6, <3>1, <3>2 DEF Bytes
    <3> QED
      BY <3>3, <3>4
  <2> HIDE DEF ge, w, e
  <2>6. /\ hd \in FileDesc /\ hd.fe = ge /\ hd.objIdx = fd.objIdx /\ hd.offset = fd.offset
        /\ hd.changed = fd.changed /\ hd.cache = fd.cache
    BY <1>1, <2>3 DEF FileDesc
  <2>7. t = [w |-> w, fd |-> hd, ok |-> ok]
    <3> HIDE DEF v, fd, ok, fe
    <3> QED
      BY <1>1, <1>2
  <2> HIDE DEF hd
  <2>8. \A m \in Name : FindInRoot(e, m) = FindInRoot(d, m)
    <3> DEFINE hds == With(gds, n, hd)
    <3>1. Directory(d) /\ e \in Disks /\ hds = With(gds, n, hd)
      BY <1>1, <2>1 DEF Chains, Moved
    <3> HIDE DEF gds, hds, d
    <3>2. SameDirectory(d, e)
      BY <1>1, <1>3, <1>4, <2>1, <2>2, <2>6, <3>1, FileMoved
    <3> QED
      BY <3>1, <3>2, DirectoryKept
  <2>9. Leaves(d, e, gds, {n})
    <3> HIDE DEF gds, d
    <3> QED
      BY <1>1, <1>3, <1>4, <2>1, <2>8, LeavesMoved
  <2>10. Leaves(d, e, fds, {n})
    <3>1. \A m \in Name \ {n} : gds[m] = fds[m]
      BY <1>1, Withs
    <3> HIDE DEF gds, d
    <3> QED
      BY <2>9, <3>1, LeavesWith
  <2>11. ASSUME NEW k \in 0 .. fe.sctNum - 1 PROVE View(e, ge, hd, k) = View(d, fe, fd, k)
    <3>1. e.sct = d.sct
      BY <2>1 DEF Moved
    <3>2. FindIndex(e, ge.sctBegin, k) = FindIndex(d, fe.sctBegin, k)
      BY <2>1
    <3>3. hd # Closed /\ fd # Closed
      BY <1>4, <2>6, OperationAssumption
    <3> QED
      BY <2>6, <3>1, <3>2, <3>3 DEF View
  <2>12. Content(e, ge, hd) = Content(d, fe, fd)
    <3>1. Bytes(fe) \in Nat
      BY <2>4, ContentIs
    <3> HIDE DEF fe, d, fd
    <3> QED
      BY <2>4, <2>5, <2>11, <3>1, ContentsAgree
  <2>13. GetFilePos(hd) = GetFilePos(fd)
    BY <2>6 DEF GetFilePos
  <2>14. t.w = w /\ t.fd = hd /\ t.ok = ok
    BY <2>7
  <2> QED
    BY <2>5, <2>6, <2>10, <2>12, <2>13, <2>14 DEF Shows, e, Lengthened
<1> QED
  BY <1>4, <1>5, <1>6

\* A sector of the file gets into the buffer.
Fetches(fds, n, s, idx, r) ==
    /\ Shows(r) = Shows(s) /\ Leaves(Now(s.w), Now(r.w), fds, {n})
    /\ Bytes(r.fd.fe) = Bytes(s.fd.fe)
    /\ idx < s.fd.fe.sctNum => GetFilePos(r.fd) = idx * SECT_SIZE
    /\ ~(idx < s.fd.fe.sctNum) => GetFilePos(r.fd) = GetFilePos(s.fd)

LEMMA ReadShows ==
    ASSUME NEW fds \in Descriptors, NEW n \in Name, NEW s, Holds(fds, n, s), Fresh(s),
           NEW idx \in Nat, NEW r, r = ReadToCache(s, idx)
    PROVE  Fetches(fds, n, s, idx, r)
<1> DEFINE fe == s.fd.fe
           si == FindIndex(Now(s.w), fe.sctBegin, idx)
           f == ToFlush(s)
<1>1. /\ s = [w |-> s.w, fd |-> s.fd, ok |-> s.ok] /\ s.ok \in BOOLEAN
  BY DEF Holds
<1>2. /\ Filed(fe) /\ Linked(Now(s.w), fe.sctBegin, fe.sctNum) /\ fe.sctNum \in Nat
      /\ Bytes(fe) \in Nat
  BY HoldsFiled DEF Linked
<1>3. CASE idx >= fe.sctNum
  <2>1. r = [s EXCEPT !.ok = FALSE]
    BY <1>3 DEF ReadToCache
  <2> DEFINE v == s.w
             fd == s.fd
             ok == s.ok
  <2>2. s = [w |-> v, fd |-> fd, ok |-> ok]
    BY <1>1
  <2> HIDE DEF v, fd, ok
  <2>3. r.w = v /\ r.fd = fd /\ r.ok = FALSE
    BY <2>1, <2>2
  <2>4. r.w = s.w /\ r.fd = s.fd /\ ~(idx < fe.sctNum)
    BY <1>2, <1>3, <2>3 DEF v, fd
  <2> QED
    BY <2>3, <2>4, LeavesSelf DEF Shows, Fetches
<1>4. CASE idx < fe.sctNum
  <2>1. si # End
    <3>1. idx \in 0 .. fe.sctNum - 1
      BY <1>2, <1>4
    <3>2. si \in Sector
      BY <1>2, <3>1 DEF Linked
    <3> QED
      BY <3>2, Numbers
  <2>2. r = [f EXCEPT !.fd.objIdx = idx, !.fd.offset = 0, !.fd.changed = FALSE,
                      !.fd.cache = BytesIn(Now(f.w).sct[si])]
    BY <1>2, <1>4, <2>1 DEF ReadToCache
  <2>3. Holds(fds, n, f) /\ Flushed(n, s, f)
    BY FlushKeeps
  <2>4. Shows(f) = Shows(s) /\ Leaves(Now(s.w), Now(f.w), fds, {n})
    BY FlushShows
  <2>5. /\ f = [w |-> f.w, fd |-> f.fd, ok |-> f.ok] /\ f.fd.fe = fe /\ f.ok = s.ok
        /\ ~f.fd.changed /\ f.fd \in FileDesc
    BY <2>3 DEF Holds, Flushed
  <2> DEFINE v == f.w
             fd == f.fd
             ok == f.ok
             cache == BytesIn(Now(f.w).sct[si])
             hd == [fd EXCEPT !.objIdx = idx, !.offset = 0, !.changed = FALSE, !.cache = cache]
  <2>6. f = [w |-> v, fd |-> fd, ok |-> ok] /\ fd \in FileDesc
    BY <2>5
  <2>7. r = [f EXCEPT !.fd.objIdx = idx, !.fd.offset = 0, !.fd.changed = FALSE, !.fd.cache = cache]
    BY <2>2
  <2> HIDE DEF cache, v, fd, ok, f
  <2>8. hd.fe = fd.fe /\ hd.objIdx = idx /\ hd.offset = 0 /\ hd.changed = FALSE
    BY <2>6 DEF FileDesc
  <2>9. r.w = v /\ r.fd = hd /\ r.ok = ok
    BY <2>6, <2>7
  <2>10. idx # End
    BY DEF End
  <2>11. GetFilePos(hd) = idx * SECT_SIZE
    <3>1. idx * SECT_SIZE \in Nat
      BY Sizes
    <3> QED
      BY <2>8, <2>10, <3>1 DEF GetFilePos
  <2> HIDE DEF hd
  <2>12. Content(Now(v), fe, hd) = Content(Now(v), fe, fd)
    <3>1. \A k : View(Now(v), fe, hd, k) = View(Now(v), fe, fd, k)
      BY <2>5, <2>8 DEF View, fd
    <3> HIDE DEF fe
    <3> QED
      BY <1>2, <3>1, ContentsAgree
  <2>13. Shows(r) = Shows(f)
    BY <2>5, <2>8, <2>9, <2>12 DEF Shows, v, fd
  <2>14. r.fd.fe = fe /\ r.w = f.w /\ r.ok = s.ok
    BY <2>5, <2>8, <2>9 DEF v, fd, ok
  <2> QED
    BY <1>1, <1>4, <2>4, <2>9, <2>11, <2>13, <2>14 DEF Fetches
<1> QED
  BY <1>2, <1>3, <1>4

\* The position stays when the next sector is fetched for it.
LEMMA PreparedShows ==
    ASSUME NEW fds \in Descriptors, NEW n \in Name, NEW s, Holds(fds, n, s), Fresh(s),
           NEW p, p = Prepared(s)
    PROVE  /\ Shows(p) = Shows(s) /\ Leaves(Now(s.w), Now(p.w), fds, {n})
           /\ Bytes(p.fd.fe) = Bytes(s.fd.fe) /\ GetFilePos(p.fd) = GetFilePos(s.fd)
<1>1. s.fd \in FileDesc /\ Started(s.fd)
  BY DEF Holds
<1>2. CASE s.fd.offset = SECT_SIZE
  <2> DEFINE t == StorageChecked(s)
             idx == s.fd.objIdx + 1
  <2>1. p = ReadToCache(t, idx)
    BY <1>2 DEF Prepared, PrepareCache, StorageChecked
  <2>2. s.fd.objIdx \in Nat \union {-1} /\ SECT_SIZE \in Nat
    BY <1>1, Numbers, Sizes DEF FileDesc, End
  <2>3. idx \in Nat /\ t = StorageChecked(s)
    BY <2>2
  <2>4. idx * SECT_SIZE = GetFilePos(s.fd)
    <3>1. CASE s.fd.objIdx = End
      BY <2>2, <3>1 DEF GetFilePos, End
    <3>2. CASE s.fd.objIdx # End
      <4>1. (s.fd.objIdx + 1) * SECT_SIZE = s.fd.objIdx * SECT_SIZE + SECT_SIZE
        BY <2>2, <3>2 DEF End
      <4> QED
        BY <1>2, <3>2, <4>1 DEF GetFilePos
    <3> QED
      BY <3>1, <3>2
  <2> HIDE DEF t, idx
  <2>5. Holds(fds, n, t) /\ Fresh(t)
    BY <2>3, StorageKeeps
  <2>6. /\ Shows(t) = Shows(s) /\ Leaves(Now(s.w), Now(t.w), fds, {n})
        /\ GetFilePos(t.fd) = GetFilePos(s.fd) /\ Bytes(t.fd.fe) = Bytes(s.fd.fe)
    <3>1. Lengthened(fds, n, s, t)
      BY <2>3, StorageShows
    <3> QED
      BY <3>1 DEF Lengthened
  <2>7. Fetches(fds, n, t, idx, p)
    BY <2>1, <2>3, <2>5, ReadShows
  <2> QED
    BY <2>4, <2>6, <2>7, LeavesTwice DEF Fetches
<1>3. CASE s.fd.offset # SECT_SIZE
  BY <1>3, LeavesSelf DEF Prepared
<1> QED
  BY <1>2, <1>3

LEMMA SplitOf ==
    ASSUME NEW i \in Nat, NEW j \in Offset, NEW k, k = i * SECT_SIZE + j
    PROVE  k \in Nat /\ k \div SECT_SIZE = i /\ k % SECT_SIZE = j
<1> DEFINE c == SECT_SIZE
           q == k \div c
           r == k % c
<1>1. c \in Nat \ {0} /\ j \in 0 .. c - 1
  BY Sizes DEF Offset
<1>2. k \in Nat /\ k = c * i + j
  BY <1>1
<1>3. k = c * q + r /\ q \in Nat /\ r \in 0 .. c - 1
  BY <1>1, <1>2
<1> HIDE DEF c, q, r
<1>4. c * (i - q) = r - j
  BY <1>1, <1>2, <1>3
<1>5. i - q < 1
  <2> SUFFICES ASSUME i - q >= 1 PROVE FALSE
    BY <1>3
  <2>1. c * (i - q) >= c
    BY <1>1, <1>3
  <2> QED
    BY <1>1, <1>3, <1>4, <2>1
<1>6. i - q > -1
  <2> SUFFICES ASSUME i - q <= -1 PROVE FALSE
    BY <1>3
  <2>1. c * (i - q) <= - c
    BY <1>1, <1>3
  <2> QED
    BY <1>1, <1>3, <1>4, <2>1
<1>7. i = q
  BY <1>3, <1>5, <1>6
<1>8. j = r
  BY <1>1, <1>3, <1>4, <1>7
<1> QED
  BY <1>2, <1>7, <1>8 DEF c, q, r

LEMMA TimesMore ==
    ASSUME NEW a \in Nat, NEW x \in Nat, x >= 1
    PROVE  a * x >= a
<1>1. x - 1 \in Nat
  OBVIOUS
<1>2. a * (x - 1) \in Nat /\ a * (x - 1) = a * x - a
  BY <1>1
<1> QED
  BY <1>2

LEMMA ShowsTyped ==
    ASSUME NEW fds \in Descriptors, NEW n \in Name, NEW s, Holds(fds, n, s)
    PROVE  /\ Shows(s) \in Seq(Byte) /\ Len(Shows(s)) = Bytes(s.fd.fe)
           /\ Len(Shows(s)) \in Nat /\ GetFileLen(s.fd) = Len(Shows(s))
           /\ GetFilePos(s.fd) \in Nat
  BY HoldsFiled, ContentTyped DEF Shows

\* The value b is written from the position q to the position p: of the bytes c
\* become the bytes e.
Wrote(c, q, e, p, b) ==
    /\ Len(e) = IF p > Len(c) THEN p ELSE Len(c)
    /\ \A i \in 1 .. Len(e) : e[i] = IF q < i /\ i <= p THEN b ELSE c[i]

LEMMA WroteNothing ==
    ASSUME NEW c \in Seq(Byte), NEW q \in Nat, q <= Len(c), NEW b
    PROVE  Wrote(c, q, c, q, b)
  BY DEF Wrote

LEMMA WroteMore ==
    ASSUME NEW c \in Seq(Byte), NEW e \in Seq(Byte), NEW f \in Seq(Byte), NEW q \in Nat,
           NEW p \in Nat, NEW b, q <= p, p <= Len(e), q <= Len(c),
           Wrote(c, q, e, p, b), Wrote(e, p, f, p + 1, b)
    PROVE  Wrote(c, q, f, p + 1, b)
<1>1. Len(c) \in Nat /\ Len(e) \in Nat /\ Len(f) \in Nat
  OBVIOUS
<1>2. /\ Len(e) = IF p > Len(c) THEN p ELSE Len(c)
      /\ Len(f) = IF p + 1 > Len(e) THEN p + 1 ELSE Len(e)
  BY DEF Wrote
<1>3. Len(f) = IF p + 1 > Len(c) THEN p + 1 ELSE Len(c)
  BY <1>1, <1>2
<1>4. ASSUME NEW i \in 1 .. Len(f) PROVE f[i] = IF q < i /\ i <= p + 1 THEN b ELSE c[i]
  <2>1. f[i] = IF p < i /\ i <= p + 1 THEN b ELSE e[i]
    BY DEF Wrote
  <2>2. i <= Len(e) => e[i] = IF q < i /\ i <= p THEN b ELSE c[i]
    <3>1. i <= Len(e) => i \in 1 .. Len(e)
      BY <1>1
    <3> QED
      BY <3>1 DEF Wrote
  <2>3. i > Len(e) => p < i /\ i <= p + 1
    BY <1>1, <1>2
  <2> QED
    BY <1>1, <2>1, <2>2, <2>3
<1> QED
  BY <1>3, <1>4 DEF Wrote

\* A byte gets into the buffer.
LEMMA CopyShows ==
    ASSUME NEW fds \in Descriptors, NEW n \in Name, NEW p, Holds(fds, n, p), Fresh(p),
           Ready(p.fd), NEW b \in Byte, NEW r, r = [p EXCEPT !.fd = CopyToCache(@, b)],
           GetFilePos(p.fd) <= Len(Shows(p))
    PROVE  /\ Now(r.w) = Now(p.w) /\ GetFilePos(r.fd) = GetFilePos(p.fd) + 1
           /\ GetFilePos(p.fd) + 1 <= Len(Shows(r))
           /\ Wrote(Shows(p), GetFilePos(p.fd), Shows(r), GetFilePos(p.fd) + 1, b)
<1> DEFINE d == Now(p.w)
           v == p.w
           fd == p.fd
           ok == p.ok
           fe == p.fd.fe
           o == p.fd.objIdx
           q == p.fd.offset
           k == p.fd.fe.sctNum
           S == SECT_SIZE
           hd == CopyToCache(fd, b)
           ge == hd.fe
           pos == GetFilePos(p.fd)
           last == IF o = k - 1 /\ fe.lastBytes < q + 1 THEN q + 1 ELSE fe.lastBytes
<1>1. p = [w |-> v, fd |-> fd, ok |-> ok] /\ fd \in FileDesc
  BY DEF Holds
<1>2. /\ Filed(fe) /\ Linked(d, fe.sctBegin, fe.sctNum) /\ d \in Disks /\ fd # Closed
      /\ Bytes(fe) \in Nat /\ pos \in Nat /\ pos <= Len(Shows(p))
  BY HoldsFiled
<1>3. /\ q \in Offset /\ q \in Nat /\ q < S /\ o # End /\ o \in Nat /\ o < k /\ k \in Nat
      /\ S \in Nat \ {0} /\ fe.lastBytes \in 0 .. S /\ fd.cache \in [Offset -> Byte]
  <2>1. q \in Offset /\ o # End
    BY DEF Ready
  <2>2. o \in Nat /\ fd.cache \in [Offset -> Byte]
    BY <1>1, <2>1, Numbers DEF FileDesc
  <2>3. o < k
    BY <2>1 DEF Fresh, CacheOK
  <2>4. k \in Nat /\ fe.lastBytes \in 0 .. S
    BY <1>2, EntryFields DEF Filed
  <2> QED
    BY <2>1, <2>2, <2>3, <2>4, Sizes DEF Offset
<1>4. /\ hd = [fd EXCEPT !.cache[q] = b, !.offset = q + 1, !.changed = TRUE,
                          !.fe.lastBytes = last]
  BY <1>1 DEF CopyToCache, FileDesc
<1> HIDE DEF hd
<1>5. /\ hd.cache = [fd.cache EXCEPT ![q] = b] /\ hd.offset = q + 1 /\ hd.changed = TRUE
      /\ hd.objIdx = o /\ ge = [fe EXCEPT !.lastBytes = last]
  BY <1>1, <1>4 DEF FileDesc
<1>6. last \in 0 .. S /\ fe \in FileEntry
  BY <1>2, <1>3 DEF Filed
<1> HIDE DEF last
<1>7. /\ ge \in FileEntry /\ ge.lastBytes = last /\ ge.sctNum = k /\ ge.sctBegin = fe.sctBegin
  BY <1>5, <1>6 DEF FileEntry
<1>8. r = [w |-> v, fd |-> hd, ok |-> ok]
  <2>1. r = [p EXCEPT !.fd = hd]
    BY DEF hd
  <2> HIDE DEF v, fd, ok
  <2> QED
    BY <1>1, <2>1
<1>9. r.w = v /\ r.fd = hd
  BY <1>8
<1>10. Holds(fds, n, r)
  BY CopyKeeps
<1>11. /\ Filed(ge) /\ hd # Closed /\ Bytes(ge) \in Nat
  BY <1>9, <1>10, HoldsFiled
<1>12. pos = o * S + q /\ GetFilePos(hd) = pos + 1 /\ o * S \in Nat
  <2>1. o * S \in Nat
    BY <1>3
  <2> QED
    BY <1>3, <1>5, <2>1 DEF GetFilePos
<1>13. Bytes(ge) = IF pos + 1 > Bytes(fe) THEN pos + 1 ELSE Bytes(fe)
  <2>1. /\ Bytes(ge) = (k - 1) * S + last /\ Bytes(fe) = (k - 1) * S + fe.lastBytes
    BY <1>7 DEF Bytes
  <2>2. CASE o = k - 1
    <3>1. pos + 1 = (k - 1) * S + (q + 1)
      <4> HIDE DEF k, o, q, pos, S
      <4>1. o * S = (k - 1) * S
        BY <2>2
      <4> HIDE DEF last
      <4> QED
        BY <1>3, <1>12, <4>1
    <3>2. last = IF fe.lastBytes < q + 1 THEN q + 1 ELSE fe.lastBytes
      BY <2>2 DEF last
    <3>3. (k - 1) * S \in Nat
      BY <1>12, <2>2
    <3> HIDE DEF k, pos, q
    <3> QED
      BY <1>3, <2>1, <3>1, <3>2, <3>3
  <2>3. CASE o # k - 1
    <3>1. last = fe.lastBytes
      BY <2>3 DEF last
    <3>2. k - 1 - o \in Nat /\ k - 1 - o >= 1
      <4> HIDE DEF k, o
      <4>1. k \in Nat /\ o \in Nat /\ o < k /\ o # k - 1
        BY <1>3, <2>3
      <4> QED
        BY <4>1
    <3>3. S * (k - 1 - o) >= S
      BY <1>3, <3>2, TimesMore
    <3>4. k - 1 \in Nat
      BY <1>3
    <3>5. S * (k - 1 - o) = S * (k - 1) - S * o
      BY <1>3, <3>4, Times
    <3>6. (k - 1) * S = S * (k - 1) /\ S * (k - 1) \in Nat /\ S * o = o * S
      BY <1>3, <3>4
    <3> DEFINE A == S * (k - 1)
               B == S * o
               C == S * (k - 1 - o)
    <3>7. /\ A \in Nat /\ C >= S /\ C = A - B /\ pos = B + q /\ B \in Nat
          /\ Bytes(fe) = A + fe.lastBytes
      BY <1>12, <2>1, <3>3, <3>5, <3>6
    <3> HIDE DEF A, B, C
    <3>8. pos + 1 <= Bytes(fe)
      <4> HIDE DEF k, pos, q, o, fe, S
      <4> QED
        BY <1>3, <3>7
    <3> QED
      BY <1>2, <2>1, <3>1, <3>8
  <2> QED
    BY <2>2, <2>3
<1>14. /\ Len(Shows(p)) = Bytes(fe) /\ Len(Shows(r)) = Bytes(ge)
       /\ Shows(p) = Content(d, fe, fd) /\ Shows(r) = Content(d, ge, hd)
  BY <1>9, <1>10, ShowsTyped DEF Shows
<1>15. /\ Shows(r) = [i \in 1 .. Bytes(ge) |-> ByteAt(d, ge, hd, i)]
       /\ Shows(p) = [i \in 1 .. Bytes(fe) |-> ByteAt(d, fe, fd, i)]
  <2> HIDE DEF d, fd, ge, hd, fe
  <2>1. Content(d, ge, hd) = [i \in 1 .. Bytes(ge) |-> ByteAt(d, ge, hd, i)]
    BY <1>11, ContentIs
  <2>2. Content(d, fe, fd) = [i \in 1 .. Bytes(fe) |-> ByteAt(d, fe, fd, i)]
    BY <1>2, ContentIs
  <2>3. Shows(r) = Content(d, ge, hd) /\ Shows(p) = Content(d, fe, fd)
    BY <1>14
  <2> QED
    BY <2>1, <2>2, <2>3
<1>16. ASSUME NEW j \in 0 .. k - 1
       PROVE  View(d, ge, hd, j) = IF j = o THEN [View(d, fe, fd, j) EXCEPT ![q] = b]
                                             ELSE View(d, fe, fd, j)
  <2>1. CASE j # o
    BY <1>5, <1>7, <2>1 DEF View
  <2>2. CASE j = o
    <3>1. View(d, ge, hd, j) = hd.cache
      BY <1>5, <1>11, <2>2 DEF View
    <3>2. View(d, fe, fd, j) = fd.cache
      BY <1>2, <1>3, <2>2 DEF View, Fresh, CacheOK
    <3> QED
      BY <1>5, <2>2, <3>1, <3>2
  <2> QED
    BY <2>1, <2>2
<1>17. \A j \in 0 .. k - 1 : View(d, fe, fd, j) \in [Offset -> Byte]
  BY <1>1, <1>2, SectorsTyped
<1> HIDE DEF d, fd, ge, hd
<1>18. ASSUME NEW i \in 1 .. Bytes(ge)
       PROVE  Shows(r)[i] = IF pos < i /\ i <= pos + 1 THEN b ELSE Shows(p)[i]
  <2> DEFINE j == (i - 1) \div S
             a == (i - 1) % S
  <2>1. j \in 0 .. k - 1 /\ a \in Offset
    BY <1>7, <1>11, InSector
  <2>2. Shows(r)[i] = View(d, ge, hd, j)[a]
    <3>1. Shows(r)[i] = ByteAt(d, ge, hd, i)
      BY <1>15
    <3> QED
      BY <3>1 DEF ByteAt
  <2>3. i \in 1 .. Bytes(fe) => Shows(p)[i] = View(d, fe, fd, j)[a]
    <3> SUFFICES ASSUME i \in 1 .. Bytes(fe) PROVE Shows(p)[i] = View(d, fe, fd, j)[a]
      OBVIOUS
    <3>1. Shows(p)[i] = ByteAt(d, fe, fd, i)
      BY <1>15
    <3> QED
      BY <3>1 DEF ByteAt
  <2>4. i - 1 = pos <=> j = o /\ a = q
    <3>1. i - 1 = pos => j = o /\ a = q
      <4>1. pos \div S = o /\ pos % S = q
        BY <1>3, <1>12, SplitOf
      <4> HIDE DEF o, q, pos
      <4> QED
        BY <4>1
    <3>2. i - 1 = S * j + a
      <4>1. i - 1 \in Nat
        BY <1>11
      <4> QED
        BY <4>1, Divided
    <3>3. j = o /\ a = q => i - 1 = pos
      <4> HIDE DEF j, a
      <4> QED
        BY <1>3, <1>12, <3>2
    <3> QED
      BY <3>1, <3>3
  <2> HIDE DEF j, a, pos, o, q
  <2>5. (pos < i /\ i <= pos + 1) <=> i - 1 = pos
    BY <1>2, <1>11
  <2>6. i - 1 # pos => i \in 1 .. Bytes(fe)
    <3> HIDE DEF fe
    <3> QED
      BY <1>2, <1>11, <1>13, <1>14
  <2>7. CASE i - 1 = pos
    <3>1. View(d, ge, hd, j) = [View(d, fe, fd, j) EXCEPT ![q] = b]
      BY <1>16, <2>1, <2>4, <2>7
    <3>2. View(d, fe, fd, j) \in [Offset -> Byte]
      BY <1>17, <2>1
    <3> QED
      BY <2>1, <2>2, <2>4, <2>5, <2>7, <3>1, <3>2
  <2>8. CASE i - 1 # pos
    <3>1. View(d, ge, hd, j)[a] = View(d, fe, fd, j)[a]
      BY <1>16, <1>17, <2>1, <2>4, <2>8
    <3> QED
      BY <2>2, <2>3, <2>5, <2>6, <2>8, <3>1
  <2> QED
    BY <2>7, <2>8
<1>19. pos + 1 <= Bytes(ge)
  BY <1>2, <1>13
<1>20. Wrote(Shows(p), pos, Shows(r), pos + 1, b)
  BY <1>13, <1>14, <1>18 DEF Wrote
<1> QED
  BY <1>9, <1>12, <1>14, <1>19, <1>20 DEF d, v

\* The session t goes on from s: it has written b from there to its position.
Writes(fds, n, s, t, b) ==
    /\ Leaves(Now(s.w), Now(t.w), fds, {n})
    /\ GetFilePos(s.fd) <= GetFilePos(t.fd) /\ GetFilePos(t.fd) <= Len(Shows(t))
    /\ Wrote(Shows(s), GetFilePos(s.fd), Shows(t), GetFilePos(t.fd), b)

LEMMA WritesNothing ==
    ASSUME NEW fds \in Descriptors, NEW n \in Name, NEW s, Holds(fds, n, s),
           GetFilePos(s.fd) <= Len(Shows(s)), NEW b
    PROVE  Writes(fds, n, s, s, b)
<1>1. /\ Shows(s) \in Seq(Byte) /\ GetFilePos(s.fd) \in Nat
  BY ShowsTyped
<1>2. Wrote(Shows(s), GetFilePos(s.fd), Shows(s), GetFilePos(s.fd), b)
  BY <1>1, WroteNothing
<1> QED
  BY <1>1, <1>2, LeavesSelf DEF Writes

LEMMA WriteByteShows ==
    ASSUME NEW fds \in Descriptors, NEW n \in Name, NEW s, Holds(fds, n, s),
           GetFilePos(s.fd) <= Len(Shows(s)), NEW b \in Byte,
           NEW t, Holds(fds, n, t), Fresh(t), Writes(fds, n, s, t, b), NEW r, r = WriteByte(t, b)
    PROVE  Writes(fds, n, s, r, b)
<1> DEFINE p == Prepared(t)
           q == GetFilePos(s.fd)
           i == GetFilePos(t.fd)
<1>1. Holds(fds, n, p) /\ Fresh(p) /\ (p.ok => Ready(p.fd))
  BY PreparedKeeps
<1>2. /\ Shows(p) = Shows(t) /\ Leaves(Now(t.w), Now(p.w), fds, {n})
      /\ GetFilePos(p.fd) = i
  BY PreparedShows
<1>3. p = Prepared(t)
  OBVIOUS
<1> HIDE DEF p
<1>4. /\ Leaves(Now(s.w), Now(t.w), fds, {n}) /\ q <= i /\ i <= Len(Shows(t))
      /\ Wrote(Shows(s), q, Shows(t), i, b)
  BY DEF Writes
<1>5. Leaves(Now(s.w), Now(p.w), fds, {n})
  BY <1>2, <1>4, LeavesTwice
<1>6. CASE ~t.ok
  BY <1>6 DEF WriteByte
<1>7. CASE t.ok /\ ~p.ok
  <2>1. r = p
    BY <1>3, <1>7 DEF WriteByte
  <2> QED
    BY <1>2, <1>4, <1>5, <2>1 DEF Writes
<1>8. CASE t.ok /\ p.ok
  <2>1. r = [p EXCEPT !.fd = CopyToCache(@, b)]
    BY <1>3, <1>8 DEF WriteByte
  <2>2. GetFilePos(p.fd) <= Len(Shows(p)) /\ Ready(p.fd)
    BY <1>1, <1>2, <1>4, <1>8
  <2>3. Holds(fds, n, r)
    BY <1>1, <2>1, <2>2, CopyKeeps
  <2>4. /\ Now(r.w) = Now(p.w) /\ GetFilePos(r.fd) = GetFilePos(p.fd) + 1
        /\ GetFilePos(p.fd) + 1 <= Len(Shows(r))
        /\ Wrote(Shows(p), GetFilePos(p.fd), Shows(r), GetFilePos(p.fd) + 1, b)
    BY <1>1, <2>1, <2>2, CopyShows
  <2>5. Wrote(Shows(t), i, Shows(r), i + 1, b)
    BY <1>2, <2>4
  <2>6. /\ Shows(s) \in Seq(Byte) /\ Shows(t) \in Seq(Byte) /\ Shows(r) \in Seq(Byte)
        /\ q \in Nat /\ i \in Nat
    BY <2>3, ShowsTyped
  <2>7. q <= Len(Shows(s)) /\ q <= i /\ i <= Len(Shows(t))
    BY <1>4
  <2> HIDE DEF q, i
  <2>8. Wrote(Shows(s), q, Shows(r), i + 1, b)
    BY <1>4, <2>5, <2>6, <2>7, WroteMore
  <2>9. GetFilePos(r.fd) = i + 1 /\ i + 1 <= Len(Shows(r)) /\ q <= i + 1
    BY <1>2, <2>4, <2>6, <2>7
  <2> QED
    BY <1>5, <2>4, <2>8, <2>9 DEF Writes, q
<1> QED
  BY <1>6, <1>7, <1>8

LEMMA ToWriteShows ==
    ASSUME NEW fds \in Descriptors, NEW n \in Name, NEW s, Holds(fds, n, s), Fresh(s),
           GetFilePos(s.fd) <= Len(Shows(s)), NEW b \in Byte, NEW l \in Nat,
           NEW r, r = ToWrite(s, [i \in 1 .. l |-> b])
    PROVE  Writes(fds, n, s, r, b)
<1> DEFINE data == [i \in 1 .. l |-> b]
           at == CHOOSE f : WriteLoop(s, data, l, f)
<1>1. Len(data) = l /\ \A i \in 1 .. l : data[i] = b
  OBVIOUS
<1>2. WriteLoop(s, data, l, at)
  BY WriteLoopExists
<1>3. r = at[l]
  BY <1>1 DEF ToWrite, WriteLoop
<1> HIDE DEF at, data
<1> DEFINE Fine(t) == Holds(fds, n, t) /\ Fresh(t) /\ Writes(fds, n, s, t, b)
           S == {i \in Nat : i <= l /\ ~ Fine(at[i])}
<1>4. S = {}
  <2> SUFFICES ASSUME S # {} PROVE FALSE
    OBVIOUS
  <2>1. PICK k \in S : \A j \in S : k <= j
    <3>1. S \subseteq Nat
      OBVIOUS
    <3> HIDE DEF S
    <3> QED
      BY <3>1, Least
  <2>2. k # 0
    <3> SUFFICES ASSUME k = 0 PROVE FALSE
      OBVIOUS
    <3>1. at[0] = s
      BY <1>2 DEF WriteLoop
    <3>2. Fine(s)
      BY WritesNothing
    <3> QED
      BY <2>1, <3>1, <3>2
  <2>3. k - 1 \in Nat /\ k - 1 \notin S /\ k - 1 <= l /\ k \in 1 .. l
    BY <2>1, <2>2
  <2>4. Fine(at[k - 1])
    BY <2>3
  <2>5. at[k] = WriteByte(at[k - 1], b)
    BY <1>1, <1>2, <2>2, <2>3 DEF WriteLoop
  <2>6. Holds(fds, n, at[k]) /\ Fresh(at[k])
    BY <2>4, <2>5, WriteByteKeeps
  <2>7. Writes(fds, n, s, at[k], b)
    BY <2>4, <2>5, WriteByteShows
  <2> QED
    BY <2>1, <2>6, <2>7
<1> QED
  BY <1>3, <1>4

\* Reading changes nothing but the position.
Reads(fds, n, s, t, i) ==
    /\ Leaves(Now(s.w), Now(t.w), fds, {n}) /\ Shows(t) = Shows(s)
    /\ GetFilePos(t.fd) <= GetFilePos(s.fd) + i

LEMMA ReadByteShows ==
    ASSUME NEW fds \in Descriptors, NEW n \in Name, NEW s, Holds(fds, n, s), NEW i \in Nat,
           NEW t, Holds(fds, n, t), Fresh(t), Reads(fds, n, s, t, i), NEW r, r = ReadByte(t)
    PROVE  Reads(fds, n, s, r, i + 1)
<1> DEFINE p == Prepared(t)
<1>1. Holds(fds, n, p) /\ Fresh(p) /\ (p.ok => Ready(p.fd))
  BY PreparedKeeps
<1>2. /\ Shows(p) = Shows(t) /\ Leaves(Now(t.w), Now(p.w), fds, {n})
      /\ GetFilePos(p.fd) = GetFilePos(t.fd)
  BY PreparedShows
<1>3. p = Prepared(t)
  OBVIOUS
<1> HIDE DEF p
<1>4. /\ Leaves(Now(s.w), Now(t.w), fds, {n}) /\ Shows(t) = Shows(s)
      /\ GetFilePos(t.fd) <= GetFilePos(s.fd) + i
  BY DEF Reads
<1>5. Leaves(Now(s.w), Now(p.w), fds, {n})
  BY <1>2, <1>4, LeavesTwice
<1>6. GetFilePos(s.fd) \in Nat /\ GetFilePos(t.fd) \in Nat
  BY ShowsTyped
<1>7. /\ GetFilePos(t.fd) + 1 <= GetFilePos(s.fd) + (i + 1)
      /\ GetFilePos(t.fd) <= GetFilePos(s.fd) + (i + 1)
  BY <1>4, <1>6
<1>8. CASE ~t.ok
  BY <1>4, <1>7, <1>8 DEF ReadByte, Reads
<1>9. CASE t.ok /\ ~p.ok
  <2>1. r = p
    BY <1>3, <1>9 DEF ReadByte
  <2> QED
    BY <1>2, <1>4, <1>5, <1>7, <2>1 DEF Reads
<1>10. CASE t.ok /\ p.ok
  <2> DEFINE v == p.w
             fd == p.fd
             ok == p.ok
             hd == [fd EXCEPT !.offset = @ + 1]
  <2>1. p = [w |-> v, fd |-> fd, ok |-> ok] /\ fd \in FileDesc
    BY <1>1 DEF Holds
  <2>2. r = [p EXCEPT !.fd.offset = @ + 1]
    BY <1>3, <1>10 DEF ReadByte
  <2>3. Ready(fd) /\ fd # Closed
    BY <1>1, <1>10, <2>1, OperationAssumption
  <2> HIDE DEF v, fd, ok
  <2>4. /\ hd.fe = fd.fe /\ hd.objIdx = fd.objIdx /\ hd.offset = fd.offset + 1
        /\ hd.changed = fd.changed /\ hd.cache = fd.cache
    BY <2>1 DEF FileDesc
  <2>5. r.w = v /\ r.fd = hd
    BY <2>1, <2>2
  <2> HIDE DEF hd
  <2>6. GetFilePos(hd) = GetFilePos(fd) + 1
    <3>1. fd.objIdx # End /\ fd.offset \in Nat /\ fd.objIdx \in Nat /\ SECT_SIZE \in Nat
      <4>1. fd.objIdx # End /\ fd.objIdx \in Sector \union {End} /\ fd.offset \in Offset
        BY <2>1, <2>3 DEF Ready, FileDesc
      <4>2. fd.objIdx \in Nat /\ SECT_SIZE \in Nat
        BY <4>1, Numbers, Sizes
      <4> QED
        BY <4>1, <4>2 DEF Offset
    <3>2. fd.objIdx * SECT_SIZE \in Nat
      BY <3>1
    <3> QED
      BY <2>4, <3>1, <3>2 DEF GetFilePos
  <2>7. Content(Now(v), fd.fe, hd) = Content(Now(v), fd.fe, fd)
    <3> DEFINE fe == fd.fe
               d == Now(v)
    <3>1. \A k : View(d, fe, hd, k) = View(d, fe, fd, k)
      <4>1. hd # Closed => hd.changed = fd.changed /\ hd.objIdx = fd.objIdx /\ hd.cache = fd.cache
        BY <2>4
      <4>2. hd # Closed
        <5>1. hd \in FileDesc
          <6>1. fd.offset + 1 \in 0 .. SECT_SIZE
            BY <2>3, Sizes DEF Ready, Offset
          <6> QED
            BY <2>1, <6>1 DEF hd, FileDesc
        <5> QED
          BY <5>1, OperationAssumption
      <4> QED
        BY <2>3, <2>4, <4>2 DEF View
    <3>2. Filed(fe) /\ Bytes(fe) \in Nat
      BY <1>1, HoldsFiled DEF fd
    <3> HIDE DEF fe, d
    <3> QED
      BY <3>1, <3>2, ContentsAgree DEF fe, d
  <2>8. Shows(r) = Shows(p) /\ Now(r.w) = Now(p.w) /\ p.fd = fd
    BY <2>1, <2>4, <2>5, <2>7 DEF Shows
  <2> QED
    BY <1>2, <1>4, <1>5, <1>7, <2>5, <2>6, <2>8 DEF Reads
<1> QED
  BY <1>8, <1>9, <1>10

\* The session r goes on from s: the file is the same, its position is in the file.
Looks(fds, n, s, r) ==
    /\ Leaves(Now(s.w), Now(r.w), fds, {n}) /\ Shows(r) = Shows(s)
    /\ GetFilePos(r.fd) <= Len(Shows(r))

LEMMA ToReadShows ==
    ASSUME NEW fds \in Descriptors, NEW n \in Name, NEW s, Holds(fds, n, s), Fresh(s),
           GetFilePos(s.fd) <= Len(Shows(s)), NEW len \in Nat, NEW r, r = ToRead(s, len)
    PROVE  Looks(fds, n, s, r)
<1> DEFINE left == GetFileLen(s.fd) - GetFilePos(s.fd)
           l == IF left < 0 \/ len < left THEN len ELSE left
           at == CHOOSE f : ReadLoop(s, l, f)
<1>1. /\ GetFilePos(s.fd) \in Nat /\ GetFileLen(s.fd) = Len(Shows(s)) /\ Len(Shows(s)) \in Nat
  BY ShowsTyped
<1>2. l \in Nat /\ GetFilePos(s.fd) + l <= Len(Shows(s))
  BY <1>1
<1>3. ReadLoop(s, l, at)
  BY <1>2, ReadLoopExists
<1>4. r = at[l]
  BY DEF ToRead, ReadLoop
<1> HIDE DEF at, l
<1> DEFINE Fine(i) == Holds(fds, n, at[i]) /\ Fresh(at[i]) /\ Reads(fds, n, s, at[i], i)
           S == {i \in Nat : i <= l /\ ~ Fine(i)}
<1>5. S = {}
  <2> SUFFICES ASSUME S # {} PROVE FALSE
    OBVIOUS
  <2>1. PICK k \in S : \A j \in S : k <= j
    <3>1. S \subseteq Nat
      OBVIOUS
    <3> HIDE DEF S
    <3> QED
      BY <3>1, Least
  <2>2. k # 0
    <3> SUFFICES ASSUME k = 0 PROVE FALSE
      OBVIOUS
    <3>1. at[0] = s
      BY <1>2, <1>3 DEF ReadLoop
    <3>2. Reads(fds, n, s, s, 0)
      BY <1>1, LeavesSelf DEF Reads
    <3>3. Fine(0)
      BY <3>1, <3>2
    <3> QED
      BY <2>1, <3>3
  <2>3. k - 1 \in Nat /\ k - 1 \notin S /\ k - 1 <= l /\ k \in 1 .. l /\ (k - 1) + 1 = k
    BY <1>2, <2>1, <2>2
  <2>4. Fine(k - 1)
    BY <2>3
  <2>5. at[k] = ReadByte(at[k - 1])
    BY <1>2, <1>3, <2>2, <2>3 DEF ReadLoop
  <2>6. Holds(fds, n, at[k]) /\ Fresh(at[k])
    BY <2>4, <2>5, ReadByteKeeps
  <2>7. Reads(fds, n, s, at[k], (k - 1) + 1)
    <3>1. /\ Holds(fds, n, at[k - 1]) /\ Fresh(at[k - 1])
          /\ Reads(fds, n, s, at[k - 1], k - 1) /\ k - 1 \in Nat
      BY <2>3, <2>4
    <3> QED
      BY <2>5, <3>1, ReadByteShows
  <2> QED
    BY <2>1, <2>3, <2>6, <2>7
<1>6. Fine(l)
  BY <1>2, <1>5
<1>7. GetFilePos(r.fd) \in Nat
  BY <1>4, <1>6, ShowsTyped
<1> QED
  BY <1>1, <1>2, <1>4, <1>6, <1>7 DEF Reads, Looks

Nearest(pos, len) == IF pos < len THEN pos ELSE len

\* The file is the same; the position is that one, or stays because there is no
\* sector for the end of the file.
Locates(fds, n, s, r, to) ==
    /\ Leaves(Now(s.w), Now(r.w), fds, {n}) /\ Shows(r) = Shows(s)
    /\ \/ GetFilePos(r.fd) = to
       \/ /\ GetFilePos(r.fd) = GetFilePos(s.fd)
          /\ to = Len(Shows(s)) /\ to % SECT_SIZE = 0

LEMMA LocateShows ==
    ASSUME NEW fds \in Descriptors, NEW n \in Name, NEW s, Holds(fds, n, s),
           Fresh(s) \/ s.fd.objIdx >= s.fd.fe.sctNum,
           NEW pos \in Nat, NEW r, r = ToLocate(s, pos), NEW to, to = Nearest(pos, Len(Shows(s)))
    PROVE  Locates(fds, n, s, r, to)
<1> DEFINE len == Len(Shows(s))
<1>. to = IF pos < len THEN pos ELSE len
  BY DEF Nearest
<1> DEFINE d == Now(s.w)
           fe == s.fd.fe
           idx == to \div SECT_SIZE
           off == to % SECT_SIZE
           si  == FindIndex(d, fe.sctBegin, idx)
           f   == ToFlush(s)
           cache == BytesIn(Now(f.w).sct[si])
<1>1. len = Bytes(fe) /\ len \in Nat /\ len = GetFileLen(s.fd)
  BY ShowsTyped
<1>2. /\ to \in Nat /\ idx \in Nat /\ off \in Offset /\ to = SECT_SIZE * idx + off
  <2>1. to \in Nat
    BY <1>1
  <2> QED
    BY <2>1, Divided
<1>3. Holds(fds, n, f) /\ Flushed(n, s, f)
  BY FlushKeeps
<1>4. Shows(f) = Shows(s) /\ Leaves(d, Now(f.w), fds, {n})
  BY FlushShows
<1>5. /\ Filed(fe) /\ Linked(d, fe.sctBegin, fe.sctNum) /\ d \in Disks /\ fe.sctNum \in Nat
      /\ Bytes(fe) \in Nat /\ SECT_SIZE \in Nat \ {0} /\ fe.lastBytes \in 0 .. SECT_SIZE
  BY HoldsFiled, EntryFields, Sizes DEF Filed
<1>6. r = IF si = End THEN f
          ELSE [f EXCEPT !.fd.objIdx = idx, !.fd.offset = off, !.fd.cache = cache]
  BY <1>1 DEF ToLocate
<1>7. f.fd.fe = fe /\ f.fd.objIdx = s.fd.objIdx /\ f.fd.offset = s.fd.offset
      /\ Now(f.w).map = d.map /\ (Fresh(s) => ~f.fd.changed)
  BY <1>3 DEF Flushed
<1> HIDE DEF idx, off, si, f, cache
<1>8. CASE si = End
  <2>1. r = f
    BY <1>6, <1>8
  <2>2. GetFilePos(f.fd) = GetFilePos(s.fd)
    BY <1>7 DEF GetFilePos
  <2>3. ~ (idx < fe.sctNum)
    <3> SUFFICES ASSUME idx < fe.sctNum PROVE FALSE
      OBVIOUS
    <3>1. idx \in 0 .. fe.sctNum - 1
      BY <1>2, <1>5
    <3>2. si \in Sector
      BY <1>5, <3>1 DEF Linked, si
    <3> QED
      BY <1>8, <3>2, Numbers
  <2>4. Bytes(fe) <= SECT_SIZE * fe.sctNum
    <3>1. (fe.sctNum - 1) * SECT_SIZE = SECT_SIZE * fe.sctNum - SECT_SIZE
      BY <1>5
    <3>2. SECT_SIZE * fe.sctNum \in Nat
      BY <1>5
    <3>3. Bytes(fe) = (fe.sctNum - 1) * SECT_SIZE + fe.lastBytes
      BY DEF Bytes
    <3> HIDE DEF fe
    <3> QED
      BY <1>5, <3>1, <3>2, <3>3
  <2>5. SECT_SIZE * fe.sctNum <= SECT_SIZE * idx
    <3> HIDE DEF fe
    <3>1. idx - fe.sctNum \in Nat
      BY <1>2, <1>5, <2>3
    <3>2. SECT_SIZE * (idx - fe.sctNum) \in Nat
      BY <1>5, <3>1
    <3>3. SECT_SIZE * (idx - fe.sctNum) = SECT_SIZE * idx - SECT_SIZE * fe.sctNum
      <4>1. SECT_SIZE \in Nat /\ idx \in Nat /\ fe.sctNum \in Nat
        BY <1>2, <1>5
      <4> QED
        BY <4>1, Times
    <3>4. SECT_SIZE * idx \in Nat /\ SECT_SIZE * fe.sctNum \in Nat
      BY <1>2, <1>5
    <3> QED
      BY <3>2, <3>3, <3>4
  <2>6. SECT_SIZE * idx \in Nat /\ SECT_SIZE * fe.sctNum \in Nat /\ off \in Nat
    <3> HIDE DEF fe
    <3>1. SECT_SIZE * idx \in Nat
      BY <1>2, <1>5
    <3>2. SECT_SIZE * fe.sctNum \in Nat
      BY <1>5
    <3>3. off \in Nat
      BY <1>2, <1>5 DEF Offset
    <3> QED
      BY <3>1, <3>2, <3>3
  <2>7. to = len /\ off = 0 /\ ~ (pos < len)
    <3> HIDE DEF fe
    <3>1. to >= len
      BY <1>1, <1>2, <2>4, <2>5, <2>6
    <3>2. to = len /\ ~ (pos < len)
      BY <1>1, <3>1
    <3> QED
      BY <1>1, <1>2, <2>4, <2>5, <2>6, <3>2
  <2>8. len % SECT_SIZE = 0
    BY <2>7 DEF off
  <2> QED
    BY <1>4, <2>1, <2>2, <2>7, <2>8 DEF Locates
<1>9. CASE si # End
  <2>1. idx < fe.sctNum
    BY <1>2, <1>5, <1>9, BehindEnd DEF si
  <2> DEFINE v == f.w
             fd == f.fd
             ok == f.ok
             x == Now(v)
             hd == [fd EXCEPT !.objIdx = idx, !.offset = off, !.cache = cache]
  <2>2. /\ f = [w |-> v, fd |-> fd, ok |-> ok] /\ fd \in FileDesc /\ fd # Closed
    BY <1>3, OperationAssumption DEF Holds
  <2>3. r = [f EXCEPT !.fd.objIdx = idx, !.fd.offset = off, !.fd.cache = cache]
    BY <1>6, <1>9
  <2>4. fd.fe = fe /\ fd.objIdx = s.fd.objIdx /\ x.map = d.map
        /\ (Fresh(s) => ~fd.changed) /\ Shows(s) = Content(x, fe, fd)
    BY <1>4, <1>7 DEF Shows
  <2>5. r.w = v /\ r.fd = hd
    <3> HIDE DEF v, fd, ok
    <3> QED
      BY <2>2, <2>3
  <2>6. Holds(fds, n, r)
    BY LocateKeeps
  <2>7. hd # Closed /\ Filed(hd.fe)
    BY <2>5, <2>6, HoldsFiled
  <2> HIDE DEF v, ok, fd
  <2>8. /\ hd.fe = fe /\ hd.objIdx = idx /\ hd.offset = off
        /\ hd.changed = fd.changed /\ hd.cache = cache
    BY <2>2, <2>4 DEF FileDesc
  <2> HIDE DEF hd
  <2>9. GetFilePos(hd) = to
    <3>1. idx # End
      BY <1>2 DEF End
    <3>2. idx * SECT_SIZE = SECT_SIZE * idx
      BY <1>2, <1>5
    <3> QED
      BY <1>2, <2>8, <3>1, <3>2 DEF GetFilePos
  <2>10. FindIndex(x, fe.sctBegin, idx) = si
    <3>1. FindIndex(x, fe.sctBegin, idx) = FindIndex(d, fe.sctBegin, idx)
      BY <1>2, <2>4, IndexByMap
    <3> QED
      BY <3>1 DEF si
  <2>11. cache = BytesIn(x.sct[si])
    BY DEF cache, v
  <2>12. ASSUME NEW k \in 0 .. fe.sctNum - 1 PROVE View(x, fe, hd, k) = View(x, fe, fd, k)
    <3>1. View(x, fe, hd, k) = BytesIn(x.sct[FindIndex(x, fe.sctBegin, k)])
      BY <2>7, <2>8, <2>10, <2>11 DEF View
    <3>2. ~ fd.changed \/ fd.objIdx # k
      <4>1. CASE Fresh(s)
        BY <2>4, <4>1
      <4>2. CASE s.fd.objIdx >= fe.sctNum
        <5>1. k < fe.sctNum /\ k \in Int
          BY <1>5
        <5> SUFFICES ASSUME fd.objIdx = k PROVE FALSE
          OBVIOUS
        <5>2. k >= fe.sctNum
          BY <2>4, <4>2
        <5> QED
          BY <1>5, <5>1, <5>2
      <4> QED
        BY <4>1, <4>2
    <3>3. View(x, fe, fd, k) = BytesIn(x.sct[FindIndex(x, fe.sctBegin, k)])
      BY <3>2 DEF View
    <3> QED
      BY <3>1, <3>3
  <2>13. Content(x, fe, hd) = Content(x, fe, fd)
    <3> HIDE DEF fe, x
    <3>1. /\ Bytes(fe) <= Bytes(fe) /\ \A k \in 0 .. fe.sctNum - 1 :
                k < fe.sctNum => View(x, fe, hd, k) = View(x, fe, fd, k)
      BY <1>5, <2>12
    <3>2. Filed(fe)
      BY <1>5
    <3>3. Bytes(fe) = Bytes(fe) => Content(x, fe, hd) = Content(x, fe, fd)
      BY ONLY <3>1, <3>2, ContentsAgree
    <3> QED
      BY <3>3
  <2>14. Shows(r) = Shows(s) /\ Now(r.w) = Now(f.w)
    BY <2>4, <2>5, <2>8, <2>13 DEF Shows, v
  <2> QED
    BY <1>4, <2>5, <2>9, <2>14 DEF Locates
<1> QED
  BY <1>8, <1>9

\* The session r goes on from s: the end of the file is cut off.
Trims(fds, n, s, r) ==
    /\ Leaves(Now(s.w), Now(r.w), fds, {n})
    /\ Len(Shows(r)) <= Len(Shows(s))
    /\ \A i \in 1 .. Len(Shows(r)) : Shows(r)[i] = Shows(s)[i]

LEMMA CutShows ==
    ASSUME NEW fds \in Descriptors, NEW n \in Name, NEW s, Holds(fds, n, s), Fresh(s),
           NEW bytes \in Nat, NEW t, t = Cut(s, bytes)
    PROVE  Trims(fds, n, s, t) /\ GetFilePos(t.fd) = GetFilePos(s.fd)
<1> DEFINE e == EraseLast(s.w, s.fd.fe, bytes)
           d == Now(s.w)
           gds == With(fds, n, s.fd)
           fe == s.fd.fe
           v == s.w
           fd == s.fd
           ok == s.ok
           ge == e.fe
           w == e.w
           x == Now(w)
           hd == [fd EXCEPT !.fe = ge]
           hds == With(gds, n, hd)
<1>1. /\ s = [w |-> v, fd |-> fd, ok |-> ok] /\ History(v) /\ fd \in FileDesc /\ Chains(d, gds)
  BY DEF Holds
<1>2. t = [s EXCEPT !.w = w, !.fd.fe = ge]
  BY DEF Cut
<1>3. PICK R : R = Recs(d, gds)
  OBVIOUS
<1>4. /\ d \in Disks /\ gds[n] = fd /\ fd # Closed /\ gds[n] # Closed
      /\ R = [p \in DOMAIN R |-> R[p]] /\ Shares(d, R)
      /\ n \in DOMAIN R /\ n # Missing /\ R[n] = fe /\ fe \in Records
      /\ fe \in FileEntry /\ Proper(fe)
  BY <1>3, HoldsOwner
<1>5. Shortened(d, R, n, bytes, R[n].sctNum + 1, e)
  <2>1. d = Now(v) /\ fe = R[n]
    BY <1>4
  <2> HIDE DEF d, fe, v
  <2>2. Shortened(d, R, n, bytes, fe.sctNum + 1, EraseLast(v, fe, bytes))
    BY <1>1, <1>4, <2>1, LastErased
  <2>3. e = EraseLast(v, fe, bytes)
    BY DEF v, fe
  <2> QED
    BY <2>1, <2>2, <2>3
<1>6. /\ History(w) /\ Moved(d, x, R, n, ge) /\ Proper(ge)
      /\ e.left \in 0 .. bytes /\ Bytes(ge) - e.left = Bytes(fe) - bytes
      /\ \A j \in 0 .. ge.sctNum - 1 :
            FindIndex(x, ge.sctBegin, j) = FindIndex(d, fe.sctBegin, j)
  BY <1>4, <1>5 DEF Shortened
<1>7. ge \in FileEntry
  BY <1>4, <1>6 DEF Moved, SameRecord
<1>8. Holds(fds, n, t)
  BY CutKeeps
<1> HIDE DEF ge, w, x, e
<1>9. /\ hd \in FileDesc /\ hd.fe = ge /\ hd.objIdx = fd.objIdx /\ hd.offset = fd.offset
      /\ hd.changed = fd.changed /\ hd.cache = fd.cache
  BY <1>1, <1>7 DEF FileDesc
<1>10. t = [w |-> w, fd |-> hd, ok |-> ok]
  <2> HIDE DEF v, fd, ok, fe
  <2> QED
    BY <1>1, <1>2
<1> HIDE DEF hd
<1>11. t.w = w /\ t.fd = hd
  BY <1>10
<1>12. /\ Filed(ge) /\ hd # Closed /\ Bytes(ge) \in Nat
  BY <1>8, <1>9, <1>11, HoldsFiled
<1>13. Filed(fe) /\ Bytes(fe) \in Nat
  BY HoldsFiled
<1>14. Bytes(ge) <= Bytes(fe)
  <2> DEFINE a == Bytes(ge)
             b == Bytes(fe)
             l == e.left
  <2>1. a \in Nat /\ b \in Nat /\ l \in 0 .. bytes /\ a - l = b - bytes
    BY <1>6, <1>12, <1>13
  <2> HIDE DEF a, b, l
  <2>2. a <= b
    BY <2>1
  <2> QED
    BY <2>2 DEF a, b
<1>15. \A m \in Name : FindInRoot(x, m) = FindInRoot(d, m)
  <2>1. Directory(d) /\ x \in Disks /\ hds = With(gds, n, hd)
    BY <1>1, <1>6 DEF Chains, Moved
  <2> HIDE DEF gds, hds, d
  <2>2. SameDirectory(d, x)
    BY <1>1, <1>3, <1>4, <1>6, <1>9, <2>1, FileMoved
  <2> QED
    BY <2>1, <2>2, DirectoryKept
<1>16. Leaves(d, x, gds, {n})
  <2> HIDE DEF gds, d
  <2> QED
    BY <1>1, <1>3, <1>4, <1>6, <1>15, LeavesMoved
<1>17. Leaves(d, x, fds, {n})
  <2>1. \A m \in Name \ {n} : gds[m] = fds[m]
    BY <1>1, Withs
  <2> HIDE DEF gds, d
  <2> QED
    BY <1>16, <2>1, LeavesWith
<1>18. ASSUME NEW k \in 0 .. fe.sctNum - 1, k < ge.sctNum
       PROVE  View(x, ge, hd, k) = View(d, fe, fd, k)
  <2>1. x.sct = d.sct
    BY <1>6 DEF Moved
  <2>2. k \in 0 .. ge.sctNum - 1
    <3>1. ge.sctNum \in Nat /\ fe.sctNum \in Nat
      BY <1>12, <1>13, EntryFields DEF Filed
    <3> QED
      BY <1>18, <3>1
  <2>3. FindIndex(x, ge.sctBegin, k) = FindIndex(d, fe.sctBegin, k)
    BY <1>6, <2>2
  <2>4. hd # Closed /\ fd # Closed
    BY <1>4, <1>12
  <2> QED
    BY <1>9, <2>1, <2>3, <2>4 DEF View
<1>19. \A i \in 1 .. Bytes(ge) : Content(x, ge, hd)[i] = Content(d, fe, fd)[i]
  <2> HIDE DEF fe, d, fd
  <2> QED
    BY <1>12, <1>13, <1>14, <1>18, ContentsAgree
<1>20. /\ Shows(t) = Content(x, ge, hd) /\ Shows(s) = Content(d, fe, fd)
       /\ Len(Shows(t)) = Bytes(ge) /\ Len(Shows(s)) = Bytes(fe)
  BY <1>8, <1>9, <1>11, ShowsTyped DEF Shows, x
<1>21. GetFilePos(hd) = GetFilePos(fd)
  BY <1>9 DEF GetFilePos
<1> QED
  BY <1>11, <1>14, <1>17, <1>19, <1>20, <1>21 DEF Trims, x

LEMMA ErasedShows ==
    ASSUME NEW fds \in Descriptors, NEW n \in Name, NEW s, Holds(fds, n, s), Fresh(s),
           NEW bytes \in Nat \ {0}, Careful(s.fd, bytes), GetFilePos(s.fd) <= Len(Shows(s)),
           NEW r, r = Erased(s, bytes), NEW len, len = Len(Shows(r))
    PROVE  /\ Trims(fds, n, s, r)
           /\ GetFilePos(r.fd) = IF GetFilePos(s.fd) > len THEN len ELSE GetFilePos(s.fd)
<1> DEFINE e == EraseLast(s.w, s.fd.fe, bytes)
           t == Cut(s, bytes)
           old == GetFileLen(s.fd)
           pos == GetFilePos(s.fd)
           to == old - (bytes - e.left)
<1>1. r = IF e.left < bytes /\ pos > to THEN ToLocate(t, to) ELSE t
  BY DEF Erased, Cut
<1>2. /\ Holds(fds, n, t) /\ t.fd.objIdx = s.fd.objIdx
      /\ e.left \in 0 .. bytes /\ GetFileLen(t.fd) = to
      /\ (bytes <= old => e.left = 0)
      /\ (s.fd.objIdx = End \/ s.fd.objIdx < t.fd.fe.sctNum => Fresh(t))
  BY CutKeeps
<1>3. Trims(fds, n, s, t) /\ GetFilePos(t.fd) = pos
  BY CutShows
<1> HIDE DEF e, t
<1>4. old \in Nat /\ pos \in Nat /\ old = Len(Shows(s)) /\ pos <= old
  BY ShowsTyped
<1>5. to \in Nat /\ to = Len(Shows(t))
  BY <1>2, ShowsTyped
<1> HIDE DEF old, pos, to
<1>6. CASE ~ (e.left < bytes /\ pos > to)
  <2>1. r = t
    BY <1>1, <1>6
  <2>2. ~ (pos > to)
    <3>1. CASE pos > to
      <4>1. e.left = bytes
        BY <1>2, <1>6, <3>1
      <4>2. to = old
        BY <1>4, <4>1 DEF to
      <4> QED
        BY <1>4, <3>1, <4>2
    <3> QED
      BY <3>1
  <2> QED
    BY <1>3, <1>5, <2>1, <2>2 DEF pos
<1>7. CASE e.left < bytes /\ pos > to
  <2>1. r = ToLocate(t, to)
    BY <1>1, <1>7
  <2>2. Fresh(t) \/ t.fd.objIdx >= t.fd.fe.sctNum
    <3>1. t.fd.objIdx = End \/ t.fd.objIdx \in Nat
      BY <1>2, Numbers DEF Holds, FileDesc
    <3>2. t.fd.fe.sctNum \in Nat
      BY <1>2, HoldsFiled, EntryFields DEF Filed
    <3> QED
      BY <1>2, <3>1, <3>2
  <2>3. s.fd.objIdx # End
    <3> SUFFICES ASSUME s.fd.objIdx = End PROVE FALSE
      OBVIOUS
    <3>1. pos = 0
      BY DEF pos, GetFilePos
    <3> QED
      BY <1>5, <1>7, <3>1
  <2>4. to % SECT_SIZE # 0
    <3>1. \/ old - bytes > 0 /\ (old - bytes) % SECT_SIZE # 0
          \/ old - bytes > pos
      BY <2>3 DEF Careful, old, pos
    <3>2. bytes <= old
      BY <1>4, <3>1
    <3>3. e.left = 0
      BY <1>2, <3>2
    <3>4. to = old - bytes
      BY <1>4, <3>3 DEF to
    <3> QED
      BY <1>4, <1>7, <3>1, <3>4
  <2>5. Locates(fds, n, t, r, to)
    <3>1. to = Nearest(to, Len(Shows(t)))
      BY <1>5 DEF Nearest
    <3> QED
      BY <1>2, <1>5, <2>1, <2>2, <3>1, LocateShows
  <2>6. Leaves(Now(s.w), Now(r.w), fds, {n})
    BY <1>3, <2>5, LeavesTwice DEF Trims, Locates
  <2> QED
    BY <1>3, <1>5, <1>7, <2>4, <2>5, <2>6 DEF Trims, Locates, pos
<1> QED
  BY <1>6, <1>7

-----------------------------------------------------------------------------
(* Operations, and what they do to files *)

\* A record that says the same of the same sectors.
LEMMA SameContent ==
    ASSUME NEW d, NEW x, NEW fe, Filed(fe), NEW ge, Filed(ge), SameChain(fe, ge),
           ge.lastBytes = fe.lastBytes, Same(d, x, fe), NEW fd
    PROVE  Content(x, ge, fd) = Content(d, fe, fd)
<1>1. ge.sctBegin = fe.sctBegin /\ ge.sctNum = fe.sctNum
  BY DEF SameChain
<1>2. ASSUME NEW k \in 0 .. fe.sctNum - 1 PROVE View(x, ge, fd, k) = View(d, fe, fd, k)
  BY <1>1 DEF View, Same
<1>3. Bytes(ge) = Bytes(fe) /\ Bytes(fe) \in Nat
  BY <1>1, ContentIs DEF Bytes
<1>4. /\ Bytes(ge) <= Bytes(fe)
      /\ \A k \in 0 .. fe.sctNum - 1 : k < ge.sctNum => View(x, ge, fd, k) = View(d, fe, fd, k)
  BY <1>2, <1>3
<1> QED
  BY <1>3, <1>4, ContentsAgree

\* The file m as callers see it.
LEMMA FileIs ==
    ASSUME NEW d, NEW fds, Chains(d, fds), NEW m \in Name, NEW fe, fe = RecordOf(d, fds[m], m),
           NEW f, f = FileOf(d, fds[m], m)
    PROVE  /\ fe = Missing => f = Missing
           /\ fe # Missing =>
                /\ f # Missing /\ f = [bytes |-> f.bytes, pos |-> f.pos]
                /\ f.bytes = Content(d, fe, fds[m]) /\ f.bytes \in Seq(Byte)
                /\ Len(f.bytes) = Bytes(fe)
                /\ fds[m] = Closed => f.pos = Closed /\ Abstract!IsClosed(f)
                /\ fds[m] # Closed =>
                      f.pos = GetFilePos(fds[m]) /\ f.pos \in Nat /\ Abstract!IsOpen(f)
<1> DEFINE fd == fds[m]
           c == Content(d, fe, fd)
           p == IF fd # Closed THEN GetFilePos(fd) ELSE Closed
<1>1. f = IF fe = Missing THEN Missing ELSE [bytes |-> c, pos |-> p]
  BY DEF FileOf, RecordOf
<1>2. ASSUME fe # Missing PROVE c \in Seq(Byte) /\ Len(c) = Bytes(fe) /\ p \in Nat \union {Closed}
                                /\ (fd # Closed => p \in Nat)
  <2>1. /\ Filed(fe) /\ Linked(d, fe.sctBegin, fe.sctNum)
    BY <1>2, RecordIs
  <2>2. d \in Disks /\ (fd = Closed \/ fd \in FileDesc)
    BY DEF Chains, Directory, Descriptors
  <2> HIDE DEF fd
  <2>3. c \in Seq(Byte) /\ Len(c) = Bytes(fe)
    BY <2>1, <2>2, ContentTyped
  <2>4. fd # Closed => GetFilePos(fd) \in Nat
    <3> SUFFICES ASSUME fd # Closed PROVE GetFilePos(fd) \in Nat
      OBVIOUS
    <3>1. fd \in FileDesc
      BY <2>2
    <3>2. /\ fd.offset \in Nat /\ SECT_SIZE \in Nat
      BY <3>1, Sizes DEF FileDesc
    <3>3. fd.objIdx = End \/ fd.objIdx \in Nat
      BY <3>1, Numbers DEF FileDesc
    <3>4. fd.objIdx # End => fd.objIdx * SECT_SIZE \in Nat
      BY <3>2, <3>3
    <3> QED
      BY <3>2, <3>4 DEF GetFilePos
  <2> QED
    BY <2>3, <2>4
<1> HIDE DEF c
<1>3. ASSUME fe # Missing
      PROVE  /\ f = [bytes |-> c, pos |-> p] /\ f.bytes = c /\ f.pos = p /\ f # Missing
  <2>1. f = [bytes |-> c, pos |-> p]
    BY <1>1, <1>3
  <2> HIDE DEF p
  <2>2. f \in [bytes : Seq(Byte), pos : Nat \union {Closed}]
    BY <1>2, <1>3, <2>1
  <2> QED
    BY <2>1, <2>2, FileAssumption
<1>4. fe # Missing /\ fd = Closed => f.pos = Closed /\ Abstract!IsClosed(f)
  BY <1>3 DEF Abstract!IsClosed
<1>5. fe # Missing /\ fd # Closed => f.pos = GetFilePos(fd) /\ f.pos \in Nat /\ Abstract!IsOpen(f)
  BY <1>2, <1>3, FileAssumption DEF Abstract!IsOpen
<1>6. fe # Missing => f = [bytes |-> f.bytes, pos |-> f.pos]
  BY <1>3
<1> QED
  BY <1>1, <1>2, <1>3, <1>4, <1>5, <1>6 DEF c, fd

\* The file of a session.
LEMMA SessionFile ==
    ASSUME NEW fds \in Descriptors, NEW n \in Name, NEW s, Holds(fds, n, s),
           NEW g, g = FileOf(Now(s.w), s.fd, n)
    PROVE  /\ g = [bytes |-> Shows(s), pos |-> GetFilePos(s.fd)]
           /\ g.bytes = Shows(s) /\ g.pos = GetFilePos(s.fd)
           /\ Shows(s) \in Seq(Byte) /\ GetFilePos(s.fd) \in Nat /\ Abstract!IsOpen(g)
<1>1. /\ Shows(s) \in Seq(Byte) /\ GetFilePos(s.fd) \in Nat
  BY ShowsTyped
<1>2. s.fd # Closed /\ s.fd.fe # Missing
  BY HoldsFiled, NameAssumption DEF Filed
<1>3. g = [bytes |-> Shows(s), pos |-> GetFilePos(s.fd)]
  BY <1>2 DEF FileOf, Shows
<1>4. g \in [bytes : Seq(Byte), pos : Nat \union {Closed}]
  BY <1>1, <1>3
<1> QED
  BY <1>1, <1>3, <1>4, FileAssumption DEF Abstract!IsOpen

LEMMA WriteChanges ==
    ASSUME NEW fds \in Descriptors, NEW n \in Name, NEW s, Holds(fds, n, s), NEW r,
           Holds(fds, n, r), NEW b \in Byte, Writes(fds, n, s, r, b),
           GetFilePos(s.fd) <= Len(Shows(s)),
           NEW f, f = FileOf(Now(s.w), s.fd, n), NEW g, g = FileOf(Now(r.w), r.fd, n)
    PROVE  Abstract!WriteFile(f, g) \/ Abstract!Locate(f, g)
<1>1. /\ f.bytes = Shows(s) /\ f.pos = GetFilePos(s.fd) /\ f.bytes \in Seq(Byte)
      /\ f.pos \in Nat /\ Abstract!IsOpen(f)
  BY SessionFile
<1>2. /\ g.bytes = Shows(r) /\ g.pos = GetFilePos(r.fd) /\ g.bytes \in Seq(Byte)
      /\ g.pos \in Nat /\ Abstract!IsOpen(g)
  BY SessionFile
<1>3. /\ f.pos <= g.pos /\ f.pos <= Len(f.bytes)
      /\ Len(g.bytes) = (IF g.pos > Len(f.bytes) THEN g.pos ELSE Len(f.bytes))
      /\ \A i \in 1 .. Len(g.bytes) :
            g.bytes[i] = IF f.pos < i /\ i <= g.pos THEN b ELSE f.bytes[i]
  BY <1>1, <1>2 DEF Writes, Wrote
<1>4. CASE g.pos > f.pos
  BY <1>1, <1>2, <1>3, <1>4 DEF Abstract!WriteFile
<1>5. CASE g.pos = f.pos
  <2> DEFINE c == f.bytes
             e == g.bytes
             p == f.pos
  <2>1. c \in Seq(Byte) /\ e \in Seq(Byte) /\ p \in Nat /\ p <= Len(c)
    BY <1>1, <1>2, <1>3
  <2>2. Len(e) = IF p > Len(c) THEN p ELSE Len(c)
    BY <1>3, <1>5
  <2>3. \A i \in 1 .. Len(e) : e[i] = IF p < i /\ i <= p THEN b ELSE c[i]
    BY <1>3, <1>5
  <2> HIDE DEF c, e, p
  <2>4. Len(e) = Len(c)
    BY <2>1, <2>2
  <2>5. \A i \in 1 .. Len(e) : e[i] = c[i]
    BY <2>1, <2>3
  <2>6. e = c
    BY <2>1, <2>4, <2>5
  <2>7. g.bytes = f.bytes /\ g.pos <= Len(f.bytes)
    BY <1>3, <1>5, <2>6 DEF c, e
  <2> QED
    BY <1>1, <1>2, <2>7 DEF Abstract!Locate
<1> QED
  BY <1>1, <1>2, <1>3, <1>4, <1>5

LEMMA LookChanges ==
    ASSUME NEW fds \in Descriptors, NEW n \in Name, NEW s, Holds(fds, n, s), NEW r,
           Holds(fds, n, r), Looks(fds, n, s, r),
           NEW f, f = FileOf(Now(s.w), s.fd, n), NEW g, g = FileOf(Now(r.w), r.fd, n)
    PROVE  Abstract!Locate(f, g)
<1>1. /\ f.bytes = Shows(s) /\ Abstract!IsOpen(f)
  BY SessionFile
<1>2. /\ g.bytes = Shows(r) /\ g.pos = GetFilePos(r.fd) /\ Abstract!IsOpen(g)
  BY SessionFile
<1> QED
  BY <1>1, <1>2 DEF Looks, Abstract!Locate

LEMMA TrimChanges ==
    ASSUME NEW fds \in Descriptors, NEW n \in Name, NEW s, Holds(fds, n, s), NEW r,
           Holds(fds, n, r), Trims(fds, n, s, r), NEW len, len = Len(Shows(r)),
           GetFilePos(r.fd) = IF GetFilePos(s.fd) > len THEN len ELSE GetFilePos(s.fd),
           NEW f, f = FileOf(Now(s.w), s.fd, n), NEW g, g = FileOf(Now(r.w), r.fd, n)
    PROVE  Abstract!Erase(f, g)
<1>1. /\ f.bytes = Shows(s) /\ f.pos = GetFilePos(s.fd) /\ f.bytes \in Seq(Byte)
      /\ f.pos \in Nat /\ Abstract!IsOpen(f)
  BY SessionFile
<1>2. /\ g.bytes = Shows(r) /\ g.pos = GetFilePos(r.fd) /\ g.bytes \in Seq(Byte)
      /\ g.pos \in Nat /\ Abstract!IsOpen(g)
  BY SessionFile
<1>3. /\ Len(g.bytes) <= Len(f.bytes)
      /\ \A i \in 1 .. Len(g.bytes) : g.bytes[i] = f.bytes[i]
      /\ g.pos = IF f.pos > Len(g.bytes) THEN Len(g.bytes) ELSE f.pos
  BY <1>1, <1>2 DEF Trims
<1>4. g.bytes = SubSeq(f.bytes, 1, Len(g.bytes))
  <2> DEFINE c == f.bytes
             e == g.bytes
             k == Len(e)
             u == SubSeq(c, 1, k)
  <2>1. c \in Seq(Byte) /\ e \in Seq(Byte) /\ k \in Nat /\ k <= Len(c) /\ Len(c) \in Nat
    BY <1>1, <1>2, <1>3
  <2>2. \A i \in 1 .. k : e[i] = c[i]
    BY <1>3
  <2>3. e = [i \in 1 .. k |-> e[i]]
    BY <2>1
  <2> HIDE DEF c, e, k
  <2>4. u = [i \in 1 .. k |-> c[i]]
    BY <2>1
  <2> QED
    BY <2>2, <2>3, <2>4 DEF c, e, k
<1> QED
  BY <1>1, <1>2, <1>3, <1>4 DEF Abstract!Erase

-----------------------------------------------------------------------------
(* Steps on open files *)

\* The file n changes, and no other one.
Turns(n) ==
    /\ Abstract!Change(FileOf(disk, opened[n], n), FileOf(disk', opened'[n], n))
    /\ \A m \in Name \ {n} : FileOf(disk', opened'[m], m) = FileOf(disk, opened[m], m)

LEMMA SessionLength ==
    ASSUME NEW fds \in Descriptors, NEW n \in Name, NEW s, Holds(fds, n, s)
    PROVE  GetFileLen(s.fd) = Len(Shows(s)) /\ Len(Shows(s)) \in Nat
<1>1. /\ Filed(s.fd.fe) /\ Linked(Now(s.w), s.fd.fe.sctBegin, s.fd.fe.sctNum)
      /\ Now(s.w) \in Disks /\ s.fd \in FileDesc
      /\ GetFileLen(s.fd) = Bytes(s.fd.fe) /\ Bytes(s.fd.fe) \in Nat
  BY HoldsFiled
<1>2. Len(Shows(s)) = Bytes(s.fd.fe)
  BY <1>1, ContentTyped DEF Shows
<1> QED
  BY <1>1, <1>2

\* A step on the file n leaves the others alone.
LEMMA SessionTurns ==
    ASSUME Sound(disk, opened), ~PowerFails, PositionInFile, NEW n \in Open, NEW op, NEW r,
           Ends(op, n, r), Holds(opened, n, r), Leaves(disk, Now(r.w), opened, {n}),
           GetFilePos(r.fd) <= Len(Shows(r)),
           Abstract!Change(FileOf(disk, opened[n], n), FileOf(Now(r.w), r.fd, n))
    PROVE  Turns(n) /\ PositionInFile'
<1>1. opened \in Descriptors /\ n \in Name /\ Chains(disk, opened)
  BY DEF Sound, Chains, Open
<1>2. disk' = Now(r.w) /\ opened' = With(opened, n, r.fd)
  BY DEF Ends, Does, With
<1>3. r.fd \in FileDesc
  BY DEF Holds
<1>4. opened'[n] = r.fd /\ \A m \in Name \ {n} : opened'[m] = opened[m]
  BY <1>1, <1>2, <1>3, Withs
<1>5. \A m \in Name \ {n} : FileOf(disk', opened'[m], m) = FileOf(disk, opened[m], m)
  BY <1>1, <1>2, <1>4, LeavesFiles
<1>6. GetFilePos(r.fd) <= GetFileLen(r.fd)
  BY <1>1, SessionLength
<1>7. PositionInFile'
  <2> SUFFICES ASSUME NEW m \in Name, opened'[m] # Closed
               PROVE  GetFilePos(opened'[m]) <= GetFileLen(opened'[m])
    BY DEF PositionInFile, Open
  <2>1. CASE m = n
    BY <1>4, <1>6, <2>1
  <2>2. CASE m # n
    BY <1>4, <2>2 DEF PositionInFile, Open
  <2> QED
    BY <2>1, <2>2
<1>8. Turns(n)
  BY <1>2, <1>4, <1>5 DEF Turns
<1> QED
  BY <1>7, <1>8

\* What a session begins with.
LEMMA SessionOf ==
    ASSUME Sound(disk, opened), PositionInFile, NEW n \in Open, NEW s, s = Session(n)
    PROVE  /\ opened \in Descriptors /\ n \in Name /\ Holds(opened, n, s) /\ Fresh(s)
           /\ Now(s.w) = disk /\ s.fd = opened[n] /\ GetFilePos(s.fd) <= Len(Shows(s))
<1>1. n \in Name /\ opened[n] # Closed
  BY DEF Open
<1>2. opened \in Descriptors /\ Holds(opened, n, s) /\ Fresh(s)
  BY <1>1, SessionBegins DEF Session
<1>3. Now(s.w) = disk /\ s.fd = opened[n]
  BY Begun DEF Session
<1>4. GetFilePos(s.fd) <= GetFileLen(s.fd)
  BY <1>3 DEF PositionInFile
<1> QED
  BY <1>1, <1>2, <1>3, <1>4, SessionLength

LEMMA LookTurns ==
    ASSUME Sound(disk, opened), ~PowerFails, PositionInFile, NEW n \in Open, NEW op, NEW r,
           Ends(op, n, r), NEW s, s = Session(n), Holds(opened, n, r), Looks(opened, n, s, r)
    PROVE  Turns(n) /\ PositionInFile'
<1>1. /\ opened \in Descriptors /\ n \in Name /\ Holds(opened, n, s)
      /\ Now(s.w) = disk /\ s.fd = opened[n]
  BY SessionOf
<1>2. Leaves(disk, Now(r.w), opened, {n}) /\ GetFilePos(r.fd) <= Len(Shows(r))
  BY <1>1 DEF Looks
<1> DEFINE f == FileOf(disk, opened[n], n)
           g == FileOf(Now(r.w), r.fd, n)
<1>3. f = FileOf(Now(s.w), s.fd, n) /\ g = FileOf(Now(r.w), r.fd, n)
  BY <1>1
<1> HIDE DEF f, g
<1>4. Abstract!Locate(f, g)
  BY <1>1, <1>3, LookChanges
<1>5. Abstract!Change(f, g)
  BY <1>4 DEF Abstract!Change
<1> QED
  BY <1>2, <1>5, SessionTurns DEF f, g

LEMMA FlushTurns ==
    ASSUME Sound(disk, opened), ~PowerFails, PositionInFile, NEW n \in Open, FFlush(n)
    PROVE  Turns(n) /\ PositionInFile'
<1> DEFINE s == Session(n)
           r == ToFlush(s)
<1>1. Ends("flush", n, r)
  BY DEF FFlush
<1>2. /\ opened \in Descriptors /\ n \in Name /\ Holds(opened, n, s)
      /\ GetFilePos(s.fd) <= Len(Shows(s))
  BY SessionOf
<1> HIDE DEF s
<1>3. Holds(opened, n, r) /\ r.fd.objIdx = s.fd.objIdx /\ r.fd.offset = s.fd.offset
  BY <1>2, FlushKeeps DEF Flushed
<1>4. Shows(r) = Shows(s) /\ Leaves(Now(s.w), Now(r.w), opened, {n})
  BY <1>2, FlushShows
<1> HIDE DEF r
<1>5. GetFilePos(r.fd) = GetFilePos(s.fd)
  BY <1>3 DEF GetFilePos
<1>6. Looks(opened, n, s, r)
  BY <1>2, <1>4, <1>5 DEF Looks
<1> QED
  BY <1>1, <1>3, <1>6, LookTurns DEF s

LEMMA ReadTurns ==
    ASSUME Sound(disk, opened), ~PowerFails, PositionInFile, NEW n \in Open, NEW l \in Lengths,
           FRead(n, l)
    PROVE  Turns(n) /\ PositionInFile'
<1> DEFINE s == Session(n)
           r == ToRead(s, l)
<1>1. Ends("read", n, r) /\ l \in Nat
  BY OperationAssumption DEF FRead
<1>2. /\ opened \in Descriptors /\ n \in Name /\ Holds(opened, n, s) /\ Fresh(s)
      /\ GetFilePos(s.fd) <= Len(Shows(s))
  BY SessionOf
<1> HIDE DEF s
<1>3. Holds(opened, n, r)
  BY <1>1, <1>2, ToReadKeeps
<1>4. Looks(opened, n, s, r)
  BY <1>1, <1>2, ToReadShows
<1> HIDE DEF r
<1> QED
  BY <1>1, <1>3, <1>4, LookTurns DEF s

LEMMA SeekTurns ==
    ASSUME Sound(disk, opened), ~PowerFails, PositionInFile, NEW n \in Open, NEW p \in Positions,
           FSeek(n, p)
    PROVE  Turns(n) /\ PositionInFile'
<1> DEFINE s == Session(n)
           r == ToLocate(s, p)
           to == Nearest(p, Len(Shows(s)))
<1>1. Ends("seek", n, r) /\ p \in Nat
  BY OperationAssumption DEF FSeek
<1>2. /\ opened \in Descriptors /\ n \in Name /\ Holds(opened, n, s) /\ Fresh(s)
      /\ GetFilePos(s.fd) <= Len(Shows(s))
  BY SessionOf
<1> HIDE DEF s
<1>3. Holds(opened, n, r)
  BY <1>1, <1>2, LocateKeeps
<1>4. Len(Shows(s)) \in Nat
  BY <1>2, SessionLength
<1>5. to <= Len(Shows(s))
  BY <1>1, <1>4 DEF Nearest
<1> HIDE DEF r, to
<1>6. Locates(opened, n, s, r, to)
  BY <1>1, <1>2, LocateShows DEF r, to
<1>7. Looks(opened, n, s, r)
  BY <1>2, <1>5, <1>6 DEF Looks, Locates
<1> QED
  BY <1>1, <1>3, <1>7, LookTurns DEF s

LEMMA WriteTurns ==
    ASSUME Sound(disk, opened), ~PowerFails, PositionInFile, NEW n \in Open, NEW l \in Lengths,
           NEW b \in Byte, FWrite(n, [i \in 1 .. l |-> b])
    PROVE  Turns(n) /\ PositionInFile'
<1> DEFINE s == Session(n)
           data == [i \in 1 .. l |-> b]
           r == ToWrite(s, data)
           f == FileOf(disk, opened[n], n)
           g == FileOf(Now(r.w), r.fd, n)
<1>1. Ends("write", n, r) /\ l \in Nat
  BY OperationAssumption DEF FWrite
<1>2. data \in Seq(Byte)
  BY <1>1
<1>3. /\ opened \in Descriptors /\ n \in Name /\ Holds(opened, n, s) /\ Fresh(s)
      /\ GetFilePos(s.fd) <= Len(Shows(s)) /\ Now(s.w) = disk /\ s.fd = opened[n]
  BY SessionOf
<1> HIDE DEF s
<1>4. Writes(opened, n, s, r, b)
  BY <1>1, <1>3, ToWriteShows
<1> HIDE DEF data
<1>5. Holds(opened, n, r)
  BY <1>2, <1>3, ToWriteKeeps
<1> HIDE DEF r
<1>6. Leaves(disk, Now(r.w), opened, {n}) /\ GetFilePos(r.fd) <= Len(Shows(r))
  BY <1>3, <1>4 DEF Writes
<1>7. f = FileOf(Now(s.w), s.fd, n) /\ g = FileOf(Now(r.w), r.fd, n)
  BY <1>3
<1> HIDE DEF f, g
<1>8. Abstract!WriteFile(f, g) \/ Abstract!Locate(f, g)
  BY <1>3, <1>4, <1>5, <1>7, WriteChanges
<1>9. Abstract!Change(f, g)
  BY <1>8 DEF Abstract!Change
<1> QED
  BY <1>1, <1>5, <1>6, <1>9, SessionTurns DEF f, g

LEMMA EraseTurns ==
    ASSUME Sound(disk, opened), ~PowerFails, Disciplined, PositionInFile, NEW n \in Open,
           NEW l \in Lengths, FErase(n, l)
    PROVE  Turns(n) /\ PositionInFile'
<1> DEFINE s == Session(n)
           r == Erased(s, l)
           f == FileOf(disk, opened[n], n)
           g == FileOf(Now(r.w), r.fd, n)
           len == Len(Shows(r))
<1>1. l \in Nat \ {0}
  BY OperationAssumption
<1>2. /\ opened \in Descriptors /\ n \in Name /\ Holds(opened, n, s) /\ Fresh(s)
      /\ GetFilePos(s.fd) <= Len(Shows(s)) /\ Now(s.w) = disk /\ s.fd = opened[n]
  BY SessionOf
<1>3. Ends("erase", n, r) /\ Careful(s.fd, l)
  BY <1>2 DEF FErase, Careful
<1> HIDE DEF s
<1>4. Holds(opened, n, r)
  BY <1>1, <1>2, <1>3, ErasedKeeps
<1> HIDE DEF r, len
<1>5. /\ Trims(opened, n, s, r)
      /\ GetFilePos(r.fd) = IF GetFilePos(s.fd) > len THEN len ELSE GetFilePos(s.fd)
  BY <1>1, <1>2, <1>3, ErasedShows DEF r, len
<1>6. len \in Nat /\ GetFilePos(s.fd) \in Nat
  <2>1. len \in Nat
    BY <1>2, <1>4, SessionLength DEF len
  <2>2. GetFilePos(s.fd) \in Nat
    BY <1>2, HoldsFiled
  <2> QED
    BY <2>1, <2>2
<1>7. Leaves(disk, Now(r.w), opened, {n}) /\ GetFilePos(r.fd) <= Len(Shows(r))
  BY <1>2, <1>5, <1>6 DEF Trims, len
<1>8. f = FileOf(Now(s.w), s.fd, n) /\ g = FileOf(Now(r.w), r.fd, n)
  BY <1>2
<1> HIDE DEF f, g
<1>9. Abstract!Erase(f, g)
  BY <1>2, <1>4, <1>5, <1>8, TrimChanges DEF len
<1>10. Abstract!Change(f, g)
  BY <1>9 DEF Abstract!Change
<1> QED
  BY <1>3, <1>4, <1>7, <1>10, SessionTurns DEF f, g

-----------------------------------------------------------------------------
(* Files are opened and closed *)

\* A buffer that was not written to does not show.
LEMMA BufferUnseen ==
    ASSUME NEW d, NEW fe, Filed(fe), NEW fd, ~fd.changed
    PROVE  Content(d, fe, fd) = Content(d, fe, Closed)
<1>1. \A k \in 0 .. fe.sctNum - 1 : k < fe.sctNum => View(d, fe, fd, k) = View(d, fe, Closed, k)
  BY DEF View
<1>2. Bytes(fe) \in Nat
  BY ContentIs
<1>3. Bytes(fe) <= Bytes(fe)
  BY <1>2
<1> QED
  BY <1>1, <1>3, ContentsAgree

\* All other descriptors and the records of all other files are as they were.
LEMMA OthersStay ==
    ASSUME NEW n \in Name, Chains(disk, opened), Leaves(disk, disk', opened, {n}),
           \A m \in Name \ {n} : opened'[m] = opened[m]
    PROVE  \A m \in Name \ {n} : FileOf(disk', opened'[m], m) = FileOf(disk, opened[m], m)
  BY LeavesFiles

LEMMA OpenTurns ==
    ASSUME Sound(disk, opened), PositionInFile, NEW n \in Name, FOpen(n)
    PROVE  Turns(n) /\ PositionInFile'
<1> DEFINE fe == FindInRoot(disk, n)
           fd == [fe |-> fe, objIdx |-> End, offset |-> SECT_SIZE, changed |-> FALSE,
                  cache |-> Blank.byte]
           f == FileOf(disk, opened[n], n)
           g == FileOf(disk', opened'[n], n)
           c == Content(disk, fe, Closed)
<1>1. /\ Chains(disk, opened) /\ opened \in Descriptors /\ fe # Missing /\ opened[n] = Closed
      /\ disk' = disk
  BY DEF Sound, Chains, FOpen, Open
<1>2. opened'[n] = fd /\ \A m \in Name \ {n} : opened'[m] = opened[m]
  BY <1>1 DEF FOpen, Descriptors
<1>3. fe = RecordOf(disk, opened[n], n)
  BY <1>1 DEF RecordOf
<1>4. Filed(fe)
  BY <1>1, <1>3, RecordIs
<1>5. /\ f = [bytes |-> f.bytes, pos |-> f.pos] /\ f.bytes = c /\ f.pos = Closed
      /\ Abstract!IsClosed(f)
  BY <1>1, <1>3, FileIs
<1>6. fd.fe = fe /\ fd.objIdx = End /\ ~fd.changed
  OBVIOUS
<1>7. fd # Closed
  <2>1. Sound(disk', opened')
    BY OpenSound
  <2>2. opened' \in Descriptors /\ n \in Name
    BY <2>1 DEF Sound, Chains
  <2>3. Blank.byte \in [Offset -> Byte]
    BY NameAssumption DEF Blank
  <2>4. SECT_SIZE \in 0 .. SECT_SIZE
    BY Sizes
  <2>5. fd \in FileDesc
    BY <1>4, <2>3, <2>4 DEF Filed, FileDesc
  <2> QED
    BY <2>5, OperationAssumption
<1>8. Content(disk, fe, fd) = c
  BY <1>4, <1>6, BufferUnseen
<1>9. GetFilePos(fd) = 0
  BY <1>6 DEF GetFilePos
<1> HIDE DEF fd, fe, c
<1>10. g = [bytes |-> c, pos |-> 0]
  BY <1>1, <1>2, <1>4, <1>6, <1>7, <1>8, <1>9, NameAssumption DEF FileOf, Filed
<1> HIDE DEF f, g
<1>11. Abstract!OpenFile(f, g)
  BY <1>5, <1>10 DEF Abstract!OpenFile
<1>12. Leaves(disk, disk', opened, {n})
  BY <1>1, LeavesSelf
<1>13. \A m \in Name \ {n} : FileOf(disk', opened'[m], m) = FileOf(disk, opened[m], m)
  BY <1>1, <1>2, <1>12, OthersStay
<1>14. Turns(n)
  BY <1>11, <1>13 DEF Turns, Abstract!Change, f, g
<1>15. GetFilePos(fd) <= GetFileLen(fd)
  <2>1. GetFileLen([fe |-> fe]) = Bytes(fe) /\ Bytes(fe) \in Nat
    BY <1>4, ContentIs
  <2>2. GetFileLen(fd) = Bytes(fe)
    BY <1>6, <2>1 DEF GetFileLen
  <2> QED
    BY <1>9, <2>1, <2>2
<1>16. PositionInFile'
  BY <1>2, <1>15 DEF PositionInFile, Open
<1> QED
  BY <1>14, <1>16

LEMMA CloseTurns ==
    ASSUME Sound(disk, opened), ~PowerFails, PositionInFile, NEW n \in Open, FClose(n)
    PROVE  Turns(n) /\ PositionInFile'
<1> DEFINE s == Session(n)
           r == ToFlush(s)
           fe == r.fd.fe
           e == Now(r.w)
           f == FileOf(disk, opened[n], n)
           g == FileOf(disk', opened'[n], n)
<1>1. /\ opened \in Descriptors /\ n \in Name /\ Holds(opened, n, s) /\ Fresh(s)
      /\ Now(s.w) = disk /\ s.fd = opened[n]
  BY SessionOf
<1>2. /\ disk' = e /\ opened'[n] = Closed /\ \A m \in Name \ {n} : opened'[m] = opened[m]
  BY <1>1 DEF FClose, Does, Descriptors
<1> HIDE DEF s
<1>3. Holds(opened, n, r) /\ ~r.fd.changed /\ FindInRoot(e, n) = fe
  BY <1>1, FlushKeeps DEF Flushed
<1>4. Shows(r) = Shows(s) /\ Leaves(disk, e, opened, {n})
  BY <1>1, FlushShows
<1> HIDE DEF r
<1>5. Filed(fe) /\ fe # Missing
  BY <1>1, <1>3, HoldsFiled, NameAssumption DEF Filed
<1> HIDE DEF fe
<1>6. Content(e, fe, Closed) = Shows(s)
  BY <1>3, <1>4, <1>5, BufferUnseen DEF Shows, fe
<1>7. g = [bytes |-> Shows(s), pos |-> Closed]
  BY <1>2, <1>3, <1>5, <1>6 DEF FileOf
<1>8. f = [bytes |-> Shows(s), pos |-> GetFilePos(s.fd)] /\ Abstract!IsOpen(f)
  <2>1. f = FileOf(Now(s.w), s.fd, n)
    BY <1>1
  <2> HIDE DEF f
  <2> QED
    BY <1>1, <2>1, SessionFile
<1> HIDE DEF f, g
<1>9. Abstract!CloseFile(f, g)
  BY <1>7, <1>8 DEF Abstract!CloseFile
<1>10. Chains(disk, opened)
  BY DEF Sound
<1>11. \A m \in Name \ {n} : FileOf(disk', opened'[m], m) = FileOf(disk, opened[m], m)
  BY <1>1, <1>2, <1>4, <1>10, OthersStay
<1>12. Turns(n)
  BY <1>9, <1>11 DEF Turns, Abstract!Change, f, g
<1>13. PositionInFile'
  BY <1>2 DEF PositionInFile, Open
<1> QED
  BY <1>12, <1>13

-----------------------------------------------------------------------------
(* Files are created, deleted and renamed *)

LEMMA CreateTurns ==
    ASSUME Sound(disk, opened), ~PowerFails, Disciplined, PositionInFile, NEW n \in Name,
           FCreate(n)
    PROVE  Turns(n) /\ PositionInFile'
<1> DEFINE R == Recs(disk, opened)
           fe == FindInRoot(disk', n)
           f == FileOf(disk, opened[n], n)
           g == FileOf(disk', opened'[n], n)
<1>1. /\ opened' = opened /\ FindInRoot(disk, n) = Missing
      /\ fe # Missing /\ fe.sctNum = 0 /\ fe.sctBegin = End
      /\ \A z : z # n => FindInRoot(disk', z) = FindInRoot(disk, z)
      /\ \A o \in DOMAIN R \ {Missing} : Same(disk, disk', R[o])
  BY CreateSound
<1>2. Chains(disk, opened) /\ opened[n] = Closed
  BY <1>1 DEF Sound, Chains, Named
<1>3. f = Missing
  BY <1>1, <1>2 DEF FileOf
<1> HIDE DEF fe
<1>4. Content(disk', fe, Closed) = << >>
  <2>1. GetFileLen([fe |-> fe]) = 0
    BY <1>1 DEF GetFileLen
  <2>2. 1 .. 0 = {}
    OBVIOUS
  <2> QED
    BY <2>1, <2>2 DEF Content
<1>5. g = [bytes |-> << >>, pos |-> Closed]
  BY <1>1, <1>2, <1>4 DEF FileOf, fe
<1> HIDE DEF f, g
<1>6. Abstract!Create(f, g)
  BY <1>3, <1>5 DEF Abstract!Create
<1>7. Leaves(disk, disk', opened, {n})
  <2> SUFFICES ASSUME NEW m \in Name \ {n}
               PROVE  /\ RecordOf(disk', opened[m], m) = RecordOf(disk, opened[m], m)
                      /\ RecordOf(disk, opened[m], m) # Missing =>
                            Same(disk, disk', RecordOf(disk, opened[m], m))
    BY DEF Leaves
  <2>1. RecordOf(disk', opened[m], m) = RecordOf(disk, opened[m], m)
    BY <1>1 DEF RecordOf
  <2>2. ASSUME RecordOf(disk, opened[m], m) # Missing
        PROVE  Same(disk, disk', RecordOf(disk, opened[m], m))
    <3>1. m \in DOMAIN R /\ m # Missing /\ R[m] = RecordOf(disk, opened[m], m)
      BY <1>2, <2>2, RecordIs
    <3> QED
      BY <1>1, <3>1
  <2> QED
    BY <2>1, <2>2
<1>8. \A m \in Name \ {n} : FileOf(disk', opened'[m], m) = FileOf(disk, opened[m], m)
  BY <1>1, <1>2, <1>7, OthersStay
<1>9. Turns(n)
  BY <1>6, <1>8 DEF Turns, Abstract!Change, f, g
<1>10. PositionInFile'
  BY <1>1 DEF PositionInFile, Open
<1> QED
  BY <1>9, <1>10

\* A closed file whose entry may be elsewhere.
LEMMA FileRemains ==
    ASSUME NEW d, NEW x, NEW fds, NEW n \in Name, Chains(d, fds), Chains(x, fds), NEW m \in Name,
           fds[n] = Closed, fds[m] = Closed, FindInRoot(x, m) # Missing,
           Remains(d, x, FindInRoot(d, n), FindInRoot(x, m)), FindInRoot(d, n) # Missing
    PROVE  FileOf(x, Closed, m) = FileOf(d, Closed, n)
<1> DEFINE fe == FindInRoot(d, n)
           ge == FindInRoot(x, m)
<1>1. Filed(fe)
  BY RecordIs DEF RecordOf
<1>2. Filed(ge)
  BY RecordIs DEF RecordOf
<1>3. SameChain(fe, ge) /\ ge.lastBytes = fe.lastBytes /\ Same(d, x, fe)
  BY DEF Remains
<1> HIDE DEF fe, ge
<1>4. Content(x, ge, Closed) = Content(d, fe, Closed)
  BY <1>1, <1>2, <1>3, SameContent
<1> QED
  BY <1>4 DEF FileOf, fe, ge

LEMMA DeleteTurns ==
    ASSUME Sound(disk, opened), ~PowerFails, Disciplined, NEW n \in Name, FDelete(n)
    PROVE  Turns(n) /\ PositionInFile'
<1>1. /\ Sound(disk', opened') /\ opened' = opened /\ FindInRoot(disk', n) = Missing
      /\ \A m \in Name \ {n} :
            Remains(disk, disk', FindInRoot(disk, m), FindInRoot(disk', m))
  BY DeleteSound
<1>2. FindInRoot(disk, n) # Missing /\ \A m \in Name : opened[m] = Closed
  BY DEF FDelete, Open
<1>3. Chains(disk, opened) /\ Chains(disk', opened)
  BY <1>1 DEF Sound
<1>4. ASSUME NEW m \in Name \ {n} PROVE FileOf(disk', Closed, m) = FileOf(disk, Closed, m)
  <2>1. CASE FindInRoot(disk, m) = Missing
    BY <1>1, <2>1 DEF Remains, FileOf
  <2>2. CASE FindInRoot(disk, m) # Missing
    <3>1. FindInRoot(disk', m) # Missing
      BY <1>1, <2>2 DEF Remains
    <3> QED
      BY <1>1, <1>2, <1>3, <2>2, <3>1, FileRemains
  <2> QED
    BY <2>1, <2>2
<1> DEFINE f == FileOf(disk, opened[n], n)
           g == FileOf(disk', opened'[n], n)
<1>5. g = Missing
  BY <1>1, <1>2 DEF FileOf
<1>6. Abstract!IsClosed(f)
  <2>1. RecordOf(disk, opened[n], n) # Missing
    BY <1>2 DEF RecordOf
  <2> QED
    BY <1>2, <1>3, <2>1, FileIs
<1> HIDE DEF f, g
<1>7. Abstract!Delete(f, g)
  BY <1>5, <1>6 DEF Abstract!Delete
<1>8. \A m \in Name \ {n} : FileOf(disk', opened'[m], m) = FileOf(disk, opened[m], m)
  BY <1>1, <1>2, <1>4
<1>9. Turns(n)
  BY <1>7, <1>8 DEF Turns, Abstract!Change, f, g
<1>10. PositionInFile'
  BY <1>1, <1>2 DEF PositionInFile, Open
<1> QED
  BY <1>9, <1>10

\* The file changes its name.
LEMMA RenameTurns ==
    ASSUME Sound(disk, opened), ~PowerFails, PositionInFile, NEW old \in Name, NEW new \in Name,
           FRename(old, new)
    PROVE  /\ PositionInFile' /\ old # new
           /\ Abstract!IsClosed(FileOf(disk, opened[old], old))
           /\ FileOf(disk, opened[new], new) = Missing
           /\ FileOf(disk', opened'[new], new) = FileOf(disk, opened[old], old)
           /\ FileOf(disk', opened'[old], old) = Missing
           /\ \A m \in Name \ {old, new} :
                 FileOf(disk', opened'[m], m) = FileOf(disk, opened[m], m)
<1> DEFINE fe == FindInRoot(disk, old)
           ge == NamedAs(fe, new)
<1>1. /\ fe # Missing /\ FindInRoot(disk, new) = Missing /\ opened[old] = Closed /\ old # new
  BY DEF FRename, Open
<1>2. /\ Sound(disk', opened') /\ opened' = opened /\ fe \in FileEntry /\ OnlyRoot(disk, disk')
      /\ Renamed(disk, disk', old, new, ge)
  BY RenameSound
<1>3. Chains(disk, opened) /\ Chains(disk', opened)
  BY <1>2 DEF Sound
<1>4. opened[new] = Closed
  BY <1>1, <1>3 DEF Chains, Named
<1>5. /\ FindInRoot(disk', new) = ge /\ FindInRoot(disk', old) = Missing
      /\ \A x : x # old /\ x # new => FindInRoot(disk', x) = FindInRoot(disk, x)
  BY <1>1, <1>2 DEF Renamed
<1>6. /\ ge \in FileEntry /\ SameChain(fe, ge) /\ ge.lastBytes = fe.lastBytes
  BY <1>2, NamedAsIs
<1> HIDE DEF ge, fe
<1>7. ge # Missing
  BY <1>6, NameAssumption
<1>8. Same(disk, disk', fe)
  BY <1>1, <1>2, <1>3, RootApart DEF RecordOf, fe
<1>9. Remains(disk, disk', fe, ge)
  BY <1>1, <1>6, <1>7, <1>8 DEF Remains
<1>10. FileOf(disk', Closed, new) = FileOf(disk, Closed, old)
  BY <1>1, <1>3, <1>4, <1>5, <1>7, <1>9, FileRemains DEF fe
<1>11. FileOf(disk', Closed, old) = Missing /\ FileOf(disk, Closed, new) = Missing
  BY <1>1, <1>5 DEF FileOf
<1>12. Abstract!IsClosed(FileOf(disk, opened[old], old))
  <2>1. RecordOf(disk, opened[old], old) # Missing
    BY <1>1 DEF RecordOf, fe
  <2> QED
    BY <1>1, <1>3, <2>1, FileIs
<1>13. Leaves(disk, disk', opened, {old, new})
  BY <1>2, <1>3, <1>5, LeavesRoot
<1>14. \A m \in Name \ {old, new} : FileOf(disk', opened[m], m) = FileOf(disk, opened[m], m)
  BY <1>3, <1>13, LeavesFiles
<1>15. PositionInFile'
  BY <1>2 DEF PositionInFile, Open
<1> QED
  BY <1>1, <1>2, <1>4, <1>10, <1>11, <1>12, <1>14, <1>15

-----------------------------------------------------------------------------
(* The file system implements files *)

\* The file old gets the name new.
Renames(old, new) ==
    /\ old # new
    /\ Abstract!IsClosed(FileOf(disk, opened[old], old))
    /\ FileOf(disk, opened[new], new) = Missing
    /\ FileOf(disk', opened'[new], new) = FileOf(disk, opened[old], old)
    /\ FileOf(disk', opened'[old], old) = Missing
    /\ \A m \in Name \ {old, new} : FileOf(disk', opened'[m], m) = FileOf(disk, opened[m], m)

LEMMA OperationTurns ==
    ASSUME Disciplined, ~PowerFails, Quiet, PositionInFile, FSNext
    PROVE  /\ PositionInFile'
           /\ (\E n \in Name : Turns(n)) \/ (\E old, new \in Name : Renames(old, new))
<1>1. failed = Running /\ Sound(disk, opened)
  BY DEF Quiet
<1>2. FSOperation
  BY <1>1 DEF FSNext, Restart
<1>3. Open \subseteq Name
  BY DEF Open
<1>4. ASSUME NEW n \in Name, FCreate(n) \/ FDelete(n) \/ FOpen(n)
      PROVE  Turns(n) /\ PositionInFile'
  <2>1. CASE FCreate(n)
    BY <1>1, <2>1, CreateTurns
  <2>2. CASE FDelete(n)
    BY <1>1, <2>2, DeleteTurns
  <2>3. CASE FOpen(n)
    BY <1>1, <2>3, OpenTurns
  <2> QED
    BY <1>4, <2>1, <2>2, <2>3
<1>5. ASSUME NEW n \in Name, NEW m \in Name, FRename(n, m)
      PROVE  Renames(n, m) /\ PositionInFile'
  BY <1>1, <1>5, RenameTurns DEF Renames
<1>6. ASSUME NEW n \in Open, FFlush(n) PROVE Turns(n) /\ PositionInFile'
  BY <1>1, <1>6, FlushTurns
<1>7. ASSUME NEW n \in Open, FClose(n) PROVE Turns(n) /\ PositionInFile'
  BY <1>1, <1>7, CloseTurns
<1>8. ASSUME NEW n \in Open, NEW l \in Lengths, FErase(n, l) PROVE Turns(n) /\ PositionInFile'
  BY <1>1, <1>8, EraseTurns
<1>9. ASSUME NEW n \in Open, NEW l \in Lengths, FRead(n, l) PROVE Turns(n) /\ PositionInFile'
  BY <1>1, <1>9, ReadTurns
<1>10. ASSUME NEW n \in Open, NEW p \in Positions, FSeek(n, p) PROVE Turns(n) /\ PositionInFile'
  BY <1>1, <1>10, SeekTurns
<1>11. ASSUME NEW n \in Open, NEW l \in Lengths, NEW b \in Byte, FWrite(n, [i \in 1 .. l |-> b])
       PROVE  Turns(n) /\ PositionInFile'
  BY <1>1, <1>11, WriteTurns
<1>12. CASE \E n \in Name : FCreate(n) \/ FDelete(n) \/ FOpen(n)
  BY <1>4, <1>12
<1>13. CASE \E n, m \in Name : FRename(n, m)
  BY <1>5, <1>13
<1>14. CASE \E n \in Open : FFlush(n) \/ FClose(n)
  BY <1>3, <1>6, <1>7, <1>14
<1>15. CASE \E n \in Open : \E l \in Lengths : FErase(n, l) \/ FRead(n, l)
  BY <1>3, <1>8, <1>9, <1>15
<1>16. CASE \E n \in Open : \E p \in Positions : FSeek(n, p)
  BY <1>3, <1>10, <1>16
<1>17. CASE \E n \in Open : \E l \in Lengths, b \in Byte : FWrite(n, [i \in 1 .. l |-> b])
  BY <1>3, <1>11, <1>17
<1> QED
  BY <1>2, <1>12, <1>13, <1>14, <1>15, <1>16, <1>17 DEF FSOperation

LEMMA PositionsBegin == FSInit => PositionInFile
  BY DEF FSInit, PositionInFile, Open

\* With disciplined callers and no power failure the position of an open file is in the
\* file, also after its end was erased (comment fs.c:1458).
THEOREM PositionsStay ==
    ASSUME Disciplined, ~PowerFails
    PROVE  FSSpec => []PositionInFile
<1>1. Quiet /\ PositionInFile /\ [FSNext]_fsVars => PositionInFile'
  <2> SUFFICES ASSUME Quiet, PositionInFile, [FSNext]_fsVars PROVE PositionInFile'
    OBVIOUS
  <2>1. CASE FSNext
    BY <2>1, OperationTurns
  <2>2. CASE UNCHANGED fsVars
    BY <2>2 DEF fsVars, PositionInFile, Open
  <2> QED
    BY <2>1, <2>2
<1>2. FSSpec => []Quiet
  BY AlwaysQuiet
<1> QED
  BY <1>1, <1>2, PositionsBegin, PTL DEF FSSpec

\* The files that callers see are those of the disk and the descriptors.
LEMMA FilesBegin ==
    ASSUME ContentsInit
    PROVE  Abstract!FilesInit
<1>1. disk = FSFormat(Blank) /\ opened = [n \in Name |-> Closed] /\ file = FilesOf(disk, opened)
  BY DEF ContentsInit, FSInit
<1>2. disk.root.sctNum = 0
  BY <1>1 DEF FSFormat, NewChain
<1>3. \A n \in Name : FindInRoot(disk, n) = Missing
  BY <1>2 DEF FindInRoot, Found
<1>4. \A n \in Name : FileOf(disk, opened[n], n) = Missing
  BY <1>1, <1>3 DEF FileOf
<1> QED
  BY <1>1, <1>4 DEF FilesOf, Abstract!FilesInit

LEMMA FilesGo ==
    ASSUME Disciplined, ~PowerFails, Quiet, PositionInFile, file = FilesOf(disk, opened),
           ContentsNext
    PROVE  Abstract!FilesNext
<1>1. /\ \A n \in Name : file[n] = FileOf(disk, opened[n], n)
      /\ \A n \in Name : file'[n] = FileOf(disk', opened'[n], n)
      /\ file = [n \in Name |-> file[n]] /\ file' = [n \in Name |-> file'[n]]
  BY DEF ContentsNext, FilesOf
<1>2. (\E n \in Name : Turns(n)) \/ (\E old, new \in Name : Renames(old, new))
  BY OperationTurns DEF ContentsNext
<1>3. ASSUME NEW n \in Name, Turns(n) PROVE Abstract!FilesNext
  <2>1. Abstract!Change(file[n], file'[n]) /\ \A m \in Name \ {n} : file'[m] = file[m]
    BY <1>1, <1>3 DEF Turns
  <2> QED
    BY <2>1 DEF Abstract!FilesNext
<1>4. ASSUME NEW old \in Name, NEW new \in Name, Renames(old, new) PROVE Abstract!FilesNext
  <2>1. /\ old # new /\ Abstract!IsClosed(file[old]) /\ file[new] = Missing
        /\ file'[new] = file[old] /\ file'[old] = Missing
        /\ \A m \in Name \ {old, new} : file'[m] = file[m]
    BY <1>1, <1>4 DEF Renames
  <2>2. file' = [file EXCEPT ![new] = file[old], ![old] = Missing]
    BY <1>1, <2>1
  <2> QED
    BY <2>1, <2>2 DEF Abstract!FilesNext
<1> QED
  BY <1>2, <1>3, <1>4

\* With disciplined callers and no power failure the file system implements files: bytes
\* are found where they were written, an operation changes one file only, and what is cut
\* short leaves a file of the bytes written so far (fs.c, all of its operations).
THEOREM FilesAreImplemented ==
    ASSUME Disciplined, ~PowerFails
    PROVE  ContentsSpec => FilesImplemented
<1>1. ContentsInit => FSInit /\ file = FilesOf(disk, opened) /\ Abstract!FilesInit
  BY FilesBegin DEF ContentsInit
<1>2. [ContentsNext]_<< fsVars, file >> => [FSNext]_fsVars
  BY DEF ContentsNext
<1>3. /\ file = FilesOf(disk, opened) /\ [ContentsNext]_<< fsVars, file >>
      => (file = FilesOf(disk, opened))'
  BY DEF ContentsNext, fsVars
<1>4. /\ Quiet /\ PositionInFile /\ file = FilesOf(disk, opened)
      /\ [ContentsNext]_<< fsVars, file >>
      => [Abstract!FilesNext]_file
  BY FilesGo
<1>5. FSSpec => []Quiet /\ []PositionInFile
  BY AlwaysQuiet, PositionsStay
<1> QED
  BY <1>1, <1>2, <1>3, <1>4, <1>5, PTL
     DEF ContentsSpec, FSSpec, FilesImplemented, Abstract!FilesSpec
=============================================================================
